------------------------------- MODULE Drivers -------------------------------
(***************************************************************************)
(* The two USB drivers: the rings of the host controller, and the storage  *)
(* commands whose packets go over them.  The storage driver is modelled    *)
(* over queues of transfers, which is what the rings promise.              *)
(***************************************************************************)
EXTENDS Xhci, UsbStorage

DriversSpec == XhciSpec /\ StorageSpec

\* The USB host controller's rings stay in step with the controller, and what
\* the storage driver reports is true.
DriversSafe == XhciSafe /\ StorageSafe
=============================================================================
