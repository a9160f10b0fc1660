-------------------------------- MODULE Tls --------------------------------
(***************************************************************************)
(* An HTTPS request (tls.c): one client call, from the ClientHello to the  *)
(* end of the answer, against a server that keeps the protocol and chooses *)
(* the version, 1.3 or 1.2, and how its messages are cut into records.     *)
(* A message of the server's flight is two units, so that a record may end *)
(* inside it; the answer is a sequence of numbered units.  A key is known  *)
(* by the caller it is shared for and its epoch; what a Finished message   *)
(* is computed from is the sender's transcript.                            *)
(* The buffers for a record and for handshake bytes are static: every call *)
(* of the machine reads into the same ones, and waits between two reads.   *)
(***************************************************************************)
EXTENDS Integers, FiniteSets, Sequences, SequencesExt

CONSTANTS
  TlsCallers,     \* tasks inside tls_https_get
  Versions,       \* subset of {12, 13} the servers choose from
  FlightCuts,     \* how many units of its flight a server puts into a record
  FlightGuard,    \* records read for a flight: 16 to 32 in the code
  AnswerGuard,    \* records read for an answer: 80 in the code
  AnswerLen,      \* units of the server's answer
  AnswerRoom,     \* units that fit in out_cap
  LatenessMax     \* bound: calls that give up waiting

ASSUME TlsAssumption ==
  /\ Versions \subseteq {12, 13}
  /\ {FlightGuard, AnswerGuard, AnswerLen, AnswerRoom} \subseteq Nat \ {0}
  /\ FlightCuts \subseteq Nat \ {0} /\ LatenessMax \in Nat

VARIABLES
  call,     \* caller -> the locals of its call
  scratch,  \* [record, hs]: the record whose first part lies in the static buffer,
            \* the first unit of the static hsbuf
  down,     \* caller -> records on the way to it
  up,       \* caller -> records on the way to its server
  site,     \* caller -> the server it talks to
  late      \* the callers that gave up waiting while more was to come

tlsVars == <<call, scratch, down, up, site, late>>

(***************************************************************************)
(* Units, records, keys.  A record is read in two parts.                   *)
(***************************************************************************)
Answer(who, i) == [who |-> who, msg |-> "answer", end |-> FALSE, nth |-> i]
Single(who, m) == <<[who |-> who, msg |-> m, end |-> TRUE]>>
NoUnit == Single("nobody", "none")[1]
Double(who, m) == <<[who |-> who, msg |-> m, end |-> FALSE]>> \o Single(who, m)
Flight(who, version) ==
  IF version = 13 THEN Double(who, "encrypted_extensions") \o Double(who, "finished")
  ELSE Double(who, "server_key_exchange") \o Double(who, "server_hello_done")
Hellos(who) == Single(who, "client_hello") \o Single(who, "server_hello")
LogOf13(who) == Hellos(who) \o Double(who, "encrypted_extensions")

Nobody == "nobody"
Key(who, epoch) == [of |-> who, epoch |-> epoch]
Sealed(type, inner, body, key, seq) ==
  [type |-> type, inner |-> inner, body |-> body, key |-> key, seq |-> seq]
Plain(type, body) == Sealed(type, type, body, Key(Nobody, "plain"), 0)
ChangeCipher == Plain("change_cipher", <<>>)
Alert == Plain("alert", <<>>)

Half(r) == (Len(r.body) + 1) \div 2
Lying(buf) == SubSeq(buf[1].body, 1, Half(buf[1]))
              \o SubSeq(buf[2].body, Half(buf[2]) + 1, Len(buf[2].body))

\* decrypt_record, tls12_open: what lies in the buffer must be one record,
\* sealed with the reader's key and number.
Opens(buf, key, seq) == \A n \in 1 .. 2 : buf[n].key = key /\ buf[n].seq = seq

(***************************************************************************)
(* The client: call[c] has where it waits (pc), whether the first part of  *)
(* a record was read and the type in its header (part, type), hsbuf_len    *)
(* (got), the transcript (log), whose key it has (key), the number of the  *)
(* next record from the server (seq), the records read in this loop        *)
(* (guard), the answer (out), and whether the server's ChangeCipherSpec    *)
(* was seen (sealed).                                                      *)
(***************************************************************************)
Idle == [pc |-> "idle", part |-> FALSE, type |-> "none", got |-> 0, log |-> <<>>, key |-> Nobody,
         seq |-> 0, guard |-> 0, out |-> <<>>, sealed |-> FALSE]
Over(c) == call[c].pc \in {"ok", "failed"}
Waits(c) == call[c].pc # "idle" /\ ~Over(c)

Fails(r) == [r EXCEPT !.pc = "failed"]
Logs(r, units) == [r EXCEPT !.log = @ \o units]
GoesTo(r, pc) == [r EXCEPT !.pc = pc, !.guard = 0]
\* One more record read: the loop may be over.
Counted(r, limit, end) == IF r.guard + 1 = limit THEN end ELSE [r EXCEPT !.guard = @ + 1]
\* The end of the answer; an empty one is an error.
Ends(r) == [r EXCEPT !.pc = IF r.out = <<>> THEN "failed" ELSE "ok"]

\* The request may be sent: the client's own Finished goes before it.
Finishes(c, r, epoch, seq) ==
  Sealed(IF epoch = "hs" THEN "application" ELSE "handshake", "handshake", r.log,
         Key(r.key, epoch), seq)
Request(r, epoch, seq) == Sealed("application", "application", <<>>, Key(r.key, epoch), seq)

(***************************************************************************)
(* hsbuf: at most the first unit of a message is left there.  Messages are *)
(* taken in pairs of units, until the flight has ended or is refused.      *)
(***************************************************************************)
Bytes(r, units) == (IF r.got = 1 THEN <<scratch.hs>> ELSE <<>>) \o units
Pairs(bytes) == [n \in 1 .. Len(bytes) \div 2 |-> <<bytes[2 * n - 1], bytes[2 * n]>>]
NoLeftOver(bytes) == 0
LeftOver(bytes) == Len(bytes) % 2
FirstAfter(bytes) ==
  IF bytes = <<>> THEN scratch.hs
  ELSE IF LeftOver(bytes) = 1 THEN Last(bytes) ELSE bytes[1]
TypeOf(pair) == IF pair[1].end THEN "garbled" ELSE pair[1].msg

Verified(c, r, pair) == r.key = c /\ pair = Double(c, "finished") /\ r.log = LogOf13(c)

Takes13(c, r, pair) ==
  IF r.pc = "failed" THEN r
  ELSE CASE TypeOf(pair) = "encrypted_extensions" -> Logs(r, pair)
         [] TypeOf(pair) = "finished" /\ Verified(c, r, pair) ->
              Logs([r EXCEPT !.pc = "done"], pair)
         [] OTHER -> Fails(r)

Shared(c, who) == IF who = c THEN c ELSE Nobody
Takes12(c, r, pair) ==
  IF r.pc # "flight12" THEN r
  ELSE CASE TypeOf(pair) = "server_key_exchange" ->
              Logs([r EXCEPT !.key = Shared(c, pair[2].who), !.sealed = TRUE], pair)
         [] TypeOf(pair) = "server_hello_done" -> Logs([r EXCEPT !.pc = "done"], pair)
         [] OTHER -> Fails(r)

HsRead(c, r, bytes) ==
  LET pairs == Pairs(bytes)
      step(s, pair) == IF r.pc = "flight12" THEN Takes12(c, s, pair) ELSE Takes13(c, s, pair)
  IN [FoldLeft(step, r, pairs) EXCEPT !.got = LeftOver(bytes)]

(***************************************************************************)
(* What a record does, by what the client waits for.  Each gives the new   *)
(* locals and the records sent.                                            *)
(***************************************************************************)
Quiet(r) == [call |-> r, sends |-> <<>>]

\* 1.2: the loop first takes what lies in hsbuf; when the flight is there the
\* key exchange, ChangeCipherSpec and Finished are sent.
Turn12(c, r) ==
  CASE r.pc # "done" -> Quiet(r)
    [] r.pc = "done" /\ ~r.sealed -> Quiet(Fails(r))
    [] OTHER ->
         LET exchanged == Logs(r, Single(c, "client_key_exchange"))
             next == Logs(exchanged, Single(c, "client_finished"))
         IN [call |-> [GoesTo(next, "finish12") EXCEPT !.seq = 0, !.sealed = FALSE],
             sends |-> <<Plain("handshake", Single(c, "client_key_exchange")), ChangeCipher,
                         Finishes(c, exchanged, "12", 0)>>]

OnHello(c, r, body) ==
  IF r.type # "handshake" \/ body = <<>> THEN Quiet(Fails(r))
  ELSE CASE body[1].msg = "server_hello_13" ->
              Quiet([GoesTo(Logs(r, Single(body[1].who, "server_hello")), "flight13")
                       EXCEPT !.key = Shared(c, body[1].who)])
         [] body[1].msg = "server_hello_12" ->
              Turn12(c, HsRead(c, GoesTo(Logs(r, Single(body[1].who, "server_hello")), "flight12"),
                               Tail(body)))
         [] OTHER -> Quiet(Fails(r))

OnFlight13(c, r, buf) ==
  CASE r.type = "alert" -> Quiet(Fails(r))
    [] r.type # "application" -> Quiet(Counted(r, FlightGuard, Fails(r)))
    [] r.type = "application" /\ ~Opens(buf, Key(r.key, "hs"), r.seq) -> Quiet(Fails(r))
    [] OTHER ->
         LET read == HsRead(c, [r EXCEPT !.seq = @ + 1], Bytes(r, Lying(buf)))
             next == Logs(read, Single(c, "client_finished"))
         IN IF read.pc = "done"
            THEN [call |-> [GoesTo(next, "answer13") EXCEPT !.seq = 0],
                  sends |-> <<ChangeCipher, Finishes(c, read, "hs", 0), Request(read, "app", 0)>>]
            ELSE Quiet(Counted(read, FlightGuard, Fails(read)))

OnFlight12(c, r, buf) ==
  CASE r.type = "alert" -> Quiet(Fails(r))
    [] r.type = "handshake" -> Turn12(c, Counted(HsRead(c, r, Bytes(r, Lying(buf))), FlightGuard,
                                                 Fails(r)))
    [] OTHER -> Quiet(Counted(r, FlightGuard, Fails(r)))

OnFinish12(c, r, buf) ==
  CASE r.type = "change_cipher" -> Quiet(Counted([r EXCEPT !.sealed = TRUE], FlightGuard, Fails(r)))
    [] r.type = "alert" -> Quiet(Fails(r))
    [] r.type = "handshake" /\ ~r.sealed ->
         Quiet(Counted(Logs(r, Lying(buf)), FlightGuard, Fails(r)))
    [] r.type = "handshake" /\ r.sealed ->
         IF Opens(buf, Key(r.key, "12"), r.seq) /\ buf[1].body = r.log
         THEN [call |-> [GoesTo(r, "answer12") EXCEPT !.seq = @ + 1],
               sends |-> <<Request(r, "12", 1)>>]
         ELSE Quiet(Fails(r))
    [] OTHER -> Quiet(Counted(r, FlightGuard, Fails(r)))

Fitting(units) == SubSeq(units, 1, IF Len(units) < AnswerRoom THEN Len(units) ELSE AnswerRoom)
OnAnswer(c, r, buf, epoch) ==
  CASE r.type = "alert" -> Quiet(Ends(r))
    [] r.type # "application" -> Quiet(Counted(r, AnswerGuard, Ends(r)))
    [] r.type = "application" /\ ~Opens(buf, Key(r.key, epoch), r.seq) -> Quiet(Fails(r))
    [] OTHER ->
         LET units == IF buf[1].inner = "application" THEN Lying(buf) ELSE <<>>
             all == r.out \o units
             next == [r EXCEPT !.seq = @ + 1, !.out = Fitting(all)]
         IN Quiet(IF Len(all) >= AnswerRoom THEN Ends(next)
                  ELSE Counted(next, AnswerGuard, Ends(next)))

Handled(c, r, buf) ==
  CASE r.pc = "hello" -> OnHello(c, r, Lying(buf))
    [] r.pc = "flight13" -> OnFlight13(c, r, buf)
    [] r.pc = "flight12" -> OnFlight12(c, r, buf)
    [] r.pc = "finish12" -> OnFinish12(c, r, buf)
    [] r.pc = "answer13" -> OnAnswer(c, r, buf, "app")
    [] r.pc = "answer12" -> OnAnswer(c, r, buf, "12")

(***************************************************************************)
(* The client's steps: each waits, and another task may run before it.     *)
(***************************************************************************)
tls_https_get(c) ==
  /\ call[c].pc = "idle"
  /\ call' = [call EXCEPT ![c] = Logs([@ EXCEPT !.pc = "hello"], Single(c, "client_hello"))]
  /\ up' = [up EXCEPT ![c] = <<Plain("handshake", Single(c, "client_hello"))>>]
  /\ UNCHANGED <<scratch, down, site, late>>

\* read_record: the header and the first bytes of the body ...
ReadBegins(c) ==
  /\ Waits(c) /\ ~call[c].part /\ down[c] # <<>>
  /\ scratch' = [scratch EXCEPT !.record = Head(down[c])]
  /\ call' = [call EXCEPT ![c].part = TRUE, ![c].type = Head(down[c]).type]
  /\ UNCHANGED <<down, up, site, late>>

\* ... and the rest of it.
HsUnits(r, buf) ==
  CASE r.pc = "hello" /\ Lying(buf) # <<>> -> Tail(Lying(buf))
    [] r.pc \in {"flight12", "flight13"} /\ r.type \in {"handshake", "application"} ->
         Bytes(r, Lying(buf))
    [] OTHER -> <<>>
\* What no call will read again is forgotten.
OthersRead(c) == \E d \in TlsCallers \ {c} : call[d].part
OthersKeep(c) == \E d \in TlsCallers \ {c} : call[d].got = 1
ReadEnds(c) ==
  /\ Waits(c) /\ call[c].part
  /\ LET buf == <<scratch.record, Head(down[c])>>
         did == Handled(c, call[c], buf)
     IN /\ scratch' = [record |-> IF OthersRead(c) THEN scratch.record ELSE ChangeCipher,
                       hs |-> IF OthersKeep(c) \/ did.call.got = 1
                              THEN FirstAfter(HsUnits(call[c], buf)) ELSE NoUnit]
        /\ call' = [call EXCEPT ![c] = [did.call EXCEPT !.part = FALSE, !.type = "none"]]
        /\ up' = [up EXCEPT ![c] = @ \o did.sends]
  /\ down' = [down EXCEPT ![c] = Tail(@)]
  /\ UNCHANGED <<site, late>>

\* The connection is closed, or nothing came for too long.
ReadFails(c) ==
  /\ Waits(c)
  /\ \/ down[c] = <<>> /\ site[c].pc = "closed" /\ UNCHANGED late
     \/ /\ down[c] = <<>> \/ call[c].part
        /\ site[c].pc # "closed" /\ Cardinality(late) < LatenessMax
        /\ late' = late \cup {c}
  /\ call' = [call EXCEPT ![c] = IF @.pc \in {"answer12", "answer13"} THEN Ends(@) ELSE Fails(@)]
  /\ UNCHANGED <<scratch, down, up, site>>

(***************************************************************************)
(* The server.                                                             *)
(***************************************************************************)
Serves(c, pc) == site[c].pc = pc /\ ~Over(c)
Sends(c, recs) == down' = [down EXCEPT ![c] = @ \o recs]
Hears == UNCHANGED <<call, scratch, late>>

SiteRejects(c) ==
  /\ Serves(c, "listening") /\ up[c] # <<>>
  /\ site' = [site EXCEPT ![c].pc = "closed"]
  /\ up' = [up EXCEPT ![c] = <<>>]
  /\ Sends(c, <<Alert>>) /\ Hears

\* ServerHello; a 1.2 server may put the start of its flight into its record.
SiteChooses(c, version, n) ==
  /\ Serves(c, "listening") /\ up[c] # <<>>
  /\ LET flight == Flight(c, version)
         hello == Single(c, IF version = 13 THEN "server_hello_13" ELSE "server_hello_12")
     IN /\ n <= (IF version = 12 THEN Len(flight) ELSE 0)
        /\ site' = [site EXCEPT ![c] = [@ EXCEPT !.pc = "flight", !.version = version,
                                                 !.left = SubSeq(flight, n + 1, Len(flight)),
                                                 !.log = Hellos(c) \o flight]]
        /\ Sends(c, <<Plain("handshake", hello \o SubSeq(flight, 1, n))>>)
  /\ up' = [up EXCEPT ![c] = Tail(@)]
  /\ Hears

SiteSendsFlight(c, n) ==
  /\ Serves(c, "flight") /\ site[c].left # <<>>
  /\ LET s == site[c]
         many == IF n < Len(s.left) THEN n ELSE Len(s.left)
         units == SubSeq(s.left, 1, many)
     IN /\ Sends(c, <<IF s.version = 12 THEN Plain("handshake", units)
                      ELSE Sealed("application", "handshake", units, Key(c, "hs"), s.seq)>>)
        /\ site' = [site EXCEPT ![c].left = SubSeq(@, many + 1, Len(@)),
                                ![c].seq = IF s.version = 13 THEN @ + 1 ELSE @]
  /\ UNCHANGED up /\ Hears

\* A 1.3 server's ChangeCipherSpec, which says nothing, may come anywhere.
SiteSendsCipherChange(c) ==
  /\ Serves(c, "flight") /\ site[c].version = 13 /\ ~site[c].changed
  /\ Sends(c, <<ChangeCipher>>)
  /\ site' = [site EXCEPT ![c].changed = TRUE]
  /\ UNCHANGED up /\ Hears

Takeable(c) == Serves(c, "flight") /\ site[c].left = <<>> /\ up[c] # <<>>

SiteTakesPlain(c) ==
  /\ Takeable(c) /\ Head(up[c]).key.epoch = "plain"
  /\ site' = [site EXCEPT ![c].log = @ \o Head(up[c]).body]
  /\ up' = [up EXCEPT ![c] = Tail(@)]
  /\ UNCHANGED down /\ Hears

\* The client's Finished.  A 1.2 server answers with its own, after a session
\* ticket in the clear if it likes.
SiteTakesFinished(c, tickets) ==
  /\ Takeable(c) /\ Head(up[c]).key.epoch # "plain"
  /\ LET s == site[c]
         fin == Head(up[c])
         ticket == IF tickets THEN Single(c, "ticket") ELSE <<>>
         log == s.log \o Single(c, "client_finished") \o ticket
     IN IF fin.key.of = c /\ fin.body = s.log
        THEN /\ s.version = 13 => ~tickets
             /\ Sends(c, IF s.version = 13 THEN <<>>
                         ELSE (IF tickets THEN <<Plain("handshake", ticket)>> ELSE <<>>)
                              \o <<ChangeCipher,
                                   Sealed("handshake", "handshake", log, Key(c, "12"), 0)>>)
             /\ site' = [site EXCEPT ![c] = [@ EXCEPT !.pc = "open", !.log = log,
                                                      !.seq = IF s.version = 13 THEN 0 ELSE 1]]
        ELSE /\ ~tickets
             /\ Sends(c, <<Alert>>)
             /\ site' = [site EXCEPT ![c].pc = "closed"]
  /\ up' = [up EXCEPT ![c] = Tail(@)]
  /\ Hears

Epoch(c) == IF site[c].version = 13 THEN "app" ELSE "12"

\* A 1.3 server's session ticket, among the records of the answer.
SiteSendsTicket(c) ==
  /\ Serves(c, "open") /\ site[c].version = 13 /\ ~site[c].ticket
  /\ Sends(c, <<Sealed("application", "handshake", Single(c, "ticket"), Key(c, "app"),
                       site[c].seq)>>)
  /\ site' = [site EXCEPT ![c].ticket = TRUE, ![c].seq = @ + 1]
  /\ UNCHANGED up /\ Hears

SiteAnswers(c, n) ==
  /\ Serves(c, "open") /\ up[c] # <<>> /\ site[c].told + n <= AnswerLen
  /\ Sends(c, <<Sealed("application", "application", [i \in 1 .. n |-> Answer(c, site[c].told + i)],
                       Key(c, Epoch(c)), site[c].seq)>>)
  /\ site' = [site EXCEPT ![c].told = @ + n, ![c].seq = @ + 1]
  /\ UNCHANGED up /\ Hears

SiteCloses(c) ==
  /\ Serves(c, "open") /\ site[c].told = AnswerLen
  /\ site' = [site EXCEPT ![c].pc = "closed"]
  /\ UNCHANGED <<up, down>> /\ Hears

TlsInit ==
  /\ call = [c \in TlsCallers |-> Idle]
  /\ scratch = [record |-> ChangeCipher, hs |-> NoUnit]
  /\ down = [c \in TlsCallers |-> <<>>]
  /\ up = [c \in TlsCallers |-> <<>>]
  /\ site = [c \in TlsCallers |-> [pc |-> "listening", version |-> 13, left |-> <<>>, log |-> <<>>,
                                   seq |-> 0, changed |-> FALSE, ticket |-> FALSE, told |-> 0]]
  /\ late = {}

TlsNext ==
  \E c \in TlsCallers :
    \/ tls_https_get(c) \/ ReadBegins(c) \/ ReadEnds(c) \/ ReadFails(c)
    \/ SiteRejects(c) \/ SiteSendsCipherChange(c) \/ SiteTakesPlain(c)
    \/ SiteSendsTicket(c) \/ SiteCloses(c)
    \/ \E version \in Versions, n \in FlightCuts \cup {0} : SiteChooses(c, version, n)
    \/ \E n \in FlightCuts : SiteSendsFlight(c, n)
    \/ \E tickets \in BOOLEAN : SiteTakesFinished(c, tickets)
    \/ \E n \in 1 .. AnswerLen : SiteAnswers(c, n)

TlsSpec == TlsInit /\ [][TlsNext]_tlsVars

(***************************************************************************)
(* Properties.                                                             *)
(***************************************************************************)
TlsTypeOK ==
  \A c \in TlsCallers :
    /\ call[c].got \in 0 .. 1 /\ call[c].guard \in 0 .. FlightGuard + AnswerGuard
    /\ call[c].key \in {c, Nobody}

\* Once the request is sent both sides have the same transcript, however the
\* flight was cut into records and whatever other calls read meanwhile.
TranscriptsAgree ==
  \A c \in TlsCallers :
    call[c].pc \in {"answer12", "answer13", "ok"} /\ site[c].pc = "open" =>
      call[c].key = c /\ call[c].log = site[c].log

\* What a call has of the answer is its beginning, in order and without gaps.
AnswerIsPrefix ==
  \A c \in TlsCallers : IsPrefix(call[c].out, [i \in 1 .. site[c].told |-> Answer(c, i)])

\* A call that has been alone in the module gets the answer, as much as there
\* is room and patience for, unless it was refused or gave up waiting.
OnlyCall(c) == \A d \in TlsCallers \ {c} : call[d].pc = "idle"
AnswerIsWhole ==
  \A c \in TlsCallers : OnlyCall(c) /\ c \notin late /\ Over(c) /\ site[c].log # <<>> =>
    /\ call[c].pc = "ok"
    /\ \/ Len(call[c].out) \in {AnswerLen, AnswerRoom}
       \/ call[c].guard + 1 = AnswerGuard

\* Nor does it wait for more of a flight that it has been sent in full.
FlightIsTaken ==
  \A c \in TlsCallers :
    OnlyCall(c) /\ site[c].pc = "flight" /\ site[c].left = <<>> /\ down[c] = <<>> /\ ~call[c].part =>
      call[c].pc \notin {"flight12", "flight13"}

TlsSafe == TlsTypeOK /\ TranscriptsAgree /\ AnswerIsPrefix /\ AnswerIsWhole /\ FlightIsTaken
=============================================================================
