--------------------------- MODULE OwnershipProbe ---------------------------
(***************************************************************************)
(* verifyResourceOwnership of src/ownership.ts, the facilitator's probe of *)
(* a resource that was paid for, composed with the seller it is written    *)
(* for: the resource is either examples/seller.mjs (module SellerRoute),   *)
(* asleep on a host that wakes it at the first connection and keeps the    *)
(* connection waiting until it serves, or somebody else's server, which    *)
(* answers any status with any header, or nothing.                         *)
(*                                                                         *)
(* The two sides share one clock, which moves from timer to timer; what is *)
(* not a timer takes no time next to one. The resolver answers each lookup *)
(* of a name with any of the name's addresses, so that two lookups of it   *)
(* may differ. The caller (src/bazaar.ts) does not await the verdict.      *)
(***************************************************************************)
EXTENDS SellerRoute, Sequences, FiniteSetsExt

CONSTANTS
  Probe,    \* the request by which the seller sees the verifier
  PayTos,
  Sites     \* the resources a verification may be about

ASSUME ProbeAssumption ==
  /\ Probe \in Requests
  /\ \A s \in Sites : /\ s.addresses \subseteq {"public", "blocked"}
                      /\ s.claims \subseteq PayTos
  /\ \A w \in Worlds : w.payTo \in PayTos
  /\ None \notin {"match", "mismatch", "unverifiable", "timeout"}

VARIABLES
  site,        \* the resource, and the addresses claimed for it
  awake,       \* whether its host has started the seller
  at,          \* where the verification stands
  probes,      \* probes begun
  timerAt,     \* when its timer fires: the abort of a probe, or a retry
  vetted,      \* the address the guard resolved and passed
  reached,     \* history: the addresses connected to
  served,      \* history: whether a probe ever reached the serving seller
  heard,       \* history: the answer that ended the verification, as it was sent
  verdict

verifierVars == <<at, probes, timerAt, vetted, reached, served, heard, verdict>>
allVars == <<vars, site, awake, verifierVars>>

\* the probe that reached the seller was due to be aborted, or was not
Served == {"never", "late", "inTime"}

\* An answer: its status, what its PAYMENT-REQUIRED header is, and the addresses
\* that the header names, whether or not the code would read them.
Wire == [status: {200, 302, 400, 402, 500, 502},
         header: {"missing", "oversized", "garbled", "challenge"},
         payTos: SUBSET PayTos]

ASSUME HeardAssumption == None \notin Wire

FETCH_TIMEOUT == 3
COLD_START_RETRY_DELAYS == <<45, 120>>

VerifierInit ==
  /\ Init
  /\ site \in Sites /\ awake = FALSE
  /\ at = "idle" /\ probes = 0 /\ timerAt = 0
  /\ vetted = None /\ reached = {} /\ served = "never"
  /\ heard = None /\ verdict = None

SellerUnchanged == UNCHANGED <<vars, site, awake>>

Conclude(v) == at' = "done" /\ verdict' = v

-----------------------------------------------------------------------------
(* One probe.                                                               *)

\* a claim of nothing is neither confirmed nor refuted
Begin ==
  /\ at = "idle"
  /\ IF site.claims = {}
       THEN Conclude("unverifiable")
       ELSE at' = "lookup" /\ UNCHANGED verdict
  /\ SellerUnchanged /\ UNCHANGED <<probes, timerAt, vetted, reached, served, heard>>

\* by bytes in the code: private, loopback, link-local, multicast, and the
\* IPv6 forms that carry such an IPv4 address
isBlockedAddress(a) == a = "blocked"

\* assertPublicHttpsUrl: it refuses, or vets the one address it resolved
Refused ==
  /\ at = "lookup"
  /\ ~ site.https \/ site.addresses = {}
       \/ \E a \in site.addresses : isBlockedAddress(a)
  /\ Conclude("unverifiable")
  /\ SellerUnchanged /\ UNCHANGED <<probes, timerAt, vetted, reached, served, heard>>

Vetted ==
  /\ at = "lookup" /\ site.https
  /\ \E a \in site.addresses : ~ isBlockedAddress(a) /\ vetted' = a
  /\ at' = "connecting"
  /\ SellerUnchanged /\ UNCHANGED <<probes, timerAt, reached, served, heard, verdict>>

\* Mutant of Pinned: fetch resolves the name once more.
Unpinned == site.addresses
\* pinnedLookup: the connection gets the address that was vetted.
Pinned == {vetted}

Connect ==
  /\ at = "connecting" /\ at' = "open"
  /\ probes' = probes + 1
  /\ timerAt' = clock + FETCH_TIMEOUT
  /\ \E a \in Pinned : reached' = reached \cup {a}
  /\ awake' = (awake \/ site.seller)
  /\ UNCHANGED <<vars, site, vetted, served, heard, verdict>>

-----------------------------------------------------------------------------
(* The answer.                                                              *)

\* Mutant of Judged: an answer is judged by its header, whatever its status.
JudgedAnyStatus(wire) ==
  IF wire.header # "challenge" \/ wire.payTos = {} THEN "unverifiable"
  ELSE IF site.claims \cap wire.payTos # {} THEN "match" ELSE "mismatch"

\* No challenge is no verdict: another status, a redirect's included, or a header
\* that is missing, over maxBytes, not to be decoded, or names no address.
Judged(wire) ==
  IF wire.status # 402 \/ wire.header # "challenge" \/ wire.payTos = {}
  THEN "unverifiable"
  ELSE IF site.claims \cap wire.payTos # {} THEN "match" ELSE "mismatch"

Hear(wire) == heard' = wire /\ Conclude(Judged(wire))

\* what handlePaidRoute's answers are on the wire
StatusOf(kind) ==
  CASE kind = "challenge" -> 402
    [] kind = "note" -> 200
    [] kind = "invalid_input" -> 400
    [] OTHER -> 500

SellerSends(kind) ==
  [status |-> StatusOf(kind),
   header |-> IF kind = "challenge" THEN "challenge" ELSE "missing",
   payTos |-> IF kind = "challenge" THEN {world.payTo} ELSE {}]

HostSends == [status |-> 502, header |-> "missing", payTos |-> {}]

OpenAtSeller == at = "open" /\ site.seller

\* the timer runs until the answer is judged
AbortDue == clock >= timerAt

\* the host hands the waiting connection to the seller once it listens, which
\* may be in the instant in which the timer is due
Deliver ==
  /\ OpenAtSeller
  /\ \E input \in Inputs :
       /\ input.valid = site.valid
       /\ Receive(Probe, [input |-> input, pay |-> None, probe |-> TRUE])
  /\ served' = IF AbortDue /\ served # "inTime" THEN "late" ELSE "inTime"
  /\ UNCHANGED <<site, awake, at, probes, timerAt, vetted, reached, heard, verdict>>

\* an unpaid request is answered from the route's own table, unless the
\* library fails on it
SellerProcess ==
  /\ Process(Probe)
  /\ site.sound => answer'[Probe].kind = "challenge"
  /\ UNCHANGED <<site, awake, verifierVars>>

SlotFreed ==
  /\ stage' = [stage EXCEPT ![Probe] = "idle"]
  /\ asked' = [asked EXCEPT ![Probe] = None]
  /\ answer' = [answer EXCEPT ![Probe] = None]

ReadSeller ==
  /\ OpenAtSeller /\ stage[Probe] = "answered"
  /\ Hear(SellerSends(answer[Probe].kind))
  /\ SlotFreed
  /\ UNCHANGED <<world, bootVars, chainVars, site, awake, probes, timerAt,
                 vetted, reached, served>>

\* a seller that has exited: its host answers 502, which is no challenge
ReadHost ==
  /\ OpenAtSeller /\ boot = "exited"
  /\ Hear(HostSends)
  /\ SellerUnchanged /\ UNCHANGED <<probes, timerAt, vetted, reached, served>>

\* somebody else's server: a redirect is not followed, whatever header it carries
ReadOther ==
  /\ at = "open" /\ ~ site.seller
  /\ \E wire \in Wire : wire.status \in {200, 302, 402} /\ Hear(wire)
  /\ SellerUnchanged /\ UNCHANGED <<probes, timerAt, vetted, reached, served>>

\* a connection that fails before the timer fires
Disconnected ==
  /\ at = "open" /\ ~ site.seller
  /\ Conclude("unverifiable")
  /\ SellerUnchanged /\ UNCHANGED <<probes, timerAt, vetted, reached, served, heard>>

-----------------------------------------------------------------------------
(* Timeouts and retries.                                                    *)

RetryDue == probes <= Len(COLD_START_RETRY_DELAYS)

RetryDelay == COLD_START_RETRY_DELAYS[IF probes > 2 THEN 2 ELSE probes]

\* the abort fires; a handler that is still running answers nobody
Abort ==
  /\ at = "open" /\ AbortDue
  /\ IF RetryDue
       THEN /\ at' = "backoff" /\ timerAt' = clock + RetryDelay
            /\ UNCHANGED verdict
       ELSE Conclude("timeout") /\ UNCHANGED timerAt
  /\ SlotFreed
  /\ UNCHANGED <<world, bootVars, chainVars, site, awake, probes, vetted,
                 reached, served, heard>>

RetryNow ==
  /\ at = "backoff" /\ clock >= timerAt
  /\ at' = "lookup"
  /\ SellerUnchanged
  /\ UNCHANGED <<probes, timerAt, vetted, reached, served, heard, verdict>>

SellerBoots ==
  /\ awake /\ BootStep
  /\ UNCHANGED <<site, awake, verifierVars>>

Timers ==
  (IF boot = "trying" THEN {wakeAt} ELSE {}) \cup
  (IF at \in {"open", "backoff"} THEN {timerAt} ELSE {})

\* a boot that is not waiting for its timer is at work, and so is a seller
\* that serves an open probe, if it is not slow
Busy ==
  \/ awake /\ boot \in {"config", "account", "trustline", "warming"}
  \/ at \notin {"open", "backoff", "done"}
  \/ OpenAtSeller /\ ~ site.slow /\ boot \in {"serving", "exited"}

PassTime ==
  /\ ~ Busy
  /\ Timers # {} /\ \A t \in Timers : t > clock
  /\ clock' = Min(Timers)
  /\ UNCHANGED <<world, boot, attempt, delay, wakeAt, routeVars, chainVars,
                 site, awake, verifierVars>>

Verifier ==
  \/ Begin \/ Refused \/ Vetted \/ Connect
  \/ ReadSeller \/ ReadHost \/ ReadOther \/ Disconnected
  \/ Abort \/ RetryNow

VerifierNext ==
  \/ Verifier \/ Deliver \/ SellerProcess \/ SellerBoots \/ PassTime

\* the resolver and the seller's process end what they are asked to do, and
\* timers fire; nothing makes somebody else's server answer
VerifierSpec ==
  /\ VerifierInit /\ [][VerifierNext]_allVars
  /\ WF_allVars(Begin \/ Refused \/ Vetted \/ Connect \/ RetryNow \/ Abort)
  /\ WF_allVars(ReadSeller \/ ReadHost \/ Deliver \/ SellerProcess)
  /\ WF_allVars(SellerBoots) /\ WF_allVars(PassTime)

-----------------------------------------------------------------------------

\* Every variable holds a value the code can give it; at most three probes.
VerifierTypeOK ==
  /\ TypeOK
  /\ site \in Sites /\ awake \in BOOLEAN /\ served \in Served
  /\ at \in {"idle", "lookup", "connecting", "open", "backoff", "done"}
  /\ probes \in 0 .. 3 /\ timerAt \in Nat
  /\ vetted \in {"public", "blocked", None}
  /\ reached \subseteq {"public", "blocked"}
  /\ verdict \in {"match", "mismatch", "unverifiable", "timeout", None}
  /\ heard \in Wire \cup {None}
  /\ verdict # None <=> at = "done"

\* The socket never lands on a blocked address, whatever the resolver answers
\* from one lookup to the next: the audit's D2, DNS rebinding.
NeverReachesBlocked == \A a \in reached : ~ isBlockedAddress(a)

\* A seller is never refuted for an address it charges to, nor for a claim of
\* nothing: "mismatch" is a verdict of its challenge against real claims.
HonestNeverRefuted ==
  verdict = "mismatch" /\ site.seller =>
    site.claims # {} /\ world.payTo \notin site.claims

\* "match" is never given for an address that the seller does not charge to, and
\* never without a probe that the seller was there to answer.
MatchIsRead ==
  verdict = "match" /\ site.seller =>
    world.payTo \in site.claims /\ served # "never" /\ boot = "serving"

\* "timeout" says that the resource was not there: three probes were sent, and
\* a seller that answers promptly was reached by none of them before it was due.
TimeoutMeansAbsent ==
  verdict = "timeout" =>
    probes = 3 /\ (site.seller /\ ~ site.slow => served # "inTime")

\* What was answered is a challenge that the code can read.
Challenged ==
  heard # None /\ heard.status = 402 /\ heard.header = "challenge" /\ heard.payTos # {}

\* Whoever answered, a match and a mismatch rest on a challenge that was read in
\* this verification, never on a redirect, another status or a header that is
\* missing, too large or garbled; and a challenge that was read is never ignored.
VerdictIsOfChallenge ==
  /\ verdict = "match" => Challenged /\ site.claims \cap heard.payTos # {}
  /\ verdict = "mismatch" =>
       Challenged /\ site.claims # {} /\ site.claims \cap heard.payTos = {}
  /\ verdict \in {"unverifiable", "timeout"} => ~ Challenged

\* Each verdict says what the probes heard, of any server, and is true of the
\* seller: "match" of the address it charges to, "mismatch" of others, "timeout"
\* of a process that was not there in time for three probes.
VerdictTruthful ==
  VerdictIsOfChallenge /\ HonestNeverRefuted /\ MatchIsRead /\ TimeoutMeansAbsent

\* The case the retries were sized for, across both programs: a well-configured
\* seller whose route may require parameters, asleep when it is paid, woken by
\* the first probe and delayed by its facilitator's cold start or rate limit,
\* ends up verified for the address it charges to.
SleepingSellerVerified ==
  /\ Healthy(world) /\ world.warmFor <= 60
  /\ site.seller /\ site.sound /\ ~ site.slow /\ site.https
  /\ site.addresses = {"public"} /\ world.payTo \in site.claims
  => <>(verdict = "match")
=============================================================================
