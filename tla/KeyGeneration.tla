--------------------------- MODULE KeyGeneration ---------------------------
(***************************************************************************)
(* The key generation sessions of crates/zcash/src/dkg.rs: three `Session` *)
(* values that run two broadcast rounds of a distributed key generation    *)
(* and then a derivation session, and the transport between their hosts.   *)
(*                                                                         *)
(* The key generation itself (KeygenParty of multi_party_schnorr) is a     *)
(* library: a round takes the messages of all three parties, each once, or *)
(* fails.  The derivation is what its host sees of it, a dataflow of       *)
(* messages (steps); what it makes of their order is the subject of        *)
(* DerivationSession.                                                      *)
(***************************************************************************)
EXTENDS Naturals, Sequences, SequencesExt

CONSTANT
    Settings   \* where sessions may run: a function from names to records of
               \*   steps       steps[p]: what p's derivation sends, and after what
               \*   order       what the transport keeps in order: "inbox", "pair", "any"
               \*   echo        it hands a broadcast to its sender as well
               \*   early       it delivers messages before the first one is created
               \*   duplicates  most messages of the rounds it delivers twice
               \*   fails       the derivation may return an error, and hosts send Abort then

ASSUME SettingsAssumption ==
    \A s \in DOMAIN Settings :
        /\ Settings[s].order \in {"inbox", "pair", "any"}
        /\ {Settings[s].echo, Settings[s].early, Settings[s].fails} \subseteq BOOLEAN
        /\ Settings[s].duplicates \in Nat

PARTICIPANTS == 3
Party == 0..(PARTICIPANTS - 1)
Everyone == PARTICIPANTS

VARIABLES
    setting,     \* where the sessions run
    phase,       \* phase[p]: Session.phase
    pending,     \* pending[p]: Session.pending
    drv,         \* drv[p]: the messages the derivation has, and steps it made
    inbox,       \* inbox[p]: messages in transit to p, in the order of sending
    duplicates,  \* messages delivered twice so far
    refused,     \* history: what a session that failed was processing
    told         \* told[p]: p's host has sent Abort

vars == <<setting, phase, pending, drv, inbox, duplicates, refused, told>>

The == Settings[setting]

Message(p, to, body) == [from |-> p, to |-> to, body |-> body]

Rounds == {"Msg1", "Msg2"}

\* A derivation sends messages of its own to one party each.
DerivationMessages(p) == [from : {p}, to : Party \ {p}, body : STRING \ (Rounds \cup {"Abort"})]

ASSUME StepsAssumption ==
    \A s \in DOMAIN Settings, p \in Party :
        Settings[s].steps[p] \in Seq([needs : SUBSET (Party \X STRING), sends : Seq(DerivationMessages(p))])

\* What a derivation sends in its first n steps.
MessagesOf(steps, n) == UNION {ToSet(steps[k].sends) : k \in 1..n}

\* How far the derivations may be: each has made some of its steps.
Positions(steps) ==
    {at \in [Party -> UNION {0..Len(steps[p]) : p \in Party}] : \A p \in Party : at[p] <= Len(steps[p])}

\* One that is not at its end has what its next step needs, once everything
\* sent has arrived.
GoesOn(steps, at) ==
    \E p \in Party :
        /\ at[p] < Len(steps[p])
        /\ \A need \in steps[p][at[p] + 1].needs :
             \E q \in Party : \E m \in MessagesOf(steps[q], at[q]) : m.to = p /\ need = <<m.from, m.body>>

\* Every derivation waits for something, and they never wait for each other in
\* a circle.
ASSUME FlowAssumption ==
    \A s \in DOMAIN Settings :
        /\ \A p \in Party : \E k \in DOMAIN Settings[s].steps[p] : Settings[s].steps[p][k].needs # {}
        /\ \A at \in Positions(Settings[s].steps) :
             (\A p \in Party : at[p] = Len(Settings[s].steps[p])) \/ GoesOn(Settings[s].steps, at)

Unstarted == [have |-> {}, made |-> 0]

is_finished(p) == phase[p] \in {"share", "failed"}
is_derivation(p) == phase[p] = "derivation"

-----------------------------------------------------------------------------
(* The transport.                                                          *)

Reaches(m, p) == m.to = p \/ (m.to = Everyone /\ (The.echo \/ m.from # p))

\* The messages of s at these places, in order.
Picked(s, places) ==
    LET kept[i \in 0..Len(s)] ==
          IF i = 0 THEN <<>> ELSE IF i \in places THEN Append(kept[i - 1], s[i]) ELSE kept[i - 1]
    IN  kept[Len(s)]

\* A host sends the messages of s, in this order.
SentTo(s, boxes) == [p \in Party |-> boxes[p] \o Picked(s, {i \in DOMAIN s : Reaches(s[i], p)})]

\* The places of p's inbox that may be delivered next.
Deliverable(p) ==
    {i \in DOMAIN inbox[p] :
        CASE The.order = "inbox" -> i = 1
          [] The.order = "pair"  -> \A j \in 1..(i - 1) : inbox[p][j].from # inbox[p][i].from
          [] OTHER           -> TRUE}

-----------------------------------------------------------------------------
(* One call of handle_messages: the phase, the derivation and the outgoing *)
(* messages after it.                                                      *)

Outcome(ph, d, out) == [phase |-> ph, drv |-> d, out |-> out]
Failed == Outcome("failed", Unstarted, <<>>)

\* decode_vec and KeygenParty::process take the messages of a round.
Accepts(round, msgs) ==
    /\ \A n \in DOMAIN msgs : msgs[n].body = round
    /\ Len(msgs) = PARTICIPANTS
    /\ {msgs[n].from : n \in DOMAIN msgs} = Party

\* The derivation of p after it has the messages `have`: every step whose
\* messages are there is made, and sends.
Derived(p, have, made) ==
    LET able == {n \in 0..Len(The.steps[p]) : \A k \in 1..n : The.steps[p][k].needs \subseteq have}
        n == CHOOSE n \in able : \A k \in able : k <= n
    IN  [state |-> [have |-> have, made |-> n],
         out   |-> FlattenSeq([k \in 1..(n - made) |-> The.steps[p][made + k].sends])]

AfterRound1(p, msgs) ==
    IF Accepts("Msg1", msgs)
    THEN Outcome("wait2", Unstarted, <<Message(p, Everyone, "Msg2")>>)
    ELSE Failed

AfterRound2(p, msgs) ==
    IF Accepts("Msg2", msgs)
    THEN LET d == Derived(p, {}, 0) IN Outcome("derivation", d.state, d.out)
    ELSE Failed

\* Faulty: an Abort of a peer is passed over.
AfterDerivationWaiting(p, msgs) ==
    LET have == drv[p].have \cup {<<msgs[n].from, msgs[n].body>> : n \in DOMAIN msgs}
        d == Derived(p, have, drv[p].made)
    IN  IF \E n \in DOMAIN msgs : msgs[n].body \in Rounds THEN Failed
        ELSE Outcome(IF d.state.made = Len(The.steps[p]) THEN "share" ELSE "derivation", d.state, d.out)

AfterDerivation(p, msgs) ==
    LET have == drv[p].have \cup {<<msgs[n].from, msgs[n].body>> : n \in DOMAIN msgs}
        d == Derived(p, have, drv[p].made)
    IN  IF \E n \in DOMAIN msgs : msgs[n].body \in Rounds \cup {"Abort"} THEN Failed
        ELSE Outcome(IF d.state.made = Len(The.steps[p]) THEN "share" ELSE "derivation", d.state, d.out)

\* The outcomes of handle_messages.  A session that has not sent its first
\* message returns an error and keeps its phase, but `pending` is gone.
handle_messages(p, msgs) ==
    CASE phase[p] = "init"  -> {Outcome("init", Unstarted, <<>>)}
      [] phase[p] = "wait1" -> {AfterRound1(p, msgs)}
      [] phase[p] = "wait2" -> {AfterRound2(p, msgs)}
      [] OTHER -> {AfterDerivation(p, msgs)} \cup (IF The.fails THEN {Failed} ELSE {})

\* Broadcasts of the session itself are kept for the next round.
retain_self_broadcasts(out) == Picked(out, {i \in DOMAIN out : out[i].to = Everyone})

-----------------------------------------------------------------------------
(* The calls.                                                              *)

create_first_message(p) ==
    LET m == Message(p, Everyone, "Msg1") IN
    /\ phase[p] = "init"
    /\ phase' = [phase EXCEPT ![p] = "wait1"]
    /\ pending' = [pending EXCEPT ![p] = Append(@, m)]
    /\ inbox' = SentTo(<<m>>, inbox)
    /\ UNCHANGED <<setting, drv, duplicates, refused, told>>

\* The transport takes a message out of p's inbox, or leaves it to be
\* delivered once more.
Taken(p, i, boxes) ==
    \/ /\ boxes = [inbox EXCEPT ![p] = RemoveAt(@, i)]
       /\ UNCHANGED duplicates
    \/ /\ duplicates < The.duplicates /\ inbox[p][i].body \in Rounds
       /\ duplicates' = duplicates + 1
       /\ boxes = inbox

\* Faulty: its own messages are taken, or those after its end.
IgnoredAtEnd(p, m) == is_finished(p)
IgnoredOwn(p, m) == m.from = p

\* Messages for a session that ended, and its own, change nothing.
Ignored(p, m) == is_finished(p) \/ m.from = p

\* Faulty: one message too many, or too few.
CompleteMore(p, msgs) == is_derivation(p) \/ Len(msgs) = PARTICIPANTS + 1
CompleteLess(p, msgs) == is_derivation(p) \/ Len(msgs) = PARTICIPANTS - 1

\* pending waits for as many messages as there are parties, except in the
\* derivation, which takes every message at once.
Complete(p, msgs) == is_derivation(p) \/ Len(msgs) = PARTICIPANTS

Ignore(p, i) ==
    /\ Ignored(p, inbox[p][i])
    /\ \E boxes \in {[inbox EXCEPT ![p] = RemoveAt(@, i)], inbox} :
         Taken(p, i, boxes) /\ inbox' = boxes
    /\ UNCHANGED <<setting, phase, pending, drv, refused, told>>

Collect(p, i) ==
    LET msgs == Append(pending[p], inbox[p][i]) IN
    /\ ~ Ignored(p, inbox[p][i]) /\ ~ Complete(p, msgs)
    /\ pending' = [pending EXCEPT ![p] = msgs]
    /\ \E boxes \in {[inbox EXCEPT ![p] = RemoveAt(@, i)], inbox} :
         Taken(p, i, boxes) /\ inbox' = boxes
    /\ UNCHANGED <<setting, phase, drv, refused, told>>

Process(p, i) ==
    LET msgs == Append(pending[p], inbox[p][i]) IN
    /\ ~ Ignored(p, inbox[p][i]) /\ Complete(p, msgs)
    /\ \E o \in handle_messages(p, msgs) :
         /\ phase' = [phase EXCEPT ![p] = o.phase]
         /\ drv' = [drv EXCEPT ![p] = o.drv]
         /\ pending' = [pending EXCEPT ![p] = retain_self_broadcasts(o.out)]
         /\ refused' = [refused EXCEPT ![p] = IF o.phase = "failed" THEN msgs ELSE <<>>]
         /\ \E boxes \in {[inbox EXCEPT ![p] = RemoveAt(@, i)], inbox} :
              Taken(p, i, boxes) /\ inbox' = SentTo(o.out, boxes)
    /\ UNCHANGED <<setting, told>>

recv_message(p) ==
    /\ The.early \/ \A q \in Party : phase[q] # "init"
    /\ \E i \in Deliverable(p) : Ignore(p, i) \/ Collect(p, i) \/ Process(p, i)

\* The host of a session that failed tells the others, whose derivations
\* know the message.
Abort(p) ==
    /\ The.fails /\ phase[p] = "failed" /\ ~ told[p]
    /\ told' = [told EXCEPT ![p] = TRUE]
    /\ inbox' = [q \in Party |-> IF q = p THEN inbox[q] ELSE Append(inbox[q], Message(p, Everyone, "Abort"))]
    /\ UNCHANGED <<setting, phase, pending, drv, duplicates, refused>>

-----------------------------------------------------------------------------

Init ==
    /\ setting \in DOMAIN Settings
    /\ phase = [p \in Party |-> "init"]
    /\ pending = [p \in Party |-> <<>>]
    /\ drv = [p \in Party |-> Unstarted]
    /\ inbox = [p \in Party |-> <<>>]
    /\ duplicates = 0
    /\ refused = [p \in Party |-> <<>>]
    /\ told = [p \in Party |-> FALSE]

Next == \E p \in Party : create_first_message(p) \/ recv_message(p) \/ Abort(p)

Spec == Init /\ [][Next]_vars

\* Hosts start, the transport delivers, and hosts tell of failures.
FairSpec ==
    /\ Spec
    /\ \A p \in Party : /\ WF_vars(create_first_message(p))
                        /\ WF_vars(recv_message(p))
                        /\ WF_vars(Abort(p))

-----------------------------------------------------------------------------
(* Properties.                                                             *)

\* Phases are the ones of the code, a session never keeps as many messages as
\* complete a round, and only derivations have a state.
TypeOK ==
    /\ phase \in [Party -> {"init", "wait1", "wait2", "derivation", "share", "failed"}]
    /\ \A p \in Party :
         /\ phase[p] \notin {"init", "failed"} => Len(pending[p]) < PARTICIPANTS \/ The.early
         /\ drv[p] # Unstarted => phase[p] \in {"derivation", "share"}
    /\ duplicates \in 0..The.duplicates

\* A session fails only of what its host or the transport did: a message of a
\* later round came before the last one of this round, one came twice, a peer
\* aborted, or the derivation itself failed.
FailsOnlyOfRaces ==
    \A p \in Party : phase[p] = "failed" =>
        LET msgs == refused[p] IN
        \/ \E m, n \in DOMAIN msgs : msgs[m].body # msgs[n].body
        \/ /\ duplicates > 0
           /\ \/ \E m, n \in DOMAIN msgs : m # n /\ msgs[m] = msgs[n]
              \/ Len(msgs) = 1 /\ msgs[1].body \in Rounds
        \/ \E n \in DOMAIN msgs : The.fails /\ msgs[n].body \notin Rounds

\* A session that ended stays as it is: what arrives later is ignored.
EndIsFinal ==
    [][\A p \in Party : is_finished(p) => phase'[p] = phase[p] /\ pending'[p] = pending[p]]_vars

\* A transport that keeps the order of all messages to a host, and derivations
\* that return no error, make every session end with its share and its keys.
Orderly == The.order = "inbox" /\ ~ The.early /\ The.duplicates = 0 /\ ~ The.fails

AllShare == Orderly ~> \A p \in Party : phase[p] = "share"

\* Every session ends, with its share or failed, if hosts tell each other of
\* failures and take no message before they created their first.
Settles == ~ The.early /\ (The.fails \/ Orderly) ~> \A p \in Party : is_finished(p)

\* When nothing is in transit any more, a session that has not ended waits for
\* one that failed, or for one that took the messages of both its peers before
\* it created its own: that one keeps more than a round and never processes it.
StrandedOnlyEarly ==
    (\A p \in Party : inbox[p] = <<>> /\ phase[p] # "init") =>
        \/ \A p \in Party : is_finished(p)
        \/ \E p \in Party : phase[p] = "failed"
        \/ The.early /\ \E p \in Party : phase[p] = "wait1" /\ Len(pending[p]) >= PARTICIPANTS

\* A transport that delivers every message once, whatever the order, makes no
\* session fail (the assumption recv_message states of the transport).
OnceIsEnough == duplicates = 0 => \A p \in Party : phase[p] # "failed"

=============================================================================
