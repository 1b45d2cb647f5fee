----------------------------- MODULE PartyRelay -----------------------------
(***************************************************************************)
(* Three parties that talk through a relay (functionality/utils.rs).  The  *)
(* relay itself (sl_messages) is external: it keeps a message under its    *)
(* sender, receiver and tag until the receiver asks for it, in whatever    *)
(* order messages come.  A party is a task that runs from one await to the *)
(* next; an await asks for the messages of one round and ends when all of  *)
(* them are there.                                                         *)
(***************************************************************************)
EXTENDS Integers, FiniteSets, Sequences, TLC

CONSTANTS
    CounterMod,   \* tag_counter is a u32: 2^32 in the code
    MaxBuffered,  \* MAX_BUFFERED_MESSAGES: 10 in the code
    AskAbort      \* parties whose host called init_abort

Parties == 0..2
NextOf(i) == (i + 1) % 3

\* Faulty: the next one.
PrevOfNext(i) == (i + 1) % 3

PrevOf(i) == (i + 2) % 3

ASSUME RelayAssumption == CounterMod \in Nat \ {0} /\ AskAbort \subseteq Parties

VARIABLES
    mail,      \* messages in the relay: a function from <<sender, receiver, tag>>
    counter,   \* tag_counter when the running call began
    asked,     \* the messages the running round of a party asks for
    aborted    \* parties whose host has broadcast an ABORT_MESSAGE_TAG message

relayvars == <<mail, counter, asked, aborted>>

RelayInit ==
    /\ mail = <<>>
    /\ counter = [i \in Parties |-> 0]
    /\ asked = [i \in Parties |-> {}]
    /\ aborted = {}

-----------------------------------------------------------------------------

\* next_tag, called for the k-th time in a call: all calls take their tags
\* before they send or await anything.
Tag(i, k, name) == <<name, (counter[i] + k) % CounterMod>>

\* next_tag for a whole call of n tags.
TakeTags(i, n) == counter' = [counter EXCEPT ![i] = (@ + n) % CounterMod]

\* send_to_party.
Sent(i, j, tag, body) == [a \in {<<i, j, tag>>} |-> body]

\* The messages of two sends, one after the other.
Both(new, old) ==
    [a \in DOMAIN new \cup DOMAIN old |-> IF a \in DOMAIN new THEN new[a] ELSE old[a]]

\* receive_from_parties and receive_from_one_party: what is asked for, whether
\* the round is complete, and what came from party j.
Ask(i, from, tag) == {<<j, i, tag>> : j \in from}
Complete(i)       == asked[i] \subseteq DOMAIN mail
Got(i, j, tag)    == mail[<<j, i, tag>>]

\* Faulty: received messages stay where they are.
ExchangeKeeping(i, out) == mail' = Both(out, mail)

\* The step that ends a round takes its messages out, and sends others.
Exchange(i, out) ==
    mail' = Both(out, [a \in DOMAIN mail \ asked[i] |-> mail[a]])

AsksFor(i, wanted) == asked' = [asked EXCEPT ![i] = wanted]

\* Messages for party i that its running round does not ask for.
Early(i) == {a \in DOMAIN mail : a[2] = i} \ asked[i]

\* No party has more messages for later rounds than its buffer takes, should
\* the relay hand out messages before they are asked for.
BufferSuffices == \A i \in Parties : Cardinality(Early(i)) <= MaxBuffered

\* Faulty: only an ABORT message of the next party is seen.
SeesAbortNext(i) == asked[i] # {} /\ i \in AskAbort /\ NextOf(i) \in aborted

\* A round of a party whose relay asked for ABORT messages (init_abort) ends
\* with AbortProtocol when one of another party is there.
SeesAbort(i) == asked[i] # {} /\ i \in AskAbort /\ aborted \ {i} # {}

=============================================================================
