------------------------ MODULE KeyGenerationProofs ------------------------
(***************************************************************************)
(* What KeyGeneration guarantees whatever derivations its sessions run and *)
(* whatever the transport delivers: the phases and the kept messages stay  *)
(* well formed, a session that ended stays as it is, one fails only of     *)
(* what its host or the transport did, and when nothing is in transit any  *)
(* more, a session that goes on waits for one that failed or that took too *)
(* much before it was created.                                             *)
(***************************************************************************)
EXTENDS KeyGeneration, NumberLemmas, SequenceTheorems, TLAPS

(***************************************************************************)
(* The inductive invariant, part by part.                                  *)
(***************************************************************************)

Phases == {"init", "wait1", "wait2", "derivation", "share", "failed"}

\* What a message may say.
Body == STRING \cup Rounds \cup {"Abort"}

\* What the transport and the sessions carry: only rounds are broadcast by
\* the sessions, and only hosts of derivations that may fail say Abort.
Sane(fails) ==
    {m \in [from : Party, to : Party \cup {Everyone}, body : Body] :
        /\ m.body \in Rounds => m.to = Everyone
        /\ m.body = "Abort" => fails}

Types ==
    /\ setting \in DOMAIN Settings
    /\ phase \in [Party -> Phases]
    /\ pending \in [Party -> Seq(Sane(The.fails))]
    /\ drv \in [Party -> [have : SUBSET (Party \X Body), made : Nat]]
    /\ inbox \in [Party -> Seq(Sane(The.fails))]
    /\ duplicates \in 0..The.duplicates
    /\ refused \in [Party -> Seq(Sane(The.fails))]

First(q) == Message(q, Everyone, "Msg1")
Second(q) == Message(q, Everyone, "Msg2")

\* A session that waits for a round keeps one message of its own, the one it
\* sent for that round.
OneOwn(p, own) ==
    \E k \in DOMAIN pending[p] :
        /\ pending[p][k] = own
        /\ \A j \in DOMAIN pending[p] : j # k => pending[p][j].from # p

Kept(p) ==
    /\ phase[p] = "init" => \A j \in DOMAIN pending[p] : pending[p][j].from # p
    /\ phase[p] = "init" /\ ~ The.early => pending[p] = <<>>
    /\ phase[p] = "wait1" => OneOwn(p, First(p))
    /\ phase[p] = "wait2" => OneOwn(p, Second(p))
    /\ (phase[p] = "wait1" /\ ~ The.early) \/ phase[p] = "wait2" => Len(pending[p]) < PARTICIPANTS
    /\ phase[p] \in {"derivation", "share", "failed"} => pending[p] = <<>>
    /\ drv[p] # Unstarted => phase[p] \in {"derivation", "share"}

\* A message of a round is there only after its sender sent it, and a session
\* passes a round only after every session sent its message.
Known ==
    \A p, q \in Party :
        /\ First(q) \in ToSet(inbox[p]) \cup ToSet(pending[p]) => phase[q] # "init"
        /\ Second(q) \in ToSet(inbox[p]) \cup ToSet(pending[p]) => phase[q] \notin {"init", "wait1"}

Passed ==
    \A p, q \in Party :
        /\ phase[p] \in {"wait2", "derivation"} => phase[q] # "init"
        /\ phase[p] = "derivation" => phase[q] # "wait1"

\* The messages of a round in s are all different.
Alone(s) == \A i, j \in DOMAIN s : s[i].body \in Rounds /\ s[i] = s[j] => i = j

\* As long as the transport delivered nothing twice, a session has or will
\* get every message of a round once, and none of a round it has passed.
OnceOnly(p) ==
    /\ Alone(inbox[p]) /\ Alone(pending[p])
    /\ \A m \in ToSet(inbox[p]) \cap ToSet(pending[p]) : m.body \in Rounds => m.from = p
    /\ phase[p] \in {"wait2", "derivation"} =>
         \A q \in Party \ {p} : First(q) \notin ToSet(inbox[p]) \cup ToSet(pending[p])
    /\ phase[p] = "derivation" => \A q \in Party \ {p} : Second(q) \notin ToSet(inbox[p])

IInv ==
    /\ Types
    /\ \A p \in Party : Kept(p)
    /\ Known /\ Passed
    /\ duplicates = 0 => \A p \in Party : OnceOnly(p)
    /\ FailsOnlyOfRaces

-----------------------------------------------------------------------------
(***************************************************************************)
(* Sequences: the greatest of some numbers, what is left after a removal,  *)
(* what a selection and a flattening hold.                                 *)
(***************************************************************************)

LEMMA Greatest ==
    ASSUME NEW N \in Nat, NEW S \in SUBSET (0..N), NEW s \in S
    PROVE  \E n \in S : \A k \in S : k <= n
<1>1. SUFFICES ASSUME \A n \in S : \E k \in S : k > n PROVE FALSE
  OBVIOUS
<1> DEFINE T == {j \in Nat : \E n \in S : n >= j}
<1>2. 0 \in T
  OBVIOUS
<1>3. ASSUME NEW j \in Nat, j \in T PROVE j + 1 \in T
  BY <1>1, <1>3
<1>4. N + 1 \in T
  <2> HIDE DEF T
  <2> QED BY <1>2, <1>3, NatSet
<1> QED BY <1>4

\* The elements of a sequence, and that it has a length.
LEMMA Elements ==
    ASSUME NEW S, NEW s \in Seq(S)
    PROVE  /\ Len(s) \in Nat /\ DOMAIN s = 1..Len(s)
           /\ \A i \in DOMAIN s : s[i] \in S /\ s[i] \in ToSet(s)
           /\ ToSet(s) \subseteq S
  BY LenProperties, ElementOfSeq DEF ToSet

LEMMA Appended ==
    ASSUME NEW S, NEW s \in Seq(S), NEW m \in S
    PROVE  /\ Append(s, m) \in Seq(S) /\ Len(Append(s, m)) = Len(s) + 1
           /\ \A i \in DOMAIN s : Append(s, m)[i] = s[i]
           /\ Append(s, m)[Len(s) + 1] = m
           /\ ToSet(Append(s, m)) = ToSet(s) \cup {m}
<1>1. /\ Append(s, m) \in Seq(S) /\ Len(Append(s, m)) = Len(s) + 1
      /\ \A i \in 1..Len(s) : Append(s, m)[i] = s[i]
      /\ Append(s, m)[Len(s) + 1] = m
  BY LenProperties
<1>2. Len(s) \in Nat /\ DOMAIN s = 1..Len(s) /\ DOMAIN Append(s, m) = 1..(Len(s) + 1)
  BY <1>1, LenProperties
<1> QED BY <1>1, <1>2 DEF ToSet

LEMMA Joined ==
    ASSUME NEW S, NEW s \in Seq(S), NEW t \in Seq(S)
    PROVE  s \o t \in Seq(S) /\ ToSet(s \o t) = ToSet(s) \cup ToSet(t)
<1>1. PICK u : u = s \o t
  OBVIOUS
<1>2. /\ u \in Seq(S) /\ Len(u) = Len(s) + Len(t)
      /\ \A i \in 1..(Len(s) + Len(t)) : u[i] = IF i <= Len(s) THEN s[i] ELSE t[i - Len(s)]
  BY <1>1, ConcatProperties
<1>3. Len(s) \in Nat /\ DOMAIN s = 1..Len(s) /\ Len(t) \in Nat /\ DOMAIN t = 1..Len(t)
      /\ DOMAIN u = 1..(Len(s) + Len(t))
  BY <1>2, LenProperties
<1>4. ASSUME NEW x \in ToSet(u) PROVE x \in ToSet(s) \cup ToSet(t)
  <2>1. PICK i \in 1..(Len(s) + Len(t)) : x = u[i]
    BY <1>3, <1>4 DEF ToSet
  <2>2. CASE i <= Len(s)
    <3>1. i \in DOMAIN s /\ x = s[i]
      BY <1>2, <1>3, <2>1, <2>2
    <3> QED BY <3>1 DEF ToSet
  <2>3. CASE ~ (i <= Len(s))
    <3>1. i - Len(s) \in DOMAIN t /\ x = t[i - Len(s)]
      BY <1>2, <1>3, <2>1, <2>3
    <3> QED BY <3>1 DEF ToSet
  <2> QED BY <2>2, <2>3
<1>5. ToSet(s) \subseteq ToSet(u)
  <2>1. ASSUME NEW i \in DOMAIN s PROVE i \in DOMAIN u /\ u[i] = s[i]
    BY <1>2, <1>3
  <2> QED BY <2>1 DEF ToSet
<1>6. ToSet(t) \subseteq ToSet(u)
  <2>1. ASSUME NEW i \in DOMAIN t PROVE i + Len(s) \in DOMAIN u /\ u[i + Len(s)] = t[i]
    BY <1>2, <1>3
  <2> QED BY <2>1 DEF ToSet
<1> QED BY <1>1, <1>2, <1>4, <1>5, <1>6

\* Vec::remove leaves the other elements, each once.
LEMMA Removed ==
    ASSUME NEW S, NEW s \in Seq(S), NEW i \in DOMAIN s
    PROVE  /\ RemoveAt(s, i) \in Seq(S)
           /\ \A k \in DOMAIN RemoveAt(s, i) :
                LET o == IF k < i THEN k ELSE k + 1 IN o \in DOMAIN s /\ RemoveAt(s, i)[k] = s[o]
<1>1. Len(s) \in Nat /\ DOMAIN s = 1..Len(s) /\ i \in 1..Len(s) /\ \A k \in 1..Len(s) : s[k] \in S
  BY LenProperties, ElementOfSeq
<1>2. PICK a : a = SubSeq(s, 1, i - 1)
  OBVIOUS
<1>3. PICK b : b = SubSeq(s, i + 1, Len(s))
  OBVIOUS
<1>4. a \in Seq(S) /\ Len(a) = i - 1 /\ \A k \in 1..(i - 1) : a[k] = s[k]
  <2>1. \A k \in 1..(i - 1) : s[k] \in S
    BY <1>1
  <2>2. 1 \in Int /\ i - 1 \in Int
    BY <1>1
  <2>3. /\ a \in Seq(S) /\ Len(a) = IF 1 <= i - 1 THEN (i - 1) - 1 + 1 ELSE 0
        /\ \A k \in 1..((i - 1) - 1 + 1) : a[k] = s[1 + k - 1]
    BY <1>2, <2>1, <2>2, SubSeqProperties
  <2> QED BY <1>1, <2>3
<1>5. b \in Seq(S) /\ Len(b) = Len(s) - i /\ \A k \in 1..(Len(s) - i) : b[k] = s[i + k]
  <2>1. \A k \in (i + 1)..Len(s) : s[k] \in S
    BY <1>1
  <2>2. i + 1 \in Int /\ Len(s) \in Int
    BY <1>1
  <2>3. /\ b \in Seq(S) /\ Len(b) = IF i + 1 <= Len(s) THEN Len(s) - (i + 1) + 1 ELSE 0
        /\ \A k \in 1..(Len(s) - (i + 1) + 1) : b[k] = s[(i + 1) + k - 1]
    BY <1>3, <2>1, <2>2, SubSeqProperties
  <2>4. Len(b) = Len(s) - i
    BY <1>1, <2>3
  <2>5. ASSUME NEW k \in 1..(Len(s) - i) PROVE b[k] = s[i + k]
    <3>1. k \in 1..(Len(s) - (i + 1) + 1) /\ (i + 1) + k - 1 = i + k
      BY <1>1
    <3> QED BY <2>3, <3>1
  <2> QED BY <2>3, <2>4, <2>5
<1>6. PICK r : r = RemoveAt(s, i)
  OBVIOUS
<1>7. /\ r \in Seq(S) /\ Len(r) = Len(a) + Len(b)
      /\ \A k \in 1..(Len(a) + Len(b)) : r[k] = IF k <= Len(a) THEN a[k] ELSE b[k - Len(a)]
  <2>1. r = a \o b
    BY <1>2, <1>3, <1>6, Zenon DEF RemoveAt
  <2> QED BY <1>4, <1>5, <2>1, ConcatProperties
<1>8. DOMAIN r = 1..(Len(s) - 1)
  BY <1>1, <1>4, <1>5, <1>7, LenProperties
<1>9. ASSUME NEW k \in DOMAIN r
      PROVE  LET o == IF k < i THEN k ELSE k + 1 IN o \in DOMAIN s /\ r[k] = s[o]
  <2>1. CASE k < i
    BY <1>1, <1>4, <1>5, <1>7, <1>8, <2>1
  <2>2. CASE ~ (k < i)
    <3>1. k - (i - 1) \in 1..(Len(s) - i) /\ i + (k - (i - 1)) = k + 1 /\ k + 1 \in DOMAIN s
      BY <1>1, <1>8, <2>2
    <3>2. k \in 1..(Len(a) + Len(b)) /\ ~ (k <= Len(a)) /\ Len(a) = i - 1
      BY <1>1, <1>4, <1>5, <1>8, <2>2
    <3>3. r[k] = b[k - (i - 1)]
      BY <1>7, <3>2
    <3> QED BY <1>5, <2>2, <3>1, <3>3
  <2> QED BY <2>1, <2>2
<1> QED BY <1>6, <1>7, <1>9

\* The recursive function behind a selection.
IsKept(f, s, places, n) ==
    f = [i \in 0..n |-> IF i = 0 THEN <<>> ELSE IF i \in places THEN Append(f[i - 1], s[i]) ELSE f[i - 1]]

LEMMA KeptExists ==
    ASSUME NEW s, NEW places, NEW n \in Nat
    PROVE  \E f : IsKept(f, s, places, n)
<1> USE DEF IsKept
<1> DEFINE T == {k \in Nat : \E f : IsKept(f, s, places, k)}
           Step(x, i) == IF i \in places THEN Append(x, s[i]) ELSE x
<1>1. 0 \in T
  <2>1. PICK f : f = [i \in 0..0 |-> <<>>]
    OBVIOUS
  <2>2. \A i \in 0..0 : i = 0
    OBVIOUS
  <2>3. IsKept(f, s, places, 0)
    BY <2>1, <2>2
  <2> QED BY <2>3
<1>2. ASSUME NEW k \in Nat, k \in T PROVE k + 1 \in T
  <2>1. PICK f : IsKept(f, s, places, k)
    BY <1>2
  <2>2. PICK x : x = Step(f[k], k + 1)
    OBVIOUS
  <2>3. PICK g : g = [i \in 0..(k + 1) |-> IF i <= k THEN f[i] ELSE x]
    OBVIOUS
  <2>4. ASSUME NEW i \in 0..(k + 1)
        PROVE  g[i] = IF i = 0 THEN <<>> ELSE Step(g[i - 1], i)
    <3>1. CASE i = 0
      <4>1. 0 \in 0..k /\ 0 <= k
        OBVIOUS
      <4> QED BY <2>1, <2>3, <3>1, <4>1
    <3>2. CASE i \in 1..k
      <4>1. i \in 0..k /\ i # 0 /\ i - 1 \in 0..(k + 1) /\ i - 1 <= k /\ i <= k
        BY <3>2
      <4>2. g[i] = f[i] /\ g[i - 1] = f[i - 1]
        BY <2>3, <4>1
      <4>3. f[i] = Step(f[i - 1], i)
        BY <2>1, <4>1
      <4> QED BY <4>1, <4>2, <4>3
    <3>3. CASE i = k + 1
      <4>1. i # 0 /\ i - 1 = k /\ k \in 0..(k + 1) /\ k <= k /\ ~ (i <= k)
        BY <3>3
      <4>2. g[i] = x /\ g[k] = f[k]
        BY <2>3, <4>1
      <4> HIDE DEF Step
      <4> QED BY <2>2, <3>3, <4>1, <4>2
    <3> QED BY <3>1, <3>2, <3>3
  <2>5. g = [i \in 0..(k + 1) |-> g[i]]
    BY <2>3
  <2>6. IsKept(g, s, places, k + 1)
    BY <2>4, <2>5
  <2>7. k + 1 \in Nat
    OBVIOUS
  <2> HIDE DEF IsKept
  <2> QED BY <2>6, <2>7
<1>3. n \in T
  <2> HIDE DEF T
  <2> QED BY <1>1, <1>2, NatSet
<1> QED BY <1>3

LEMMA PickedIsKept ==
    ASSUME NEW s, NEW places, Len(s) \in Nat
    PROVE  \E f : IsKept(f, s, places, Len(s)) /\ Picked(s, places) = f[Len(s)]
<1>1. \E f : f = [i \in 0..Len(s) |-> IF i = 0 THEN <<>> ELSE IF i \in places THEN Append(f[i - 1], s[i]) ELSE f[i - 1]]
  <2>1. \E f : IsKept(f, s, places, Len(s))
    BY KeptExists
  <2> QED BY <2>1 DEF IsKept
<1> DEFINE kept == CHOOSE f : f = [i \in 0..Len(s) |-> IF i = 0 THEN <<>> ELSE IF i \in places THEN Append(f[i - 1], s[i]) ELSE f[i - 1]]
<1>2. IsKept(kept, s, places, Len(s))
  BY <1>1, Zenon DEF IsKept
<1>3. Picked(s, places) = kept[Len(s)]
  BY DEF Picked
<1> QED BY <1>2, <1>3

\* A selection holds what is at its places.
LEMMA PickedIn ==
    ASSUME NEW S, NEW s \in Seq(S), NEW places
    PROVE  Picked(s, places) \in Seq({s[i] : i \in places \cap DOMAIN s})
<1> DEFINE W == {s[i] : i \in places \cap DOMAIN s}
<1>1. Len(s) \in Nat /\ DOMAIN s = 1..Len(s)
  BY LenProperties
<1>2. PICK f : IsKept(f, s, places, Len(s)) /\ Picked(s, places) = f[Len(s)]
  BY <1>1, PickedIsKept
<1> DEFINE T == {k \in Nat : k <= Len(s) => f[k] \in Seq(W)}
<1>3. 0 \in T
  <2>1. 0 \in 0..Len(s)
    BY <1>1
  <2>2. f[0] = <<>>
    BY <1>2, <2>1 DEF IsKept
  <2> QED BY <2>2, EmptySeq
<1>4. ASSUME NEW k \in Nat, k \in T PROVE k + 1 \in T
  <2>1. SUFFICES ASSUME k + 1 <= Len(s) PROVE f[k + 1] \in Seq(W)
    OBVIOUS
  <2>2. k + 1 \in 0..Len(s) /\ k + 1 # 0 /\ (k + 1) - 1 = k /\ k + 1 \in DOMAIN s /\ f[k] \in Seq(W)
    BY <1>1, <1>4, <2>1
  <2>3. f[k + 1] = IF k + 1 \in places THEN Append(f[k], s[k + 1]) ELSE f[k]
    BY <1>2, <2>2 DEF IsKept
  <2>4. k + 1 \in places => s[k + 1] \in W
    BY <2>2
  <2> HIDE DEF W
  <2> QED BY <2>2, <2>3, <2>4, Appended
<1>5. Len(s) \in T
  <2> HIDE DEF T
  <2> QED BY <1>1, <1>3, <1>4, NatSet
<1> QED BY <1>1, <1>2, <1>5

\* Of one message it is that message or nothing.
LEMMA PickedOne ==
    ASSUME NEW m, NEW places
    PROVE  Picked(<<m>>, places) = IF 1 \in places THEN <<m>> ELSE <<>>
<1>1. Len(<<m>>) = 1 /\ <<m>>[1] = m
  OBVIOUS
<1>2. PICK f : IsKept(f, <<m>>, places, 1) /\ Picked(<<m>>, places) = f[1]
  BY <1>1, PickedIsKept
<1>3. 0 \in 0..1 /\ 1 \in 0..1 /\ 1 # 0 /\ 1 - 1 = 0
  OBVIOUS
<1>4. f[0] = <<>> /\ f[1] = IF 1 \in places THEN Append(f[0], m) ELSE f[0]
  BY <1>1, <1>2, <1>3 DEF IsKept
<1>5. Append(<<>>, m) = <<m>>
  OBVIOUS
<1> QED BY <1>2, <1>4, <1>5

\* The recursive function behind FlattenSeq.
IsFlat(f, s, n) == f = [i \in 1..n |-> IF i = 1 THEN s[i] ELSE f[i - 1] \o s[i]]

LEMMA FlatExists ==
    ASSUME NEW s, NEW n \in Nat
    PROVE  \E f : IsFlat(f, s, n)
<1> DEFINE T == {k \in Nat : \E f : IsFlat(f, s, k)}
           Joint(x, i) == x \o s[i]
<1>1. 0 \in T
  <2>1. PICK f : f = [i \in 1..0 |-> s[1]]
    OBVIOUS
  <2>2. \A i \in 1..0 : FALSE
    OBVIOUS
  <2>3. IsFlat(f, s, 0)
    BY <2>1, <2>2 DEF IsFlat
  <2> QED BY <2>3
<1>2. ASSUME NEW k \in Nat, k \in T PROVE k + 1 \in T
  <2>1. PICK f : IsFlat(f, s, k)
    BY <1>2
  <2>2. PICK x : x = IF k = 0 THEN s[1] ELSE Joint(f[k], k + 1)
    OBVIOUS
  <2>3. PICK g : g = [i \in 1..(k + 1) |-> IF i <= k THEN f[i] ELSE x]
    OBVIOUS
  <2>4. \A i \in 1..k : f[i] = IF i = 1 THEN s[i] ELSE Joint(f[i - 1], i)
    BY <2>1 DEF IsFlat
  <2>5. ASSUME NEW i \in 1..(k + 1)
        PROVE  g[i] = IF i = 1 THEN s[i] ELSE Joint(g[i - 1], i)
    <3> HIDE DEF Joint
    <3>1. CASE i = 1 /\ k = 0
      BY <2>2, <2>3, <3>1
    <3>2. CASE i = 1 /\ k # 0
      BY <2>3, <2>4, <3>2
    <3>3. CASE i # 1 /\ i <= k
      <4>1. i \in 1..k /\ i - 1 \in 1..(k + 1) /\ i - 1 <= k
        BY <3>3
      <4>2. g[i] = f[i] /\ g[i - 1] = f[i - 1]
        BY <2>3, <4>1
      <4> QED BY <2>4, <3>3, <4>1, <4>2
    <3>4. CASE i # 1 /\ i = k + 1
      <4>1. i - 1 = k /\ k \in 1..(k + 1) /\ k <= k /\ ~ (i <= k) /\ k # 0
        BY <3>4
      <4>2. g[i] = x /\ g[k] = f[k]
        BY <2>3, <4>1
      <4> QED BY <2>2, <3>4, <4>1, <4>2
    <3> QED BY <3>1, <3>2, <3>3, <3>4
  <2>6. g = [i \in 1..(k + 1) |-> g[i]]
    BY <2>3
  <2>7. IsFlat(g, s, k + 1)
    <3>1. g = [i \in 1..(k + 1) |-> IF i = 1 THEN s[i] ELSE Joint(g[i - 1], i)]
      <4> HIDE DEF Joint
      <4> QED BY <2>5, <2>6
    <3> QED BY <3>1, Zenon DEF IsFlat
  <2>8. k + 1 \in Nat
    OBVIOUS
  <2> QED BY <2>7, <2>8
<1>3. n \in T
  <2> HIDE DEF T
  <2> QED BY <1>1, <1>2, NatSet
<1> QED BY <1>3

\* A flattened sequence holds what the sequences in it hold.
LEMMA FlattenIn ==
    ASSUME NEW S, NEW s, s \in Seq(Seq(S))
    PROVE  FlattenSeq(s) \in Seq(S)
<1>1. Len(s) \in Nat /\ DOMAIN s = 1..Len(s) /\ \A i \in 1..Len(s) : s[i] \in Seq(S)
  BY LenProperties, ElementOfSeq
<1>2. CASE Len(s) = 0
  <2>1. s = <<>>
    BY <1>2, EmptySeq, LenProperties
  <2>2. FlattenSeq(s) = s
    BY <1>2, Zenon DEF FlattenSeq
  <2> QED BY <2>1, <2>2, EmptySeq
<1>3. CASE Len(s) # 0
  <2>1. \E f : f = [i \in 1..Len(s) |-> IF i = 1 THEN s[i] ELSE f[i - 1] \o s[i]]
    <3>1. \E f : IsFlat(f, s, Len(s))
      BY <1>1, FlatExists
    <3> QED BY <3>1, Zenon DEF IsFlat
  <2> DEFINE flat == CHOOSE f : f = [i \in 1..Len(s) |-> IF i = 1 THEN s[i] ELSE f[i - 1] \o s[i]]
  <2>2. IsFlat(flat, s, Len(s))
    BY <2>1, Zenon DEF IsFlat
  <2>3. FlattenSeq(s) = flat[Len(s)]
    BY <1>3, Zenon DEF FlattenSeq
  <2> HIDE DEF flat
  <2>4. PICK f : f = flat
    OBVIOUS
  <2>5. \A i \in 1..Len(s) : f[i] = IF i = 1 THEN s[i] ELSE f[i - 1] \o s[i]
    BY <2>2, <2>4, Zenon DEF IsFlat
  <2> DEFINE T == {k \in Nat : k + 1 <= Len(s) => f[k + 1] \in Seq(S)}
  <2>6. 0 \in T
    <3>1. 1 \in 1..Len(s)
      BY <1>1, <1>3
    <3>2. f[1] = s[1]
      BY <2>5, <3>1, Zenon
    <3> QED BY <1>1, <3>1, <3>2
  <2>7. ASSUME NEW k \in Nat, k \in T PROVE k + 1 \in T
    <3>1. SUFFICES ASSUME (k + 1) + 1 <= Len(s) PROVE f[(k + 1) + 1] \in Seq(S)
      OBVIOUS
    <3>2. (k + 1) + 1 \in 1..Len(s) /\ (k + 1) + 1 # 1 /\ ((k + 1) + 1) - 1 = k + 1 /\ f[k + 1] \in Seq(S)
      BY <1>1, <2>7, <3>1
    <3>3. f[(k + 1) + 1] = f[((k + 1) + 1) - 1] \o s[(k + 1) + 1]
      BY <2>5, <3>2, Zenon
    <3>4. f[k + 1] \o s[(k + 1) + 1] \in Seq(S)
      BY <1>1, <3>2, ConcatProperties
    <3> QED BY <3>2, <3>3, <3>4, Zenon
  <2>8. Len(s) - 1 \in T
    <3>1. Len(s) - 1 \in Nat
      BY <1>1, <1>3
    <3> HIDE DEF T
    <3> QED BY <2>6, <2>7, <3>1, NatSet
  <2>9. f[Len(s)] \in Seq(S)
    <3>1. (Len(s) - 1) + 1 = Len(s)
      BY <1>1
    <3> QED BY <1>1, <2>8, <3>1
  <2> QED BY <2>3, <2>4, <2>9
<1> QED BY <1>2, <1>3

-----------------------------------------------------------------------------
(***************************************************************************)
(* Messages that are alone, and what sending and taking does to them.      *)
(***************************************************************************)

Quiet(s) == \A i \in DOMAIN s : s[i].body \notin Rounds

LEMMA AloneJoined ==
    ASSUME NEW S, NEW s \in Seq(S), NEW t \in Seq(S), Alone(s), Quiet(t)
    PROVE  Alone(s \o t)
<1>1. PICK u : u = s \o t
  OBVIOUS
<1>2. /\ u \in Seq(S) /\ Len(u) = Len(s) + Len(t)
      /\ \A i \in 1..(Len(s) + Len(t)) : u[i] = IF i <= Len(s) THEN s[i] ELSE t[i - Len(s)]
  BY <1>1, ConcatProperties
<1>3. Len(s) \in Nat /\ DOMAIN s = 1..Len(s) /\ Len(t) \in Nat /\ DOMAIN t = 1..Len(t)
      /\ DOMAIN u = 1..(Len(s) + Len(t))
  BY <1>2, LenProperties
<1>4. ASSUME NEW i \in DOMAIN u, u[i].body \in Rounds PROVE i \in DOMAIN s /\ u[i] = s[i]
  <2>1. CASE i <= Len(s)
    BY <1>2, <1>3, <2>1
  <2>2. CASE ~ (i <= Len(s))
    <3>1. i - Len(s) \in DOMAIN t /\ u[i] = t[i - Len(s)]
      BY <1>2, <1>3, <2>2
    <3> QED BY <1>4, <3>1 DEF Quiet
  <2> QED BY <2>1, <2>2
<1> QED BY <1>1, <1>4 DEF Alone

LEMMA AloneAppended ==
    ASSUME NEW S, NEW s \in Seq(S), NEW m \in S, Alone(s), m.body \in Rounds => m \notin ToSet(s)
    PROVE  Alone(Append(s, m))
<1>1. PICK u : u = Append(s, m)
  OBVIOUS
<1>2. /\ u \in Seq(S) /\ Len(u) = Len(s) + 1
      /\ \A i \in DOMAIN s : u[i] = s[i]
      /\ u[Len(s) + 1] = m
  BY <1>1, Appended
<1>3. Len(s) \in Nat /\ DOMAIN s = 1..Len(s) /\ DOMAIN u = 1..(Len(s) + 1)
  BY <1>2, LenProperties
<1>4. ASSUME NEW i \in DOMAIN u, NEW j \in DOMAIN u, u[i].body \in Rounds, u[i] = u[j] PROVE i = j
  <2>1. CASE i \in DOMAIN s /\ j \in DOMAIN s
    BY <1>2, <1>4, <2>1 DEF Alone
  <2>2. CASE i \in DOMAIN s /\ j = Len(s) + 1
    BY <1>2, <1>4, <2>2 DEF ToSet
  <2>3. CASE j \in DOMAIN s /\ i = Len(s) + 1
    BY <1>2, <1>4, <2>3 DEF ToSet
  <2>4. CASE i = Len(s) + 1 /\ j = Len(s) + 1
    BY <2>4
  <2> QED BY <1>3, <2>1, <2>2, <2>3, <2>4
<1> QED BY <1>1, <1>4 DEF Alone

LEMMA AloneRemoved ==
    ASSUME NEW S, NEW s \in Seq(S), NEW i \in DOMAIN s
    PROVE  /\ ToSet(RemoveAt(s, i)) \subseteq ToSet(s)
           /\ Alone(s) => Alone(RemoveAt(s, i))
           /\ Alone(s) /\ s[i].body \in Rounds => s[i] \notin ToSet(RemoveAt(s, i))
<1>1. PICK r : r = RemoveAt(s, i)
  OBVIOUS
<1> DEFINE Old(k) == IF k < i THEN k ELSE k + 1
<1>2. \A k \in DOMAIN r : Old(k) \in DOMAIN s /\ r[k] = s[Old(k)]
  BY <1>1, Removed
<1>3. r \in Seq(S) /\ i \in Nat /\ DOMAIN r \subseteq Nat
  BY <1>1, Removed, Elements
<1>4. \A k \in DOMAIN r : Old(k) # i
  BY <1>3
<1>5. \A k, l \in DOMAIN r : Old(k) = Old(l) => k = l
  BY <1>3
<1> HIDE DEF Old
<1>6. ToSet(r) \subseteq ToSet(s)
  BY <1>2 DEF ToSet
<1>7. ASSUME Alone(s) PROVE Alone(r)
  BY <1>2, <1>5, <1>7 DEF Alone
<1>8. ASSUME Alone(s), s[i].body \in Rounds PROVE s[i] \notin ToSet(r)
  BY <1>2, <1>4, <1>8 DEF Alone, ToSet
<1> QED BY <1>1, <1>6, <1>7, <1>8

\* What a host sends arrives behind what is in transit.
LEMMA Sent ==
    ASSUME NEW S, NEW out \in Seq(S), NEW boxes \in [Party -> Seq(S)]
    PROVE  /\ SentTo(out, boxes) \in [Party -> Seq(S)]
           /\ \A q \in Party : /\ ToSet(SentTo(out, boxes)[q]) \subseteq ToSet(boxes[q]) \cup ToSet(out)
                               /\ Quiet(out) /\ Alone(boxes[q]) => Alone(SentTo(out, boxes)[q])
<1> DEFINE Share(q) == Picked(out, {i \in DOMAIN out : Reaches(out[i], q)})
<1>1. ASSUME NEW q \in Party
      PROVE  Share(q) \in Seq(S) /\ ToSet(Share(q)) \subseteq ToSet(out) /\ (Quiet(out) => Quiet(Share(q)))
  <2>1. PICK places : places = {i \in DOMAIN out : Reaches(out[i], q)}
    OBVIOUS
  <2>2. PICK t : t = Picked(out, places)
    OBVIOUS
  <2>3. PICK W : W = {out[i] : i \in places \cap DOMAIN out}
    OBVIOUS
  <2>4. t \in Seq(W)
    BY <2>2, <2>3, PickedIn
  <2>5. W \subseteq S /\ W \subseteq ToSet(out) /\ (Quiet(out) => \A m \in W : m.body \notin Rounds)
    BY <2>3, Elements DEF ToSet, Quiet
  <2>6. t \in Seq(S) /\ ToSet(t) \subseteq W /\ \A i \in DOMAIN t : t[i] \in W
    BY <2>4, <2>5, SeqMonotonic, Elements
  <2>7. Quiet(out) => Quiet(t)
    BY <2>5, <2>6 DEF Quiet
  <2> QED BY <2>1, <2>2, <2>5, <2>6, <2>7
<1>2. SentTo(out, boxes) = [q \in Party |-> boxes[q] \o Share(q)]
  BY Zenon DEF SentTo
<1> HIDE DEF Share
<1>3. ASSUME NEW q \in Party
      PROVE  /\ boxes[q] \o Share(q) \in Seq(S)
             /\ ToSet(boxes[q] \o Share(q)) \subseteq ToSet(boxes[q]) \cup ToSet(out)
             /\ Quiet(out) /\ Alone(boxes[q]) => Alone(boxes[q] \o Share(q))
  <2>1. boxes[q] \in Seq(S)
    OBVIOUS
  <2>2. PICK t : t = Share(q) /\ t \in Seq(S) /\ ToSet(t) \subseteq ToSet(out) /\ (Quiet(out) => Quiet(t))
    BY <1>1
  <2>3. boxes[q] \o t \in Seq(S) /\ ToSet(boxes[q] \o t) = ToSet(boxes[q]) \cup ToSet(t)
    BY <2>1, <2>2, Joined
  <2>4. Quiet(out) /\ Alone(boxes[q]) => Alone(boxes[q] \o t)
    BY <2>1, <2>2, AloneJoined
  <2> QED BY <2>2, <2>3, <2>4
<1> QED BY <1>2, <1>3

LEMMA SentOne ==
    ASSUME NEW S, NEW m \in S, NEW boxes \in [Party -> Seq(S)], NEW q \in Party
    PROVE  SentTo(<<m>>, boxes)[q] \in {boxes[q], Append(boxes[q], m)}
<1>1. PICK places : places = {i \in DOMAIN <<m>> : Reaches(<<m>>[i], q)}
  OBVIOUS
<1>2. PICK t : t = Picked(<<m>>, places)
  OBVIOUS
<1>3. SentTo(<<m>>, boxes)[q] = boxes[q] \o t
  BY <1>1, <1>2, Zenon DEF SentTo
<1>4. t \in {<<>>, <<m>>}
  BY <1>2, PickedOne
<1>5. boxes[q] \in Seq(S)
  OBVIOUS
<1>6. boxes[q] \o <<>> = boxes[q]
  BY <1>5, ConcatEmptySeq
<1>7. PICK s : s = boxes[q]
  OBVIOUS
<1>8. s \o <<m>> = Append(s, m)
  BY <1>5, <1>7
<1> QED BY <1>3, <1>4, <1>6, <1>7, <1>8

-----------------------------------------------------------------------------
(***************************************************************************)
(* The messages of the sessions and of their derivations.                  *)
(***************************************************************************)

LEMMA SessionMessages ==
    ASSUME NEW p \in Party, NEW fails
    PROVE  /\ First(p) \in Sane(fails) /\ First(p).from = p /\ First(p).to = Everyone /\ First(p).body = "Msg1"
           /\ Second(p) \in Sane(fails) /\ Second(p).from = p /\ Second(p).to = Everyone /\ Second(p).body = "Msg2"
           /\ fails => Message(p, Everyone, "Abort") \in Sane(fails)
           /\ {"Msg1", "Msg2"} = Rounds /\ "Abort" \notin Rounds
<1>1. {"Msg1", "Msg2"} = Rounds /\ "Abort" \notin Rounds
  BY DEF Rounds
<1>2. ASSUME NEW body \in Body, body = "Abort" => fails
      PROVE  /\ Message(p, Everyone, body) \in Sane(fails)
             /\ Message(p, Everyone, body).from = p /\ Message(p, Everyone, body).to = Everyone
             /\ Message(p, Everyone, body).body = body
  BY <1>2 DEF Message, Sane
<1>3. "Msg1" # "Abort" /\ "Msg2" # "Abort"
  OBVIOUS
<1>4. "Msg1" \in Body /\ "Msg2" \in Body /\ "Abort" \in Body
  BY DEF Body, Rounds
<1> QED BY <1>1, <1>2, <1>3, <1>4 DEF First, Second

LEMMA OfRounds ==
    ASSUME NEW fails, NEW m \in Sane(fails)
    PROVE  /\ m.from \in Party
           /\ m.body = "Msg1" => m = First(m.from)
           /\ m.body = "Msg2" => m = Second(m.from)
           /\ m.body \in Rounds => m.to = Everyone /\ (m = First(m.from) \/ m = Second(m.from))
<1>1. m \in [from : Party, to : Party \cup {Everyone}, body : Body] /\ (m.body \in Rounds => m.to = Everyone)
  BY DEF Sane
<1>2. m = [from |-> m.from, to |-> m.to, body |-> m.body] /\ m.from \in Party
  BY <1>1
<1>3. "Msg1" \in Rounds /\ "Msg2" \in Rounds /\ (m.body \in Rounds => m.body = "Msg1" \/ m.body = "Msg2")
  BY DEF Rounds
<1>4. m.body = "Msg1" => m = First(m.from)
  BY <1>1, <1>2, <1>3 DEF First, Message
<1>5. m.body = "Msg2" => m = Second(m.from)
  BY <1>1, <1>2, <1>3 DEF Second, Message
<1> QED BY <1>1, <1>2, <1>3, <1>4, <1>5

LEMMA OfDerivations ==
    ASSUME NEW fails, NEW p \in Party, NEW m \in DerivationMessages(p)
    PROVE  m \in Sane(fails) /\ m.body \notin Rounds /\ m.to # Everyone
<1>1. \A q \in Party : q # Everyone
  BY DEF Party, Everyone, PARTICIPANTS
<1> QED BY <1>1 DEF DerivationMessages, Sane, Body

\* The derivation makes some of its steps, and sends what they send.
LEMMA DerivedWhat ==
    ASSUME NEW p \in Party, setting \in DOMAIN Settings, NEW have \in SUBSET (Party \X Body), NEW made \in Nat
    PROVE  /\ Derived(p, have, made).state \in [have : SUBSET (Party \X Body), made : Nat]
           /\ Derived(p, have, made).out \in Seq(DerivationMessages(p))
<1>1. PICK steps : steps = The.steps[p]
  OBVIOUS
<1>2. steps \in Seq([needs : SUBSET (Party \X STRING), sends : Seq(DerivationMessages(p))])
  BY <1>1, StepsAssumption DEF The
<1>3. /\ Len(steps) \in Nat
      /\ \A i \in 1..Len(steps) : steps[i].sends \in Seq(DerivationMessages(p))
  <2>1. PICK R : R = [needs : SUBSET (Party \X STRING), sends : Seq(DerivationMessages(p))]
    OBVIOUS
  <2>2. Len(steps) \in Nat /\ \A i \in 1..Len(steps) : steps[i] \in R
    BY <1>2, <2>1, LenProperties, ElementOfSeq
  <2> QED BY <2>1, <2>2
<1> DEFINE able == {n \in 0..Len(steps) : \A k \in 1..n : steps[k].needs \subseteq have}
           n == CHOOSE n \in able : \A k \in able : k <= n
           flat == [k \in 1..(n - made) |-> steps[made + k].sends]
<1>4. Derived(p, have, made) = [state |-> [have |-> have, made |-> n], out |-> FlattenSeq(flat)]
  BY <1>1, Zenon DEF Derived
<1>5. n \in 0..Len(steps)
  <2>1. 0 \in able
    BY <1>3
  <2>2. able \in SUBSET (0..Len(steps))
    OBVIOUS
  <2> HIDE DEF able
  <2>3. \E x \in able : \A k \in able : k <= x
    BY <1>3, <2>1, <2>2, Greatest
  <2>4. n \in able
    BY <2>3
  <2> QED BY <2>2, <2>4
<1> HIDE DEF n
<1>6. flat \in Seq(Seq(DerivationMessages(p)))
  <2>1. PICK len : len \in Nat /\ 1..(n - made) = 1..len /\ \A k \in 1..len : made + k \in 1..Len(steps)
    <3>1. CASE n >= made
      <4>1. n - made \in Nat /\ \A k \in 1..(n - made) : made + k \in 1..Len(steps)
        BY <1>3, <1>5, <3>1
      <4> QED BY <4>1
    <3>2. CASE ~ (n >= made)
      <4>1. 1..(n - made) = 1..0 /\ \A k \in 1..0 : FALSE
        BY <1>3, <1>5, <3>2
      <4> QED BY <4>1
    <3> QED BY <3>1, <3>2
  <2>2. \A k \in 1..len : steps[made + k].sends \in Seq(DerivationMessages(p))
    BY <1>3, <2>1
  <2>3. flat = [k \in 1..len |-> steps[made + k].sends]
    BY <2>1
  <2>4. flat \in [1..len -> Seq(DerivationMessages(p))]
    BY <2>2, <2>3
  <2> HIDE DEF flat
  <2> QED BY <2>1, <2>4, SeqDef
<1> HIDE DEF flat
<1>7. FlattenSeq(flat) \in Seq(DerivationMessages(p))
  BY <1>6, FlattenIn
<1>8. n \in Nat
  BY <1>3, <1>5
<1> QED BY <1>4, <1>7, <1>8

-----------------------------------------------------------------------------
(***************************************************************************)
(* What a call of handle_messages may return.                              *)
(***************************************************************************)

LEMMA EmptyList == ASSUME NEW t \in Seq({}) PROVE t = <<>>
<1>1. Len(t) \in Nat
  BY LenProperties
<1>2. CASE Len(t) = 0
  BY <1>2, EmptySeq, LenProperties
<1>3. CASE Len(t) # 0
  <2>1. 1 \in 1..Len(t)
    BY <1>1, <1>3
  <2> QED BY <2>1, ElementOfSeq
<1> QED BY <1>2, <1>3

\* The broadcast of the second round is kept, nothing of a derivation is.
LEMMA Retained ==
    /\ retain_self_broadcasts(<<>>) = <<>>
    /\ \A p \in Party : retain_self_broadcasts(<<Second(p)>>) = <<Second(p)>>
    /\ \A p \in Party : \A out \in Seq(DerivationMessages(p)) : retain_self_broadcasts(out) = <<>>
<1>1. ASSUME NEW S, NEW out \in Seq(S), \A m \in S : m.to # Everyone
      PROVE  retain_self_broadcasts(out) = <<>>
  <2>1. PICK places : places = {i \in DOMAIN out : out[i].to = Everyone}
    OBVIOUS
  <2>2. places \cap DOMAIN out = {}
    <3>1. \A i \in DOMAIN out : out[i] \in S
      BY Elements
    <3> QED BY <1>1, <2>1, <3>1
  <2>3. {out[i] : i \in places \cap DOMAIN out} = {}
    BY <2>2
  <2>4. Picked(out, places) \in Seq({})
    BY <2>3, PickedIn
  <2> QED BY <2>1, <2>4, EmptyList DEF retain_self_broadcasts
<1>2. retain_self_broadcasts(<<>>) = <<>>
  <2>1. PICK S : S = {}
    OBVIOUS
  <2>2. <<>> \in Seq(S)
    BY EmptySeq
  <2>3. \A m \in S : m.to # Everyone
    BY <2>1
  <2>4. PICK out \in Seq(S) : out = <<>>
    BY <2>2
  <2> QED BY <1>1, <2>3, <2>4
<1>3. ASSUME NEW p \in Party PROVE retain_self_broadcasts(<<Second(p)>>) = <<Second(p)>>
  <2>1. PICK m : m = Second(p) /\ m.to = Everyone
    BY SessionMessages
  <2>2. PICK places : places = {i \in DOMAIN <<m>> : <<m>>[i].to = Everyone}
    OBVIOUS
  <2>3. 1 \in places
    BY <2>1, <2>2
  <2>4. Picked(<<m>>, places) = <<m>>
    BY <2>3, PickedOne
  <2> QED BY <2>1, <2>2, <2>4, Zenon DEF retain_self_broadcasts
<1>4. ASSUME NEW p \in Party, NEW out \in Seq(DerivationMessages(p)) PROVE retain_self_broadcasts(out) = <<>>
  <2>1. \A m \in DerivationMessages(p) : m.to # Everyone
    BY OfDerivations
  <2> QED BY <1>1, <2>1
<1> QED BY <1>2, <1>3, <1>4

FailedWith(o) == o.phase = "failed" /\ o.drv = Unstarted /\ o.out = <<>>

LEMMA Handled ==
    ASSUME Types, NEW p \in Party, NEW msgs \in Seq(Sane(The.fails)), phase[p] \notin {"share", "failed"},
           NEW o \in handle_messages(p, msgs)
    PROVE  /\ o.drv \in [have : SUBSET (Party \X Body), made : Nat]
           /\ phase[p] = "init" => o.phase = "init" /\ o.drv = Unstarted /\ o.out = <<>>
           /\ phase[p] = "wait1" =>
                \/ FailedWith(o) /\ ~ Accepts("Msg1", msgs)
                \/ o.phase = "wait2" /\ o.drv = Unstarted /\ o.out = <<Second(p)>> /\ Accepts("Msg1", msgs)
           /\ phase[p] = "wait2" =>
                \/ FailedWith(o) /\ ~ Accepts("Msg2", msgs)
                \/ o.phase = "derivation" /\ o.out \in Seq(DerivationMessages(p)) /\ Accepts("Msg2", msgs)
           /\ phase[p] = "derivation" =>
                \/ FailedWith(o) /\ (The.fails \/ \E n \in DOMAIN msgs : msgs[n].body \in Rounds \cup {"Abort"})
                \/ o.phase \in {"derivation", "share"} /\ o.out \in Seq(DerivationMessages(p))
<1>1. phase[p] \in {"init", "wait1", "wait2", "derivation"}
  BY DEF Types, Phases
<1>2. Unstarted \in [have : SUBSET (Party \X Body), made : Nat]
  BY DEF Unstarted
<1>3. FailedWith(Failed)
  BY DEF Failed, FailedWith, Outcome
<1>4. CASE phase[p] = "init"
  <2>1. o = Outcome("init", Unstarted, <<>>)
    BY <1>4 DEF handle_messages
  <2> QED BY <1>2, <1>4, <2>1 DEF Outcome
<1>5. CASE phase[p] = "wait1"
  <2>1. o = AfterRound1(p, msgs)
    BY <1>5 DEF handle_messages
  <2>2. CASE Accepts("Msg1", msgs)
    <3>1. o = Outcome("wait2", Unstarted, <<Second(p)>>)
      BY <2>1, <2>2 DEF AfterRound1, Second
    <3>2. o.phase = "wait2" /\ o.drv = Unstarted /\ o.out = <<Second(p)>>
      BY <3>1 DEF Outcome
    <3> QED BY <1>2, <1>5, <2>2, <3>2
  <2>3. CASE ~ Accepts("Msg1", msgs)
    <3>1. o = Failed
      BY <2>1, <2>3 DEF AfterRound1
    <3> QED BY <1>2, <1>3, <1>5, <2>3, <3>1 DEF FailedWith
  <2> QED BY <2>2, <2>3
<1>6. CASE phase[p] = "wait2"
  <2>1. o = AfterRound2(p, msgs)
    BY <1>6 DEF handle_messages
  <2>2. CASE Accepts("Msg2", msgs)
    <3>1. PICK d : d = Derived(p, {}, 0)
      OBVIOUS
    <3>2. d.state \in [have : SUBSET (Party \X Body), made : Nat] /\ d.out \in Seq(DerivationMessages(p))
      BY <3>1, DerivedWhat DEF Types
    <3>3. o = Outcome("derivation", d.state, d.out)
      BY <2>1, <2>2, <3>1 DEF AfterRound2
    <3>4. o.phase = "derivation" /\ o.drv = d.state /\ o.out = d.out
      BY <3>3 DEF Outcome
    <3> QED BY <1>6, <2>2, <3>2, <3>4
  <2>3. CASE ~ Accepts("Msg2", msgs)
    <3>1. o = Failed
      BY <2>1, <2>3 DEF AfterRound2
    <3> QED BY <1>2, <1>3, <1>6, <2>3, <3>1 DEF FailedWith
  <2> QED BY <2>2, <2>3
<1>7. CASE phase[p] = "derivation"
  <2>1. o = AfterDerivation(p, msgs) \/ (The.fails /\ o = Failed)
    BY <1>7 DEF handle_messages
  <2>2. CASE The.fails /\ o = Failed
    BY <1>2, <1>3, <1>7, <2>2 DEF FailedWith
  <2>3. CASE o = AfterDerivation(p, msgs)
    <3>1. PICK have : have = drv[p].have \cup {<<msgs[n].from, msgs[n].body>> : n \in DOMAIN msgs}
      OBVIOUS
    <3>2. have \in SUBSET (Party \X Body)
      <4>1. \A n \in DOMAIN msgs : msgs[n] \in Sane(The.fails)
        BY Elements
      <4>2. \A n \in DOMAIN msgs : msgs[n].from \in Party /\ msgs[n].body \in Body
        BY <4>1 DEF Sane
      <4>3. drv[p].have \in SUBSET (Party \X Body)
        BY DEF Types
      <4> QED BY <3>1, <4>2, <4>3
    <3>3. drv[p].made \in Nat
      BY DEF Types
    <3>4. PICK d : d = Derived(p, have, drv[p].made)
      OBVIOUS
    <3>5. d.state \in [have : SUBSET (Party \X Body), made : Nat] /\ d.out \in Seq(DerivationMessages(p))
      BY <3>2, <3>3, <3>4, DerivedWhat DEF Types
    <3>6. o = IF \E n \in DOMAIN msgs : msgs[n].body \in Rounds \cup {"Abort"} THEN Failed
              ELSE Outcome(IF d.state.made = Len(The.steps[p]) THEN "share" ELSE "derivation", d.state, d.out)
      BY <2>3, <3>1, <3>4, Zenon DEF AfterDerivation
    <3>7. CASE \E n \in DOMAIN msgs : msgs[n].body \in Rounds \cup {"Abort"}
      BY <1>2, <1>3, <1>7, <3>6, <3>7 DEF FailedWith
    <3>8. CASE ~ \E n \in DOMAIN msgs : msgs[n].body \in Rounds \cup {"Abort"}
      <4>1. PICK ph \in {"derivation", "share"} : o = Outcome(ph, d.state, d.out)
        BY <3>6, <3>8
      <4>2. o.phase = ph /\ o.drv = d.state /\ o.out = d.out
        BY <4>1 DEF Outcome
      <4> QED BY <1>7, <3>5, <4>2
    <3> QED BY <3>7, <3>8
  <2> QED BY <2>1, <2>2, <2>3
<1> QED BY <1>1, <1>4, <1>5, <1>6, <1>7

\* A round that is accepted has a message of every party.
LEMMA Accepted ==
    ASSUME NEW fails, NEW msgs \in Seq(Sane(fails)), NEW q \in Party
    PROVE  /\ Accepts("Msg1", msgs) => First(q) \in ToSet(msgs)
           /\ Accepts("Msg2", msgs) => Second(q) \in ToSet(msgs)
<1>1. \A n \in DOMAIN msgs : msgs[n] \in Sane(fails) /\ msgs[n] \in ToSet(msgs)
  BY Elements
<1>2. ASSUME Accepts("Msg1", msgs) PROVE First(q) \in ToSet(msgs)
  <2>1. PICK n \in DOMAIN msgs : msgs[n].from = q /\ msgs[n].body = "Msg1"
    BY <1>2 DEF Accepts
  <2> QED BY <1>1, <2>1, OfRounds
<1>3. ASSUME Accepts("Msg2", msgs) PROVE Second(q) \in ToSet(msgs)
  <2>1. PICK n \in DOMAIN msgs : msgs[n].from = q /\ msgs[n].body = "Msg2"
    BY <1>3 DEF Accepts
  <2> QED BY <1>1, <2>1, OfRounds
<1> QED BY <1>2, <1>3

Mixed(msgs) == \E m, n \in DOMAIN msgs : msgs[m].body # msgs[n].body
Repeated(msgs, round) == \E m, n \in DOMAIN msgs : m # n /\ msgs[m] = msgs[n] /\ msgs[m].body = round

\* One of as many messages as there are parties that is not accepted has two
\* messages of different rounds, or the same message twice.
LEMMA Rejected ==
    ASSUME NEW fails, NEW msgs \in Seq(Sane(fails)), Len(msgs) = PARTICIPANTS,
           NEW round \in Rounds, ~ Accepts(round, msgs), NEW k \in DOMAIN msgs, msgs[k].body = round
    PROVE  Mixed(msgs) \/ Repeated(msgs, round)
<1>1. SUFFICES ASSUME \A n \in DOMAIN msgs : msgs[n].body = round
               PROVE  \E m, n \in DOMAIN msgs : m # n /\ msgs[m] = msgs[n]
  BY DEF Mixed, Repeated
<1>2. DOMAIN msgs = {1, 2, 3}
  BY Elements DEF PARTICIPANTS
<1>3. \A n \in DOMAIN msgs : msgs[n] \in Sane(fails)
  BY Elements
<1>4. \A n \in DOMAIN msgs : msgs[n].from \in Party /\ msgs[n] = Message(msgs[n].from, Everyone, round)
  BY <1>1, <1>3, OfRounds DEF First, Second, Rounds
<1>5. {msgs[n].from : n \in DOMAIN msgs} # Party
  BY <1>1 DEF Accepts
<1>6. PICK a, b, c : a = msgs[1].from /\ b = msgs[2].from /\ c = msgs[3].from
  OBVIOUS
<1>7. a \in {0, 1, 2} /\ b \in {0, 1, 2} /\ c \in {0, 1, 2} /\ {a, b, c} # {0, 1, 2}
  <2>1. Party = {0, 1, 2}
    BY DEF Party, PARTICIPANTS
  <2>2. {msgs[n].from : n \in DOMAIN msgs} = {a, b, c}
    BY <1>2, <1>6
  <2> QED BY <1>2, <1>4, <1>5, <1>6, <2>1, <2>2
<1>8. a = b \/ a = c \/ b = c
  BY <1>7
<1>9. 1 \in DOMAIN msgs /\ 2 \in DOMAIN msgs /\ 3 \in DOMAIN msgs /\ 1 # 2 /\ 1 # 3 /\ 2 # 3
  BY <1>2
<1>10. msgs[1] = msgs[2] \/ msgs[1] = msgs[3] \/ msgs[2] = msgs[3]
  BY <1>4, <1>6, <1>8, <1>9, Zenon
<1> QED BY <1>9, <1>10, Zenon

-----------------------------------------------------------------------------
(***************************************************************************)
(* The invariant, action by action.                                        *)
(***************************************************************************)

\* What a session that failed was processing, seen from what went wrong.
Raced(msgs, dups, fails) ==
    \/ \E m, n \in DOMAIN msgs : msgs[m].body # msgs[n].body
    \/ /\ dups > 0
       /\ \/ \E m, n \in DOMAIN msgs : m # n /\ msgs[m] = msgs[n]
          \/ Len(msgs) = 1 /\ msgs[1].body \in Rounds
    \/ \E n \in DOMAIN msgs : fails /\ msgs[n].body \notin Rounds

LEMMA RacedIs == FailsOnlyOfRaces <=> \A p \in Party : phase[p] = "failed" => Raced(refused[p], duplicates, The.fails)
  BY DEF FailsOnlyOfRaces, Raced

LEMMA Limits == setting \in DOMAIN Settings => The.duplicates \in Nat
  BY SettingsAssumption DEF The

LEMMA Start == Init => IInv
<1> SUFFICES ASSUME Init PROVE IInv
  OBVIOUS
<1>1. /\ setting \in DOMAIN Settings /\ duplicates = 0 /\ The.duplicates \in Nat
      /\ \A p \in Party : /\ phase[p] = "init" /\ pending[p] = <<>> /\ drv[p] = Unstarted /\ inbox[p] = <<>>
                          /\ refused[p] = <<>>
  BY Limits DEF Init
<1>2. ToSet(<<>>) = {} /\ DOMAIN <<>> = {} /\ <<>> \in Seq(Sane(The.fails))
  BY DEF ToSet
<1>3. Types
  <2>1. Unstarted \in [have : SUBSET (Party \X Body), made : Nat]
    BY DEF Unstarted
  <2>2. pending \in [Party -> Seq(Sane(The.fails))] /\ inbox \in [Party -> Seq(Sane(The.fails))]
        /\ refused \in [Party -> Seq(Sane(The.fails))]
    BY <1>2 DEF Init
  <2>3. phase \in [Party -> Phases] /\ drv \in [Party -> [have : SUBSET (Party \X Body), made : Nat]]
    BY <2>1 DEF Init, Phases
  <2> QED BY <1>1, <2>2, <2>3 DEF Types
<1>4. \A p \in Party : Kept(p)
  BY <1>1, <1>2 DEF Kept
<1>5. Known /\ Passed
  BY <1>1, <1>2 DEF Known, Passed
<1>6. \A p \in Party : OnceOnly(p)
  BY <1>1, <1>2 DEF OnceOnly, Alone
<1>7. FailsOnlyOfRaces
  BY <1>1 DEF FailsOnlyOfRaces
<1> QED BY <1>3, <1>4, <1>5, <1>6, <1>7 DEF IInv

\* Nothing changes for a session that makes no step.
LEMMA KeptOn ==
    ASSUME NEW q \in Party, Kept(q), The' = The, phase'[q] = phase[q], pending'[q] = pending[q], drv'[q] = drv[q]
    PROVE  Kept(q)'
<1>1. \A own : OneOwn(q, own)' <=> OneOwn(q, own)
  BY DEF OneOwn
<1>2. /\ First(q)' = First(q) /\ Second(q)' = Second(q) /\ Unstarted' = Unstarted
  BY DEF First, Second, Message, Unstarted
<1> QED BY <1>1, <1>2 DEF Kept

LEMMA CreateStep ==
    ASSUME IInv, NEW p \in Party, create_first_message(p)
    PROVE  IInv'
<1>1. PICK S : S = Sane(The.fails)
  OBVIOUS
<1>2. PICK m : m = First(p)
  OBVIOUS
<1>3. m \in S /\ m.from = p /\ m.body = "Msg1" /\ \A q \in Party : m # Second(q) /\ (m = First(q) => q = p)
  BY <1>1, <1>2, SessionMessages
<1>4. /\ phase[p] = "init" /\ phase' = [phase EXCEPT ![p] = "wait1"]
      /\ pending' = [pending EXCEPT ![p] = Append(@, m)]
      /\ inbox' = SentTo(<<m>>, inbox)
      /\ UNCHANGED <<setting, drv, duplicates, refused, told>> /\ The' = The
  BY <1>2 DEF create_first_message, First, The
<1>5. /\ setting \in DOMAIN Settings /\ phase \in [Party -> Phases] /\ pending \in [Party -> Seq(S)]
      /\ inbox \in [Party -> Seq(S)] /\ Types
  BY <1>1 DEF IInv, Types
<1>6. /\ inbox' \in [Party -> Seq(S)]
      /\ \A q \in Party : /\ ToSet(inbox'[q]) \subseteq ToSet(inbox[q]) \cup {m}
                          /\ inbox'[q] \in {inbox[q], Append(inbox[q], m)}
  <2>1. <<m>> \in Seq(S) /\ ToSet(<<m>>) = {m}
    BY <1>3 DEF ToSet
  <2> QED BY <1>3, <1>4, <1>5, <2>1, Sent, SentOne
<1>7. \A q \in Party : m \notin ToSet(inbox[q]) /\ m \notin ToSet(pending[q])
  BY <1>2, <1>4 DEF IInv, Known
<1>8. /\ pending'[p] \in Seq(S) /\ Len(pending'[p]) = Len(pending[p]) + 1
      /\ \A i \in DOMAIN pending[p] : pending'[p][i] = pending[p][i]
      /\ pending'[p][Len(pending[p]) + 1] = m
      /\ ToSet(pending'[p]) = ToSet(pending[p]) \cup {m}
      /\ \A q \in Party : q # p => pending'[q] = pending[q]
  <2>1. pending'[p] = Append(pending[p], m)
    BY <1>4, <1>5
  <2> QED BY <1>3, <1>4, <1>5, <2>1, Appended
<1>9. /\ phase' \in [Party -> Phases] /\ phase'[p] = "wait1"
      /\ \A q \in Party : q # p => phase'[q] = phase[q]
  BY <1>4, <1>5 DEF Phases
<1>10. Types'
  <2>1. pending' \in [Party -> Seq(S)]
    BY <1>4, <1>5, <1>8
  <2> QED BY <1>1, <1>4, <1>5, <1>6, <1>9, <2>1 DEF Types
<1>11. ASSUME NEW q \in Party PROVE Kept(q)'
  <2>1. CASE q # p
    <3>1. phase'[q] = phase[q] /\ pending'[q] = pending[q] /\ drv'[q] = drv[q] /\ Kept(q)
      BY <1>4, <1>8, <1>9, <2>1 DEF IInv
    <3> QED BY <1>4, <3>1, KeptOn
  <2>2. CASE q = p
    <3>1. Kept(p)
      BY DEF IInv
    <3>2. OneOwn(p, First(p))'
      <4>1. \A j \in DOMAIN pending[p] : pending[p][j].from # p
        BY <1>4, <3>1 DEF Kept
      <4>2. DOMAIN pending[p] = 1..Len(pending[p]) /\ Len(pending[p]) \in Nat
            /\ DOMAIN pending'[p] = 1..(Len(pending[p]) + 1)
        BY <1>5, <1>8, Elements
      <4>3. Len(pending[p]) + 1 \in DOMAIN pending'[p]
        BY <4>2
      <4>4. ASSUME NEW j \in DOMAIN pending'[p], j # Len(pending[p]) + 1 PROVE pending'[p][j].from # p
        <5>1. j \in DOMAIN pending[p]
          BY <4>2, <4>4
        <5> QED BY <1>8, <4>1, <5>1
      <4> QED BY <1>2, <1>8, <4>3, <4>4 DEF OneOwn, First, Message
    <3>3. ~ The.early => Len(pending'[p]) < PARTICIPANTS
      <4>1. ~ The.early => pending[p] = <<>>
        BY <1>4, <3>1 DEF Kept
      <4> QED BY <1>8, <4>1 DEF PARTICIPANTS
    <3>4. drv'[p] = Unstarted
      BY <1>4, <3>1 DEF Kept
    <3> QED BY <1>4, <1>9, <2>2, <3>2, <3>3, <3>4 DEF Kept
  <2> QED BY <2>1, <2>2
<1>12. Known'
  <2> SUFFICES ASSUME NEW q \in Party, NEW r \in Party
               PROVE  /\ First(r) \in ToSet(inbox'[q]) \cup ToSet(pending'[q]) => phase'[r] # "init"
                      /\ Second(r) \in ToSet(inbox'[q]) \cup ToSet(pending'[q]) => phase'[r] \notin {"init", "wait1"}
    BY DEF Known, First, Second, Message
  <2>1. ToSet(inbox'[q]) \cup ToSet(pending'[q]) \subseteq ToSet(inbox[q]) \cup ToSet(pending[q]) \cup {m}
    BY <1>6, <1>8
  <2>2. /\ First(r) \in ToSet(inbox[q]) \cup ToSet(pending[q]) => phase[r] # "init"
        /\ Second(r) \in ToSet(inbox[q]) \cup ToSet(pending[q]) => phase[r] \notin {"init", "wait1"}
    BY DEF IInv, Known
  <2> QED BY <1>3, <1>4, <1>9, <2>1, <2>2
<1>13. /\ Passed'
       /\ \A q \in Party : phase'[q] \notin {"wait2", "derivation"}
  BY <1>4, <1>9 DEF IInv, Passed
<1>14. ASSUME duplicates' = 0, NEW q \in Party PROVE OnceOnly(q)'
  <2>1. OnceOnly(q)
    BY <1>4, <1>14 DEF IInv
  <2>2. Alone(inbox'[q])
    <3>1. Alone(inbox[q]) /\ inbox[q] \in Seq(S)
      BY <1>5, <2>1 DEF OnceOnly
    <3>2. Alone(Append(inbox[q], m))
      BY <1>3, <1>7, <3>1, AloneAppended
    <3> QED BY <1>6, <3>1, <3>2
  <2>3. Alone(pending'[q])
    <3>1. CASE q # p
      BY <1>8, <2>1, <3>1 DEF OnceOnly
    <3>2. CASE q = p
      <4>1. Alone(pending[p]) /\ pending[p] \in Seq(S) /\ pending'[p] = Append(pending[p], m)
        BY <1>4, <1>5, <2>1, <3>2 DEF OnceOnly
      <4> QED BY <1>3, <1>7, <3>2, <4>1, AloneAppended
    <3> QED BY <3>1, <3>2
  <2>4. \A n \in ToSet(inbox'[q]) \cap ToSet(pending'[q]) : n.body \in Rounds => n.from = q
    <3>1. \A n \in ToSet(inbox[q]) \cap ToSet(pending[q]) : n.body \in Rounds => n.from = q
      BY <2>1 DEF OnceOnly
    <3>2. CASE q # p
      BY <1>6, <1>7, <1>8, <3>1, <3>2
    <3>3. CASE q = p
      BY <1>3, <1>6, <1>8, <3>1, <3>3
    <3> QED BY <3>2, <3>3
  <2> QED BY <1>13, <2>2, <2>3, <2>4 DEF OnceOnly, Alone
<1>15. FailsOnlyOfRaces'
  <2>1. \A q \in Party : phase[q] = "failed" => Raced(refused[q], duplicates, The.fails)
    BY RacedIs DEF IInv
  <2>2. \A q \in Party : phase'[q] = "failed" => Raced(refused'[q], duplicates', The'.fails)
    BY <1>4, <1>9, <2>1
  <2> QED BY <2>2 DEF FailsOnlyOfRaces, Raced
<1> QED BY <1>10, <1>11, <1>12, <1>13, <1>14, <1>15 DEF IInv

\* Steps that change no session and send nothing of a round.
LEMMA InboxStep ==
    ASSUME IInv, NEW S, S = Sane(The.fails),
           UNCHANGED <<setting, phase, pending, drv, refused>>,
           inbox' \in [Party -> Seq(S)], duplicates' \in 0..The.duplicates, duplicates > 0 => duplicates' > 0,
           \A q \in Party : \A m \in ToSet(inbox'[q]) : m.body \in Rounds => m \in ToSet(inbox[q]),
           duplicates' = 0 => \A q \in Party : Alone(inbox[q]) => Alone(inbox'[q])
    PROVE  IInv'
<1>1. The' = The /\ Types /\ Known /\ Passed
  BY DEF The, IInv
<1>2. Types'
  BY <1>1 DEF Types
<1>3. \A q \in Party : Kept(q)'
  BY <1>1, KeptOn DEF IInv
<1>4. \A q, r \in Party : /\ First(r) \in ToSet(inbox'[q]) => First(r) \in ToSet(inbox[q])
                          /\ Second(r) \in ToSet(inbox'[q]) => Second(r) \in ToSet(inbox[q])
  BY SessionMessages
<1>5. Known'
  <2> SUFFICES ASSUME NEW q \in Party, NEW r \in Party
               PROVE  /\ First(r) \in ToSet(inbox'[q]) \cup ToSet(pending'[q]) => phase'[r] # "init"
                      /\ Second(r) \in ToSet(inbox'[q]) \cup ToSet(pending'[q]) => phase'[r] \notin {"init", "wait1"}
    BY DEF Known, First, Second, Message
  <2> QED BY <1>1, <1>4 DEF Known
<1>6. Passed'
  BY <1>1 DEF Passed
<1>7. ASSUME duplicates' = 0, NEW q \in Party PROVE OnceOnly(q)'
  <2>1. duplicates = 0
    BY <1>1, <1>7, Limits DEF Types
  <2>2. OnceOnly(q) /\ Alone(inbox'[q])
    BY <1>7, <2>1 DEF IInv, OnceOnly
  <2>3. Alone(pending'[q])
    BY <2>2 DEF OnceOnly
  <2>4. \A m \in ToSet(inbox'[q]) \cap ToSet(pending'[q]) : m.body \in Rounds => m.from = q
    BY <2>2 DEF OnceOnly
  <2>5. phase'[q] \in {"wait2", "derivation"} =>
          \A r \in Party \ {q} : First(r) \notin ToSet(inbox'[q]) \cup ToSet(pending'[q])
    BY <1>4, <2>2 DEF OnceOnly
  <2>6. phase'[q] = "derivation" => \A r \in Party \ {q} : Second(r) \notin ToSet(inbox'[q])
    BY <1>4, <2>2 DEF OnceOnly
  <2> QED BY <2>2, <2>3, <2>4, <2>5, <2>6 DEF OnceOnly, Alone, First, Second, Message
<1>8. FailsOnlyOfRaces'
  <2>1. \A q \in Party : phase[q] = "failed" => Raced(refused[q], duplicates, The.fails)
    BY RacedIs DEF IInv
  <2>2. \A q \in Party : phase'[q] = "failed" => Raced(refused'[q], duplicates', The'.fails)
    BY <1>1, <2>1 DEF Raced
  <2> QED BY <2>2 DEF FailsOnlyOfRaces, Raced
<1> QED BY <1>2, <1>3, <1>5, <1>6, <1>7, <1>8 DEF IInv

LEMMA AbortStep ==
    ASSUME IInv, NEW p \in Party, Abort(p)
    PROVE  IInv'
<1>1. PICK S : S = Sane(The.fails)
  OBVIOUS
<1>2. PICK m : m = Message(p, Everyone, "Abort")
  OBVIOUS
<1>3. m \in S /\ m.body \notin Rounds
  <2>1. m \in S
    BY <1>1, <1>2, SessionMessages DEF Abort
  <2>2. m.body = "Abort"
    BY <1>2 DEF Message
  <2> QED BY <2>1, <2>2, SessionMessages
<1>4. /\ UNCHANGED <<setting, phase, pending, drv, refused>> /\ duplicates' = duplicates
      /\ inbox' = [q \in Party |-> IF q = p THEN inbox[q] ELSE Append(inbox[q], m)]
  BY <1>2 DEF Abort
<1>5. inbox \in [Party -> Seq(S)] /\ duplicates \in 0..The.duplicates
  BY <1>1 DEF IInv, Types
<1>6. ASSUME NEW q \in Party
      PROVE  /\ inbox'[q] \in Seq(S)
             /\ \A n \in ToSet(inbox'[q]) : n.body \in Rounds => n \in ToSet(inbox[q])
             /\ Alone(inbox[q]) => Alone(inbox'[q])
  <2>1. inbox[q] \in Seq(S)
    BY <1>5
  <2>2. PICK u : u = Append(inbox[q], m)
    OBVIOUS
  <2>3. inbox'[q] = inbox[q] \/ inbox'[q] = u
    BY <1>4, <2>2
  <2>4. u \in Seq(S) /\ ToSet(u) = ToSet(inbox[q]) \cup {m} /\ (Alone(inbox[q]) => Alone(u))
    BY <1>3, <2>1, <2>2, Appended, AloneAppended
  <2> QED BY <1>3, <2>1, <2>3, <2>4
<1>7. inbox' \in [Party -> Seq(S)]
  BY <1>4, <1>6
<1> QED BY <1>1, <1>4, <1>5, <1>6, <1>7, InboxStep

\* The transport takes a message, or leaves it.
Leaves(p, i, boxes) == boxes \in {[inbox EXCEPT ![p] = RemoveAt(@, i)], inbox} /\ Taken(p, i, boxes)

LEMMA TakenWhat ==
    ASSUME Types, NEW p \in Party, NEW i \in DOMAIN inbox[p], NEW boxes, Leaves(p, i, boxes)
    PROVE  /\ boxes \in [Party -> Seq(Sane(The.fails))]
           /\ duplicates' \in 0..The.duplicates /\ (duplicates > 0 => duplicates' > 0)
           /\ \A q \in Party : ToSet(boxes[q]) \subseteq ToSet(inbox[q])
           /\ \A q \in Party : Alone(inbox[q]) => Alone(boxes[q])
           /\ duplicates' = 0 /\ Alone(inbox[p]) /\ inbox[p][i].body \in Rounds =>
                inbox[p][i] \notin ToSet(boxes[p])
<1>1. PICK S : S = Sane(The.fails)
  OBVIOUS
<1>2. inbox \in [Party -> Seq(S)] /\ duplicates \in 0..The.duplicates /\ The.duplicates \in Nat
  BY <1>1, Limits DEF Types
<1>3. CASE boxes = [inbox EXCEPT ![p] = RemoveAt(@, i)] /\ duplicates' = duplicates
  <2>1. PICK r : r = RemoveAt(inbox[p], i)
    OBVIOUS
  <2>2. inbox[p] \in Seq(S)
    BY <1>2
  <2>3. /\ r \in Seq(S) /\ ToSet(r) \subseteq ToSet(inbox[p])
        /\ (Alone(inbox[p]) => Alone(r))
        /\ (Alone(inbox[p]) /\ inbox[p][i].body \in Rounds => inbox[p][i] \notin ToSet(r))
    BY <2>1, <2>2, Removed, AloneRemoved
  <2>4. boxes = [inbox EXCEPT ![p] = r]
    BY <1>3, <2>1
  <2>5. boxes[p] = r /\ boxes \in [Party -> Seq(S)] /\ \A q \in Party : q # p => boxes[q] = inbox[q]
    BY <1>2, <2>3, <2>4
  <2> QED BY <1>1, <1>2, <1>3, <2>3, <2>5
<1>4. CASE duplicates < The.duplicates /\ duplicates' = duplicates + 1 /\ boxes = inbox
  BY <1>1, <1>2, <1>4
<1> QED BY <1>3, <1>4 DEF Leaves, Taken

LEMMA IgnoreStep ==
    ASSUME IInv, NEW p \in Party, NEW i \in DOMAIN inbox[p], Ignore(p, i)
    PROVE  IInv'
<1>1. PICK boxes : Leaves(p, i, boxes) /\ inbox' = boxes
  BY DEF Ignore, Leaves
<1>2. UNCHANGED <<setting, phase, pending, drv, refused>>
  BY DEF Ignore
<1>3. Types
  BY DEF IInv
<1>4. /\ boxes \in [Party -> Seq(Sane(The.fails))]
      /\ duplicates' \in 0..The.duplicates /\ (duplicates > 0 => duplicates' > 0)
      /\ \A q \in Party : ToSet(boxes[q]) \subseteq ToSet(inbox[q])
      /\ \A q \in Party : Alone(inbox[q]) => Alone(boxes[q])
  BY <1>1, <1>3, TakenWhat
<1>5. PICK S : S = Sane(The.fails)
  OBVIOUS
<1>6. \A q \in Party : \A m \in ToSet(inbox'[q]) : m.body \in Rounds => m \in ToSet(inbox[q])
  BY <1>1, <1>4
<1> QED BY <1>1, <1>2, <1>4, <1>5, <1>6, InboxStep

LEMMA CollectStep ==
    ASSUME IInv, NEW p \in Party, NEW i \in DOMAIN inbox[p], Collect(p, i),
           The.early \/ \A q \in Party : phase[q] # "init"
    PROVE  IInv'
<1>1. PICK S : S = Sane(The.fails)
  OBVIOUS
<1>2. PICK m : m = inbox[p][i]
  OBVIOUS
<1>3. PICK boxes : Leaves(p, i, boxes) /\ inbox' = boxes
  BY DEF Collect, Leaves
<1>4. /\ UNCHANGED <<setting, phase, drv, refused, told>> /\ The' = The
      /\ pending' = [pending EXCEPT ![p] = Append(pending[p], m)]
      /\ ~ Ignored(p, m) /\ ~ Complete(p, Append(pending[p], m))
  BY <1>2 DEF Collect, The
<1>5. /\ Types /\ phase \in [Party -> Phases] /\ pending \in [Party -> Seq(S)] /\ inbox \in [Party -> Seq(S)]
      /\ Known /\ Passed /\ duplicates \in 0..The.duplicates /\ The.duplicates \in Nat
  BY <1>1, Limits DEF IInv, Types
<1>6. /\ inbox' \in [Party -> Seq(S)]
      /\ duplicates' \in 0..The.duplicates /\ (duplicates > 0 => duplicates' > 0)
      /\ \A q \in Party : ToSet(inbox'[q]) \subseteq ToSet(inbox[q])
      /\ \A q \in Party : Alone(inbox[q]) => Alone(inbox'[q])
      /\ duplicates' = 0 /\ Alone(inbox[p]) /\ m.body \in Rounds => m \notin ToSet(inbox'[p])
  BY <1>1, <1>2, <1>3, <1>5, TakenWhat
<1>7. m \in S /\ m \in ToSet(inbox[p]) /\ m.from # p /\ phase[p] \in {"init", "wait1", "wait2"}
      /\ Len(Append(pending[p], m)) # PARTICIPANTS
  BY <1>2, <1>4, <1>5, Elements DEF Ignored, Complete, is_finished, is_derivation, Phases
<1>8. /\ pending'[p] = Append(pending[p], m) /\ pending'[p] \in Seq(S) /\ Len(pending'[p]) = Len(pending[p]) + 1
      /\ \A j \in DOMAIN pending[p] : pending'[p][j] = pending[p][j]
      /\ pending'[p][Len(pending[p]) + 1] = m
      /\ ToSet(pending'[p]) = ToSet(pending[p]) \cup {m}
      /\ \A q \in Party : q # p => pending'[q] = pending[q]
  <2>1. pending'[p] = Append(pending[p], m)
    BY <1>4, <1>5
  <2> QED BY <1>4, <1>5, <1>7, <2>1, Appended
<1>9. Types'
  <2>1. pending' \in [Party -> Seq(S)]
    BY <1>4, <1>5, <1>8
  <2> QED BY <1>1, <1>4, <1>5, <1>6, <2>1 DEF Types
<1>10. ASSUME NEW q \in Party PROVE Kept(q)'
  <2>1. CASE q # p
    <3>1. phase'[q] = phase[q] /\ pending'[q] = pending[q] /\ drv'[q] = drv[q] /\ Kept(q)
      BY <1>4, <1>8, <2>1 DEF IInv
    <3> QED BY <1>4, <3>1, KeptOn
  <2>2. CASE q = p
    <3>1. Kept(p)
      BY DEF IInv
    <3>2. DOMAIN pending[p] = 1..Len(pending[p]) /\ Len(pending[p]) \in Nat
          /\ DOMAIN pending'[p] = 1..(Len(pending[p]) + 1)
      BY <1>5, <1>8, Elements
    <3>3. ASSUME NEW j \in DOMAIN pending'[p] PROVE j \in DOMAIN pending[p] \/ (pending'[p][j] = m /\ pending'[p][j].from # p)
      BY <1>7, <1>8, <3>2
    <3>4. ASSUME NEW own, OneOwn(p, own) PROVE OneOwn(p, own)'
      <4>1. PICK k \in DOMAIN pending[p] :
              pending[p][k] = own /\ \A j \in DOMAIN pending[p] : j # k => pending[p][j].from # p
        BY <3>4 DEF OneOwn
      <4>2. k \in DOMAIN pending'[p] /\ pending'[p][k] = own
        BY <1>8, <3>2, <4>1
      <4>3. \A j \in DOMAIN pending'[p] : j # k => pending'[p][j].from # p
        BY <1>8, <3>3, <4>1
      <4> QED BY <4>2, <4>3 DEF OneOwn
    <3>5. phase[p] = "wait1" => OneOwn(p, First(p))'
      <4>1. First(p)' = First(p)
        BY DEF First, Message
      <4> QED BY <3>1, <3>4, <4>1 DEF Kept
    <3>6. phase[p] = "wait2" => OneOwn(p, Second(p))'
      <4>1. Second(p)' = Second(p)
        BY DEF Second, Message
      <4> QED BY <3>1, <3>4, <4>1 DEF Kept
    <3>7. (phase[p] = "wait1" /\ ~ The.early) \/ phase[p] = "wait2" => Len(pending'[p]) < PARTICIPANTS
      <4>1. (phase[p] = "wait1" /\ ~ The.early) \/ phase[p] = "wait2" => Len(pending[p]) < PARTICIPANTS
        BY <3>1 DEF Kept
      <4> QED BY <1>7, <1>8, <3>2, <4>1 DEF PARTICIPANTS
    <3>8. phase[p] = "init" => \A j \in DOMAIN pending'[p] : pending'[p][j].from # p
      BY <1>8, <3>1, <3>3 DEF Kept
    <3>9. drv'[p] = Unstarted /\ phase'[p] = phase[p]
      BY <1>4, <1>7, <3>1 DEF Kept
    <3> QED BY <1>4, <1>7, <2>2, <3>5, <3>6, <3>7, <3>8, <3>9 DEF Kept
  <2> QED BY <2>1, <2>2
<1>11. Known'
  <2> SUFFICES ASSUME NEW q \in Party, NEW r \in Party
               PROVE  /\ First(r) \in ToSet(inbox'[q]) \cup ToSet(pending'[q]) => phase'[r] # "init"
                      /\ Second(r) \in ToSet(inbox'[q]) \cup ToSet(pending'[q]) => phase'[r] \notin {"init", "wait1"}
    BY DEF Known, First, Second, Message
  <2>1. ToSet(inbox'[q]) \cup ToSet(pending'[q]) \subseteq ToSet(inbox[q]) \cup ToSet(pending[q])
    BY <1>6, <1>7, <1>8
  <2> QED BY <1>4, <1>5, <2>1 DEF Known
<1>12. Passed'
  BY <1>4, <1>5 DEF Passed
<1>13. ASSUME duplicates' = 0, NEW q \in Party PROVE OnceOnly(q)'
  <2>1. OnceOnly(q) /\ OnceOnly(p)
    BY <1>5, <1>6, <1>13 DEF IInv
  <2>2. Alone(inbox'[q])
    BY <1>6, <2>1 DEF OnceOnly
  <2>3. m.body \in Rounds => m \notin ToSet(pending[p])
    BY <1>7, <2>1 DEF OnceOnly
  <2>4. Alone(pending'[q])
    <3>1. CASE q # p
      BY <1>8, <2>1, <3>1 DEF OnceOnly
    <3>2. CASE q = p
      <4>1. Alone(pending[p]) /\ pending[p] \in Seq(S)
        BY <1>5, <2>1 DEF OnceOnly
      <4>2. Alone(Append(pending[p], m))
        BY <1>7, <2>3, <4>1, AloneAppended
      <4> QED BY <1>8, <3>2, <4>2
    <3> QED BY <3>1, <3>2
  <2>5. \A n \in ToSet(inbox'[q]) \cap ToSet(pending'[q]) : n.body \in Rounds => n.from = q
    <3>1. \A n \in ToSet(inbox[q]) \cap ToSet(pending[q]) : n.body \in Rounds => n.from = q
      BY <2>1 DEF OnceOnly
    <3>2. CASE q # p
      BY <1>6, <1>8, <3>1, <3>2
    <3>3. CASE q = p
      <4>1. Alone(inbox[p])
        BY <2>1 DEF OnceOnly
      <4> QED BY <1>6, <1>8, <1>13, <3>1, <3>3, <4>1
    <3> QED BY <3>2, <3>3
  <2>6. ToSet(inbox'[q]) \cup ToSet(pending'[q]) \subseteq ToSet(inbox[q]) \cup ToSet(pending[q])
    BY <1>6, <1>7, <1>8
  <2>7. phase'[q] \in {"wait2", "derivation"} =>
          \A r \in Party \ {q} : First(r) \notin ToSet(inbox'[q]) \cup ToSet(pending'[q])
    BY <1>4, <2>1, <2>6 DEF OnceOnly
  <2>8. phase'[q] = "derivation" => \A r \in Party \ {q} : Second(r) \notin ToSet(inbox'[q])
    BY <1>4, <1>6, <2>1 DEF OnceOnly
  <2> QED BY <2>2, <2>4, <2>5, <2>7, <2>8 DEF OnceOnly, Alone, First, Second, Message
<1>14. FailsOnlyOfRaces'
  <2>1. \A q \in Party : phase[q] = "failed" => Raced(refused[q], duplicates, The.fails)
    BY RacedIs DEF IInv
  <2>2. \A q \in Party : phase'[q] = "failed" => Raced(refused'[q], duplicates', The'.fails)
    BY <1>4, <1>6, <2>1 DEF Raced
  <2> QED BY <2>2 DEF FailsOnlyOfRaces, Raced
<1> QED BY <1>9, <1>10, <1>11, <1>12, <1>13, <1>14 DEF IInv

\* A session fails on messages that show a race, a message delivered twice
\* or a failure of a derivation.
LEMMA FailsRaced ==
    ASSUME IInv, NEW p \in Party, NEW i \in DOMAIN inbox[p], NEW m, m = inbox[p][i],
           NEW msgs, msgs = Append(pending[p], m), ~ Ignored(p, m), Complete(p, msgs),
           NEW o \in handle_messages(p, msgs), o.phase = "failed"
    PROVE  Raced(msgs, duplicates, The.fails)
<1>1. PICK S : S = Sane(The.fails)
  OBVIOUS
<1>2. /\ Types /\ pending[p] \in Seq(S) /\ inbox[p] \in Seq(S) /\ Kept(p)
      /\ duplicates \in Nat /\ phase[p] \in Phases
  BY <1>1, Limits DEF IInv, Types
<1>3. m \in S /\ m \in ToSet(inbox[p]) /\ m.from # p /\ phase[p] \notin {"share", "failed"}
  BY <1>2, Elements DEF Ignored, is_finished
<1>4. /\ msgs \in Seq(S) /\ Len(msgs) = Len(pending[p]) + 1 /\ \A j \in DOMAIN pending[p] : msgs[j] = pending[p][j]
      /\ msgs[Len(pending[p]) + 1] = m /\ DOMAIN msgs = 1..Len(msgs) /\ DOMAIN pending[p] = 1..Len(pending[p])
      /\ Len(pending[p]) \in Nat
  BY <1>2, <1>3, Appended, Elements
<1>5. ASSUME duplicates = 0 PROVE Alone(msgs) /\ OnceOnly(p)
  <2>1. OnceOnly(p)
    BY <1>5 DEF IInv
  <2>2. m.body \in Rounds => m \notin ToSet(pending[p])
    BY <1>3, <2>1 DEF OnceOnly
  <2>3. Alone(Append(pending[p], m))
    BY <1>2, <1>3, <2>1, <2>2, AloneAppended DEF OnceOnly
  <2> QED BY <2>1, <2>3
<1>6. \/ phase[p] = "wait1" /\ ~ Accepts("Msg1", msgs)
      \/ phase[p] = "wait2" /\ ~ Accepts("Msg2", msgs)
      \/ phase[p] = "derivation" /\ (The.fails \/ \E n \in DOMAIN msgs : msgs[n].body \in Rounds \cup {"Abort"})
  BY <1>1, <1>2, <1>3, <1>4, Handled DEF Phases, FailedWith
<1>7. ASSUME NEW round \in Rounds, ~ Accepts(round, msgs), NEW own, OneOwn(p, own), own.body = round,
             ~ is_derivation(p)
      PROVE  Raced(msgs, duplicates, The.fails)
  <2>1. Len(msgs) = PARTICIPANTS
    BY <1>7 DEF Complete
  <2>2. PICK k \in DOMAIN pending[p] : pending[p][k] = own
    BY <1>7 DEF OneOwn
  <2>3. k \in DOMAIN msgs /\ msgs[k].body = round
    BY <1>4, <1>7, <2>2
  <2>4. Mixed(msgs) \/ Repeated(msgs, round)
    <3>1. msgs \in Seq(Sane(The.fails))
      BY <1>1, <1>4, Zenon
    <3>2. round \in Rounds /\ ~ Accepts(round, msgs)
      BY <1>7
    <3> QED BY <2>1, <2>3, <3>1, <3>2, Rejected, Zenon
  <2>5. CASE Mixed(msgs)
    BY <2>5 DEF Mixed, Raced
  <2>6. CASE Repeated(msgs, round)
    <3>1. PICK a \in DOMAIN msgs, b \in DOMAIN msgs : a # b /\ msgs[a] = msgs[b] /\ msgs[a].body = round
      BY <2>6, Zenon DEF Repeated
    <3>2. ~ Alone(msgs)
      BY <1>7, <3>1, Zenon DEF Alone
    <3>3. duplicates > 0
      BY <1>2, <1>5, <3>2
    <3> QED BY <3>1, <3>3, ZenonT(40) DEF Raced
  <2> QED BY <2>4, <2>5, <2>6
<1>8. CASE phase[p] = "wait1" /\ ~ Accepts("Msg1", msgs)
  <2>1. OneOwn(p, First(p)) /\ First(p).body = "Msg1" /\ "Msg1" \in Rounds /\ ~ is_derivation(p)
    BY <1>2, <1>8, SessionMessages DEF Kept, is_derivation
  <2> QED BY <1>7, <1>8, <2>1
<1>9. CASE phase[p] = "wait2" /\ ~ Accepts("Msg2", msgs)
  <2>1. OneOwn(p, Second(p)) /\ Second(p).body = "Msg2" /\ "Msg2" \in Rounds /\ ~ is_derivation(p)
    BY <1>2, <1>9, SessionMessages DEF Kept, is_derivation
  <2> QED BY <1>7, <1>9, <2>1
<1>10. CASE phase[p] = "derivation" /\ (The.fails \/ \E n \in DOMAIN msgs : msgs[n].body \in Rounds \cup {"Abort"})
  <2>1. pending[p] = <<>>
    BY <1>2, <1>10 DEF Kept
  <2>2. Len(msgs) = 1 /\ msgs[1] = m /\ DOMAIN msgs = {1}
    BY <1>4, <2>1
  <2>3. CASE m.body \in Rounds
    <3>1. m.from \in Party /\ (m = First(m.from) \/ m = Second(m.from))
      BY <1>1, <1>3, <2>3, OfRounds
    <3>2. duplicates > 0
      BY <1>2, <1>3, <1>5, <1>10, <3>1 DEF OnceOnly
    <3> QED BY <2>2, <2>3, <3>2 DEF Raced
  <2>4. CASE m.body \notin Rounds
    <3>1. m.body = "Abort" => The.fails
      BY <1>1, <1>3 DEF Sane
    <3>2. The.fails
      BY <1>10, <2>2, <2>4, <3>1
    <3> QED BY <2>2, <2>4, <3>2 DEF Raced
  <2> QED BY <2>3, <2>4
<1> QED BY <1>6, <1>8, <1>9, <1>10

\* What p's step leaves in the inboxes when it sent out, and when it did not.
Onward(p, boxes) ==
    \A q \in Party :
        /\ ToSet(inbox'[q]) \subseteq ToSet(boxes[q]) \cup {Second(p)}
        /\ Second(p) \notin ToSet(boxes[q]) /\ Alone(boxes[q]) => Alone(inbox'[q])

Silent(boxes) ==
    \A q \in Party :
        /\ \A m \in ToSet(inbox'[q]) : m.body \in Rounds => m \in ToSet(boxes[q])
        /\ Alone(boxes[q]) => Alone(inbox'[q])

Posts(out, boxes) == inbox' = SentTo(out, boxes)

\* The steps of a session that has a whole round, or a message of the derivation.
LEMMA Processed ==
    ASSUME Types, NEW p \in Party, NEW msgs \in Seq(Sane(The.fails)), phase[p] \notin {"share", "failed"},
           NEW boxes \in [Party -> Seq(Sane(The.fails))],
           NEW o \in handle_messages(p, msgs), Posts(o.out, boxes)
    PROVE  /\ inbox' \in [Party -> Seq(Sane(The.fails))]
           /\ o.drv \in [have : SUBSET (Party \X Body), made : Nat]
           /\ o.drv # Unstarted => o.phase \in {"derivation", "share"}
           /\ \/ /\ phase[p] = "wait1" /\ o.phase = "wait2" /\ Accepts("Msg1", msgs)
                 /\ retain_self_broadcasts(o.out) = <<Second(p)>> /\ Onward(p, boxes)
              \/ /\ \/ phase[p] = "init" /\ o.phase = "init"
                    \/ phase[p] = "wait2" /\ o.phase = "derivation" /\ Accepts("Msg2", msgs)
                    \/ phase[p] = "derivation" /\ o.phase \in {"derivation", "share"}
                    \/ phase[p] # "init" /\ o.phase = "failed"
                 /\ retain_self_broadcasts(o.out) = <<>> /\ Silent(boxes)
<1>1. PICK S : S = Sane(The.fails)
  OBVIOUS
<1>2. boxes \in [Party -> Seq(S)]
  BY <1>1
<1>3. PICK out : out = o.out
  OBVIOUS
<1>4. inbox' = SentTo(out, boxes)
  BY <1>3 DEF Posts
<1>5. ASSUME out = <<Second(p)>>
      PROVE  inbox' \in [Party -> Seq(S)] /\ retain_self_broadcasts(out) = <<Second(p)>> /\ Onward(p, boxes)
  <2>1. PICK x : x = Second(p)
    OBVIOUS
  <2>2. x \in S /\ <<x>> \in Seq(S) /\ ToSet(<<x>>) = {x}
    BY <1>1, <2>1, SessionMessages DEF ToSet
  <2>3. /\ inbox' \in [Party -> Seq(S)]
        /\ \A q \in Party : /\ ToSet(inbox'[q]) \subseteq ToSet(boxes[q]) \cup {x}
                            /\ inbox'[q] \in {boxes[q], Append(boxes[q], x)}
    <3>1. PICK new : new = SentTo(<<x>>, boxes)
      OBVIOUS
    <3>2. /\ new \in [Party -> Seq(S)]
          /\ \A q \in Party : ToSet(new[q]) \subseteq ToSet(boxes[q]) \cup ToSet(<<x>>)
      BY <1>2, <2>2, <3>1, Sent
    <3>3. \A q \in Party : new[q] \in {boxes[q], Append(boxes[q], x)}
      BY <1>2, <2>2, <3>1, SentOne
    <3>4. inbox' = new
      BY <1>4, <1>5, <2>1, <3>1
    <3> QED BY <2>2, <3>2, <3>3, <3>4
  <2>4. ASSUME NEW q \in Party, x \notin ToSet(boxes[q]), Alone(boxes[q]) PROVE Alone(inbox'[q])
    <3>1. boxes[q] \in Seq(S)
      BY <1>2
    <3>2. Alone(Append(boxes[q], x))
      BY <2>2, <2>4, <3>1, AloneAppended
    <3> QED BY <2>3, <2>4, <3>2
  <2>5. Onward(p, boxes)
    BY <2>1, <2>3, <2>4 DEF Onward
  <2> QED BY <1>5, <2>3, <2>5, Retained
<1>6. ASSUME out \in Seq(S), Quiet(out), retain_self_broadcasts(out) = <<>>
      PROVE  inbox' \in [Party -> Seq(S)] /\ Silent(boxes)
  <2>1. /\ inbox' \in [Party -> Seq(S)]
        /\ \A q \in Party : /\ ToSet(inbox'[q]) \subseteq ToSet(boxes[q]) \cup ToSet(out)
                            /\ Alone(boxes[q]) => Alone(inbox'[q])
    <3>1. PICK new : new = SentTo(out, boxes)
      OBVIOUS
    <3>2. /\ new \in [Party -> Seq(S)]
          /\ \A q \in Party : /\ ToSet(new[q]) \subseteq ToSet(boxes[q]) \cup ToSet(out)
                              /\ Quiet(out) /\ Alone(boxes[q]) => Alone(new[q])
      BY <1>2, <1>6, <3>1, Sent
    <3>3. inbox' = new
      BY <1>4, <3>1
    <3> QED BY <1>6, <3>2, <3>3
  <2>2. \A m \in ToSet(out) : m.body \notin Rounds
    BY <1>6 DEF Quiet, ToSet
  <2> QED BY <2>1, <2>2 DEF Silent
<1>7. ASSUME out = <<>> PROVE out \in Seq(S) /\ Quiet(out) /\ retain_self_broadcasts(out) = <<>>
  BY <1>7, Retained, EmptySeq DEF Quiet
<1>8. ASSUME out \in Seq(DerivationMessages(p))
      PROVE  out \in Seq(S) /\ Quiet(out) /\ retain_self_broadcasts(out) = <<>>
  <2>1. DerivationMessages(p) \subseteq S /\ \A m \in DerivationMessages(p) : m.body \notin Rounds
    BY <1>1, OfDerivations
  <2>2. out \in Seq(S)
    BY <1>8, <2>1, SeqMonotonic
  <2>3. \A i \in DOMAIN out : out[i] \in DerivationMessages(p)
    BY <1>8, Elements
  <2> QED BY <1>8, <2>1, <2>2, <2>3, Retained DEF Quiet
<1>9. phase[p] \in {"init", "wait1", "wait2", "derivation"}
  BY DEF Types, Phases
<1>10. PICK ph, d : ph = o.phase /\ d = o.drv
  OBVIOUS
<1>11. /\ d \in [have : SUBSET (Party \X Body), made : Nat]
       /\ phase[p] = "init" => ph = "init" /\ d = Unstarted /\ out = <<>>
       /\ phase[p] = "wait1" =>
            \/ ph = "failed" /\ d = Unstarted /\ out = <<>>
            \/ ph = "wait2" /\ d = Unstarted /\ out = <<Second(p)>> /\ Accepts("Msg1", msgs)
       /\ phase[p] = "wait2" =>
            \/ ph = "failed" /\ d = Unstarted /\ out = <<>>
            \/ ph = "derivation" /\ out \in Seq(DerivationMessages(p)) /\ Accepts("Msg2", msgs)
       /\ phase[p] = "derivation" =>
            \/ ph = "failed" /\ d = Unstarted /\ out = <<>>
            \/ ph \in {"derivation", "share"} /\ out \in Seq(DerivationMessages(p))
  BY <1>3, <1>10, Handled DEF FailedWith
<1>12. CASE out = <<Second(p)>> /\ phase[p] = "wait1" /\ ph = "wait2"
  BY <1>1, <1>3, <1>5, <1>10, <1>11, <1>12
<1>13. CASE ~ (phase[p] = "wait1" /\ ph = "wait2")
  <2>1. out = <<>> \/ out \in Seq(DerivationMessages(p))
    BY <1>9, <1>11, <1>13
  <2>2. inbox' \in [Party -> Seq(S)] /\ Silent(boxes) /\ retain_self_broadcasts(out) = <<>>
    BY <1>6, <1>7, <1>8, <2>1
  <2> QED BY <1>1, <1>3, <1>9, <1>10, <1>11, <1>13, <2>2
<1> QED BY <1>9, <1>11, <1>12, <1>13

LEMMA ProcessStep ==
    ASSUME IInv, NEW p \in Party, NEW i \in DOMAIN inbox[p], Process(p, i)
    PROVE  IInv'
<1>1. PICK S : S = Sane(The.fails)
  OBVIOUS
<1>2. PICK m : m = inbox[p][i]
  OBVIOUS
<1>3. PICK msgs : msgs = Append(pending[p], m)
  OBVIOUS
<1>4. ~ Ignored(p, m) /\ Complete(p, msgs) /\ UNCHANGED <<setting, told>> /\ The' = The
  BY <1>2, <1>3 DEF Process, The
<1>5. PICK o \in handle_messages(p, msgs) :
        /\ phase' = [phase EXCEPT ![p] = o.phase]
        /\ drv' = [drv EXCEPT ![p] = o.drv]
        /\ pending' = [pending EXCEPT ![p] = retain_self_broadcasts(o.out)]
        /\ refused' = [refused EXCEPT ![p] = IF o.phase = "failed" THEN msgs ELSE <<>>]
        /\ \E boxes : Leaves(p, i, boxes) /\ inbox' = SentTo(o.out, boxes)
  BY <1>2, <1>3 DEF Process, Leaves
<1>6. PICK boxes : Leaves(p, i, boxes) /\ inbox' = SentTo(o.out, boxes)
  BY <1>5
<1>7. /\ Types /\ phase \in [Party -> Phases] /\ pending \in [Party -> Seq(S)] /\ inbox \in [Party -> Seq(S)]
      /\ drv \in [Party -> [have : SUBSET (Party \X Body), made : Nat]] /\ refused \in [Party -> Seq(S)]
      /\ Known /\ Passed /\ duplicates \in 0..The.duplicates /\ The.duplicates \in Nat /\ Kept(p)
  BY <1>1, Limits DEF IInv, Types
<1>8. /\ boxes \in [Party -> Seq(Sane(The.fails))]
      /\ duplicates' \in 0..The.duplicates /\ (duplicates > 0 => duplicates' > 0)
      /\ \A q \in Party : ToSet(boxes[q]) \subseteq ToSet(inbox[q])
      /\ \A q \in Party : Alone(inbox[q]) => Alone(boxes[q])
      /\ duplicates' = 0 /\ Alone(inbox[p]) /\ m.body \in Rounds => m \notin ToSet(boxes[p])
  BY <1>2, <1>6, <1>7, TakenWhat
<1>9. m \in S /\ m \in ToSet(inbox[p]) /\ m.from # p /\ phase[p] \notin {"share", "failed"}
  BY <1>2, <1>4, <1>7, Elements DEF Ignored, is_finished
<1>10. msgs \in Seq(S) /\ ToSet(msgs) = ToSet(pending[p]) \cup {m}
  BY <1>3, <1>7, <1>9, Appended
<1>11. PICK ph, d, kept : ph = o.phase /\ d = o.drv /\ kept = retain_self_broadcasts(o.out)
  OBVIOUS
<1>12. /\ inbox' \in [Party -> Seq(S)]
       /\ d \in [have : SUBSET (Party \X Body), made : Nat]
       /\ d # Unstarted => ph \in {"derivation", "share"}
       /\ \/ /\ phase[p] = "wait1" /\ ph = "wait2" /\ Accepts("Msg1", msgs)
             /\ kept = <<Second(p)>> /\ Onward(p, boxes)
          \/ /\ \/ phase[p] = "init" /\ ph = "init"
                \/ phase[p] = "wait2" /\ ph = "derivation" /\ Accepts("Msg2", msgs)
                \/ phase[p] = "derivation" /\ ph \in {"derivation", "share"}
                \/ phase[p] # "init" /\ ph = "failed"
             /\ kept = <<>> /\ Silent(boxes)
  <2>1. msgs \in Seq(Sane(The.fails))
    BY <1>1, <1>10
  <2>2. Posts(o.out, boxes)
    BY <1>6 DEF Posts
  <2>3. boxes \in [Party -> Seq(Sane(The.fails))] /\ Types /\ phase[p] \notin {"share", "failed"}
    BY <1>7, <1>8, <1>9
  <2> QED BY <1>1, <1>11, <2>1, <2>2, <2>3, Processed
<1>13. /\ phase' \in [Party -> Phases] /\ phase'[p] = ph /\ \A q \in Party : q # p => phase'[q] = phase[q]
       /\ drv'[p] = d /\ pending'[p] = kept
       /\ \A q \in Party : q # p => drv'[q] = drv[q] /\ pending'[q] = pending[q] /\ refused'[q] = refused[q]
       /\ ph = "failed" => refused'[p] = msgs
  <2>1. ph \in Phases
    BY <1>12 DEF Phases
  <2> QED BY <1>5, <1>7, <1>11, <2>1
<1>14. kept \in Seq(S) /\ (kept = <<>> => ToSet(kept) = {}) /\ (kept = <<Second(p)>> => ToSet(kept) = {Second(p)})
  <2>1. CASE kept = <<>>
    BY <1>12, <2>1 DEF ToSet
  <2>2. CASE kept = <<Second(p)>>
    <3>1. PICK x : x = Second(p)
      OBVIOUS
    <3>2. x \in S
      BY <1>1, <3>1, SessionMessages
    <3>3. kept = <<x>> /\ kept # <<>>
      BY <2>2, <3>1
    <3> QED BY <3>1, <3>2, <3>3 DEF ToSet
  <2> QED BY <1>12, <2>1, <2>2
<1>15. Types'
  <2>1. pending' \in [Party -> Seq(S)]
    BY <1>5, <1>7, <1>11, <1>14
  <2>2. drv' \in [Party -> [have : SUBSET (Party \X Body), made : Nat]]
    <3>1. PICK D : D = [have : SUBSET (Party \X Body), made : Nat]
      OBVIOUS
    <3>2. drv \in [Party -> D] /\ d \in D /\ drv' = [drv EXCEPT ![p] = d]
      BY <1>5, <1>7, <1>11, <1>12, <3>1
    <3> QED BY <3>1, <3>2
  <2>3. refused' \in [Party -> Seq(S)]
    <3>1. <<>> \in Seq(S)
      BY EmptySeq
    <3>2. (IF o.phase = "failed" THEN msgs ELSE <<>>) \in Seq(S)
      BY <1>10, <3>1
    <3> QED BY <1>5, <1>7, <3>2
  <2>4. The' = The /\ setting' = setting
    BY <1>4
  <2> QED BY <1>1, <1>7, <1>8, <1>12, <1>13, <2>1, <2>2, <2>3, <2>4 DEF Types
<1>16. ASSUME NEW q \in Party PROVE Kept(q)'
  <2>1. CASE q # p
    <3>1. phase'[q] = phase[q] /\ pending'[q] = pending[q] /\ drv'[q] = drv[q] /\ Kept(q)
      BY <1>13, <2>1 DEF IInv
    <3> QED BY <1>4, <3>1, KeptOn
  <2>2. CASE q = p /\ kept = <<>> /\ ph \in {"init", "derivation", "share", "failed"}
    <3>1. pending'[p] = <<>> /\ DOMAIN pending'[p] = {} /\ phase'[p] = ph
      BY <1>13, <2>2
    <3> QED BY <1>12, <1>13, <2>2, <3>1 DEF Kept
  <2>3. CASE q = p /\ kept = <<Second(p)>> /\ ph = "wait2"
    <3>1. PICK x : x = Second(p)
      OBVIOUS
    <3>2. pending'[p] = <<x>> /\ Len(pending'[p]) = 1 /\ DOMAIN pending'[p] = {1} /\ pending'[p][1] = x
      BY <1>13, <2>3, <3>1
    <3>3. OneOwn(p, Second(p))'
      <4>1. Second(p)' = x
        BY <3>1 DEF Second, Message
      <4> QED BY <3>2, <4>1 DEF OneOwn
    <3>4. drv'[p] = Unstarted /\ phase'[p] = "wait2"
      BY <1>12, <1>13, <2>3
    <3> QED BY <2>3, <3>2, <3>3, <3>4 DEF Kept, PARTICIPANTS
  <2> QED BY <1>12, <2>1, <2>2, <2>3
\* Who has sent what when p passes a round.
<1>17. ASSUME NEW q \in Party
       PROVE  /\ Accepts("Msg1", msgs) => First(q) \in ToSet(msgs) /\ phase[q] # "init"
              /\ Accepts("Msg2", msgs) => Second(q) \in ToSet(msgs) /\ phase[q] \notin {"init", "wait1"}
  <2>1. /\ Accepts("Msg1", msgs) => First(q) \in ToSet(msgs)
        /\ Accepts("Msg2", msgs) => Second(q) \in ToSet(msgs)
    BY <1>1, <1>10, Accepted
  <2>2. ToSet(msgs) \subseteq ToSet(inbox[p]) \cup ToSet(pending[p])
    BY <1>9, <1>10
  <2> QED BY <1>7, <2>1, <2>2 DEF Known
<1>18. Known'
  <2> SUFFICES ASSUME NEW q \in Party, NEW r \in Party
               PROVE  /\ First(r) \in ToSet(inbox'[q]) \cup ToSet(pending'[q]) => phase'[r] # "init"
                      /\ Second(r) \in ToSet(inbox'[q]) \cup ToSet(pending'[q]) => phase'[r] \notin {"init", "wait1"}
    BY DEF Known, First, Second, Message
  <2>1. /\ First(r) \in ToSet(inbox[q]) \cup ToSet(pending[q]) => phase[r] # "init"
        /\ Second(r) \in ToSet(inbox[q]) \cup ToSet(pending[q]) => phase[r] \notin {"init", "wait1"}
    BY <1>7 DEF Known
  <2>2. (phase[r] # "init" => phase'[r] # "init") /\ (phase[r] \notin {"init", "wait1"} => phase'[r] \notin {"init", "wait1"})
    BY <1>12, <1>13
  <2>3. First(r).body \in Rounds /\ Second(r).body \in Rounds /\ First(r) # Second(p) /\ (Second(r) = Second(p) => r = p)
    BY SessionMessages
  <2>4. CASE ph = "wait2" /\ Onward(p, boxes) /\ kept = <<Second(p)>>
    <3>1. ToSet(inbox'[q]) \cup ToSet(pending'[q]) \subseteq ToSet(inbox[q]) \cup ToSet(pending[q]) \cup {Second(p)}
      BY <1>8, <1>13, <1>14, <2>4 DEF Onward
    <3> QED BY <1>13, <2>1, <2>2, <2>3, <2>4, <3>1
  <2>5. CASE Silent(boxes) /\ kept = <<>>
    <3>1. /\ First(r) \in ToSet(inbox'[q]) \cup ToSet(pending'[q]) => First(r) \in ToSet(inbox[q]) \cup ToSet(pending[q])
          /\ Second(r) \in ToSet(inbox'[q]) \cup ToSet(pending'[q]) => Second(r) \in ToSet(inbox[q]) \cup ToSet(pending[q])
      BY <1>8, <1>13, <1>14, <2>3, <2>5 DEF Silent
    <3> QED BY <2>1, <2>2, <3>1
  <2> QED BY <1>12, <2>4, <2>5
<1>19. Passed'
  <2> SUFFICES ASSUME NEW q \in Party, NEW r \in Party
               PROVE  /\ phase'[q] \in {"wait2", "derivation"} => phase'[r] # "init"
                      /\ phase'[q] = "derivation" => phase'[r] # "wait1"
    BY DEF Passed
  <2>1. (phase[r] # "init" => phase'[r] # "init") /\ (phase[r] \notin {"init", "wait1"} => phase'[r] # "wait1")
    BY <1>12, <1>13
  <2>2. CASE q # p
    BY <1>7, <1>13, <2>1, <2>2 DEF Passed
  <2>3. CASE q = p
    BY <1>7, <1>12, <1>13, <1>17, <2>1, <2>3 DEF Passed
  <2> QED BY <2>2, <2>3
<1>20. ASSUME duplicates' = 0, NEW q \in Party PROVE OnceOnly(q)'
  <2>1. OnceOnly(q) /\ OnceOnly(p)
    BY <1>7, <1>8, <1>20 DEF IInv
  <2>2. \A r \in Party : First(r).body \in Rounds /\ Second(r).body \in Rounds /\ First(r) # Second(p)
                         /\ First(r).from = r /\ Second(r).from = r /\ (Second(r) = Second(p) => r = p)
    BY SessionMessages
  <2>3. Second(p) \notin ToSet(inbox[q]) \/ phase[p] # "wait1"
    BY <1>7 DEF Known
  <2>4. Alone(boxes[q]) /\ ToSet(boxes[q]) \subseteq ToSet(inbox[q])
    BY <1>8, <2>1 DEF OnceOnly
  \* The messages of a round p takes are not in transit to it any more.
  <2>5. ASSUME NEW x \in ToSet(msgs), x.body \in Rounds, x.from # p PROVE x \notin ToSet(boxes[p])
    <3>1. CASE x = m
      <4>1. Alone(inbox[p])
        BY <2>1 DEF OnceOnly
      <4> QED BY <1>8, <1>20, <2>5, <3>1, <4>1
    <3>2. CASE x \in ToSet(pending[p])
      BY <1>8, <2>1, <2>5, <3>2 DEF OnceOnly
    <3> QED BY <1>10, <3>1, <3>2
  <2>6. CASE phase[p] = "wait1" /\ ph = "wait2" /\ Accepts("Msg1", msgs) /\ kept = <<Second(p)>> /\ Onward(p, boxes)
    <3>1. Alone(inbox'[q])
      BY <2>3, <2>4, <2>6 DEF Onward
    <3>2. Alone(pending'[q])
      <4>1. CASE q # p
        BY <1>13, <2>1, <4>1 DEF OnceOnly
      <4>2. CASE q = p
        <5>1. PICK x : x = Second(p)
          OBVIOUS
        <5>2. pending'[q] = <<x>> /\ DOMAIN pending'[q] = {1}
          BY <1>13, <2>6, <4>2, <5>1
        <5> QED BY <5>2 DEF Alone
      <4> QED BY <4>1, <4>2
    <3>3. ToSet(inbox'[q]) \subseteq ToSet(inbox[q]) \cup {Second(p)}
      BY <2>4, <2>6 DEF Onward
    <3>4. \A n \in ToSet(inbox'[q]) \cap ToSet(pending'[q]) : n.body \in Rounds => n.from = q
      <4>1. CASE q # p
        <5>1. Second(p) \notin ToSet(pending[q])
          BY <1>7, <2>6 DEF Known
        <5> QED BY <1>13, <2>1, <3>3, <4>1, <5>1 DEF OnceOnly
      <4>2. CASE q = p
        BY <1>13, <1>14, <2>2, <2>6, <4>2
      <4> QED BY <4>1, <4>2
    <3>5. ASSUME phase'[q] \in {"wait2", "derivation"}, NEW r \in Party \ {q}
          PROVE  First(r) \notin ToSet(inbox'[q]) \cup ToSet(pending'[q])
      <4>1. CASE q # p
        BY <1>13, <2>1, <2>2, <3>3, <3>5, <4>1 DEF OnceOnly
      <4>2. CASE q = p
        <5>1. First(r) \notin ToSet(boxes[p])
          BY <1>17, <2>2, <2>5, <2>6, <4>2
        <5>2. First(r) \notin ToSet(inbox'[p])
          BY <2>2, <2>6, <5>1 DEF Onward
        <5> QED BY <1>13, <1>14, <2>2, <2>6, <4>2, <5>2
      <4> QED BY <4>1, <4>2
    <3>6. ASSUME phase'[q] = "derivation", NEW r \in Party \ {q} PROVE Second(r) \notin ToSet(inbox'[q])
      <4>1. q # p /\ phase[q] = "derivation"
        BY <1>13, <2>6, <3>6
      <4>2. phase[p] # "wait1"
        BY <1>7, <4>1 DEF Passed
      <4> QED BY <2>6, <4>2
    <3> QED BY <3>1, <3>2, <3>4, <3>5, <3>6 DEF OnceOnly, Alone, First, Second, Message
  <2>7. CASE /\ ph # "wait2" /\ kept = <<>> /\ Silent(boxes)
             /\ \/ phase[p] = "init" /\ ph = "init"
                \/ phase[p] = "wait2" /\ ph = "derivation" /\ Accepts("Msg2", msgs)
                \/ phase[p] = "derivation" /\ ph \in {"derivation", "share"}
                \/ phase[p] # "init" /\ ph = "failed"
    <3>1. Alone(inbox'[q])
      BY <2>4, <2>7 DEF Silent
    <3>2. Alone(pending'[q])
      <4>1. CASE q # p
        BY <1>13, <2>1, <4>1 DEF OnceOnly
      <4>2. CASE q = p
        <5>1. DOMAIN pending'[q] = {}
          BY <1>13, <2>7, <4>2
        <5> QED BY <5>1 DEF Alone
      <4> QED BY <4>1, <4>2
    <3>3. \A n \in ToSet(inbox'[q]) : n.body \in Rounds => n \in ToSet(boxes[q]) /\ n \in ToSet(inbox[q])
      BY <2>4, <2>7 DEF Silent
    <3>4. ToSet(pending'[q]) \subseteq ToSet(pending[q])
      BY <1>13, <1>14, <2>7
    <3>5. \A n \in ToSet(inbox'[q]) \cap ToSet(pending'[q]) : n.body \in Rounds => n.from = q
      BY <2>1, <3>3, <3>4 DEF OnceOnly
    <3>6. ASSUME phase'[q] \in {"wait2", "derivation"}, NEW r \in Party \ {q}
          PROVE  First(r) \notin ToSet(inbox'[q]) \cup ToSet(pending'[q])
      <4>1. phase[q] \in {"wait2", "derivation"}
        BY <1>13, <2>7, <3>6
      <4> QED BY <2>1, <2>2, <3>3, <3>4, <4>1 DEF OnceOnly
    <3>7. ASSUME phase'[q] = "derivation", NEW r \in Party \ {q} PROVE Second(r) \notin ToSet(inbox'[q])
      <4>1. CASE phase[q] = "derivation"
        BY <2>1, <2>2, <3>3, <4>1 DEF OnceOnly
      <4>2. CASE phase[q] # "derivation"
        <5>1. q = p /\ Accepts("Msg2", msgs)
          BY <1>13, <2>7, <3>7, <4>2
        <5>2. Second(r) \notin ToSet(boxes[p])
          BY <1>17, <2>2, <2>5, <5>1
        <5> QED BY <2>2, <3>3, <5>1, <5>2
      <4> QED BY <4>1, <4>2
    <3> QED BY <3>1, <3>2, <3>5, <3>6, <3>7 DEF OnceOnly, Alone, First, Second, Message
  <2> QED BY <1>12, <2>6, <2>7
<1>21. FailsOnlyOfRaces'
  <2>1. \A q \in Party : phase[q] = "failed" => Raced(refused[q], duplicates, The.fails)
    BY RacedIs DEF IInv
  <2>2. ASSUME NEW q \in Party, phase'[q] = "failed" PROVE Raced(refused'[q], duplicates', The'.fails)
    <3>1. CASE q # p
      <4>1. Raced(refused'[q], duplicates, The.fails)
        BY <1>13, <2>1, <2>2, <3>1
      <4> QED BY <1>4, <1>8, <4>1 DEF Raced
    <3>2. CASE q = p
      <4>1. refused'[q] = msgs /\ o.phase = "failed"
        BY <1>11, <1>13, <2>2, <3>2
      <4>2. Raced(msgs, duplicates, The.fails)
        BY <1>2, <1>3, <1>4, <4>1, FailsRaced
      <4>3. Raced(msgs, duplicates', The.fails)
        BY <1>8, <4>2 DEF Raced
      <4> QED BY <1>4, <4>1, <4>3
    <3> QED BY <3>1, <3>2
  <2> QED BY <2>2 DEF FailsOnlyOfRaces, Raced
<1> QED BY <1>15, <1>16, <1>18, <1>19, <1>20, <1>21 DEF IInv

LEMMA StutterStep == ASSUME IInv, UNCHANGED vars PROVE IInv'
<1>1. PICK S : S = Sane(The.fails)
  OBVIOUS
<1>2. /\ UNCHANGED <<setting, phase, pending, drv, refused>>
      /\ inbox' \in [Party -> Seq(S)] /\ duplicates' \in 0..The.duplicates /\ (duplicates > 0 => duplicates' > 0)
      /\ inbox' = inbox /\ duplicates' = duplicates
  BY <1>1 DEF vars, IInv, Types
<1> QED BY <1>1, <1>2, InboxStep

LEMMA Step == IInv /\ [Next]_vars => IInv'
<1> SUFFICES ASSUME IInv, [Next]_vars PROVE IInv'
  OBVIOUS
<1>1. ASSUME NEW p \in Party, recv_message(p) PROVE IInv'
  <2>1. PICK i \in DOMAIN inbox[p] : Ignore(p, i) \/ Collect(p, i) \/ Process(p, i)
    BY <1>1 DEF recv_message, Deliverable
  <2>2. The.early \/ \A q \in Party : phase[q] # "init"
    BY <1>1 DEF recv_message
  <2> QED BY <2>1, <2>2, IgnoreStep, CollectStep, ProcessStep
<1> QED BY <1>1, CreateStep, AbortStep, StutterStep DEF Next

LEMMA Ended ==
    ASSUME IInv, [Next]_vars, NEW p \in Party, is_finished(p)
    PROVE  phase'[p] = phase[p] /\ pending'[p] = pending[p]
<1>1. phase \in [Party -> Phases] /\ DOMAIN pending = Party /\ phase[p] \in {"share", "failed"}
  BY DEF IInv, Types, is_finished
<1>2. ASSUME NEW q \in Party, create_first_message(q) PROVE phase'[p] = phase[p] /\ pending'[p] = pending[p]
  BY <1>1, <1>2 DEF create_first_message
<1>3. ASSUME NEW q \in Party, NEW i \in DOMAIN inbox[q], Ignore(q, i) \/ Collect(q, i) \/ Process(q, i)
      PROVE  phase'[p] = phase[p] /\ pending'[p] = pending[p]
  <2>1. CASE Ignore(q, i)
    BY <2>1 DEF Ignore
  <2>2. CASE Collect(q, i)
    <3>1. q # p
      BY <2>2 DEF Collect, Ignored
    <3> QED BY <1>1, <2>2, <3>1 DEF Collect
  <2>3. CASE Process(q, i)
    <3>1. q # p
      BY <2>3 DEF Process, Ignored
    <3>2. PICK ph, kept : phase' = [phase EXCEPT ![q] = ph] /\ pending' = [pending EXCEPT ![q] = kept]
      BY <2>3, Zenon DEF Process
    <3> QED BY <1>1, <3>1, <3>2
  <2> QED BY <1>3, <2>1, <2>2, <2>3
<1>4. ASSUME NEW q \in Party, Abort(q) PROVE phase'[p] = phase[p] /\ pending'[p] = pending[p]
  BY <1>4 DEF Abort
<1>5. CASE UNCHANGED vars
  BY <1>5 DEF vars
<1> QED BY <1>2, <1>3, <1>4, <1>5 DEF Next, recv_message, Deliverable

LEMMA Always == Spec => []IInv
  BY Start, Step, PTL DEF Spec

-----------------------------------------------------------------------------
(***************************************************************************)
(* Nobody is forgotten: what was sent to a session is in transit to it or  *)
(* with it.                                                                *)
(***************************************************************************)

\* A selection of s has what s holds at its places, and a flattened sequence
\* what the sequences in it hold.
LEMMA PickedHolds ==
    ASSUME NEW S, NEW s \in Seq(S), NEW places, NEW i \in DOMAIN s, i \in places
    PROVE  s[i] \in ToSet(Picked(s, places))
<1>1. Len(s) \in Nat /\ DOMAIN s = 1..Len(s) /\ i \in 1..Len(s) /\ \A k \in 1..Len(s) : s[k] \in S
  BY Elements
<1>2. PICK f : IsKept(f, s, places, Len(s)) /\ Picked(s, places) = f[Len(s)]
  BY <1>1, PickedIsKept
<1>3. ASSUME NEW k \in 1..Len(s) PROVE f[k] = IF k \in places THEN Append(f[k - 1], s[k]) ELSE f[k - 1]
  <2>1. k \in 0..Len(s) /\ k # 0
    BY <1>1
  <2> QED BY <1>2, <2>1 DEF IsKept
<1> DEFINE T == {k \in Nat : k <= Len(s) => f[k] \in Seq(S) /\ (i <= k => s[i] \in ToSet(f[k]))}
<1>4. 0 \in T
  <2>1. 0 \in 0..Len(s)
    BY <1>1
  <2>2. f[0] = <<>>
    BY <1>2, <2>1 DEF IsKept
  <2>3. ~ (i <= 0) /\ 0 \in Nat
    BY <1>1
  <2>4. f[0] \in Seq(S)
    BY <2>2, EmptySeq
  <2> QED BY <2>3, <2>4
<1>5. ASSUME NEW k \in Nat, k \in T PROVE k + 1 \in T
  <2>1. SUFFICES ASSUME k + 1 <= Len(s) PROVE f[k + 1] \in Seq(S) /\ (i <= k + 1 => s[i] \in ToSet(f[k + 1]))
    OBVIOUS
  <2>2. k + 1 \in 1..Len(s) /\ (k + 1) - 1 = k /\ f[k] \in Seq(S) /\ (i <= k => s[i] \in ToSet(f[k]))
        /\ (i <= k + 1 => i <= k \/ i = k + 1)
    BY <1>1, <1>5, <2>1
  <2>3. f[k + 1] = IF k + 1 \in places THEN Append(f[k], s[k + 1]) ELSE f[k]
    BY <1>3, <2>2
  <2>4. Append(f[k], s[k + 1]) \in Seq(S) /\ ToSet(Append(f[k], s[k + 1])) = ToSet(f[k]) \cup {s[k + 1]}
    BY <1>1, <2>2, Appended
  <2> QED BY <2>2, <2>3, <2>4
<1>6. Len(s) \in T
  <2> HIDE DEF T
  <2> QED BY <1>1, <1>4, <1>5, NatSet
<1> QED BY <1>1, <1>2, <1>6

LEMMA FlattenHolds ==
    ASSUME NEW S, NEW s, s \in Seq(Seq(S)), NEW i \in DOMAIN s
    PROVE  ToSet(s[i]) \subseteq ToSet(FlattenSeq(s))
<1>1. Len(s) \in Nat /\ DOMAIN s = 1..Len(s) /\ i \in 1..Len(s) /\ \A k \in 1..Len(s) : s[k] \in Seq(S)
  BY LenProperties, ElementOfSeq
<1>2. Len(s) # 0 /\ s # <<>>
  BY <1>1
<1>3. \E f : f = [k \in 1..Len(s) |-> IF k = 1 THEN s[k] ELSE f[k - 1] \o s[k]]
  <2>1. \E f : IsFlat(f, s, Len(s))
    BY <1>1, FlatExists
  <2> QED BY <2>1, Zenon DEF IsFlat
<1> DEFINE flat == CHOOSE f : f = [k \in 1..Len(s) |-> IF k = 1 THEN s[k] ELSE f[k - 1] \o s[k]]
<1>4. IsFlat(flat, s, Len(s))
  BY <1>3, Zenon DEF IsFlat
<1>5. FlattenSeq(s) = flat[Len(s)]
  BY <1>2, Zenon DEF FlattenSeq
<1> HIDE DEF flat
<1>6. PICK f : f = flat
  OBVIOUS
<1>7. \A k \in 1..Len(s) : f[k] = IF k = 1 THEN s[k] ELSE f[k - 1] \o s[k]
  BY <1>4, <1>6, Zenon DEF IsFlat
<1> DEFINE T == {k \in Nat : k + 1 <= Len(s) =>
                   f[k + 1] \in Seq(S) /\ (i <= k + 1 => ToSet(s[i]) \subseteq ToSet(f[k + 1]))}
<1>8. 0 \in T
  <2>1. 1 \in 1..Len(s) /\ (i <= 0 + 1 => i = 1) /\ 0 + 1 = 1
    BY <1>1, <1>2
  <2>2. f[1] = s[1]
    BY <1>7, <2>1, Zenon
  <2> QED BY <1>1, <2>1, <2>2
<1>9. ASSUME NEW k \in Nat, k \in T PROVE k + 1 \in T
  <2>1. SUFFICES ASSUME (k + 1) + 1 <= Len(s)
                 PROVE  f[(k + 1) + 1] \in Seq(S) /\ (i <= (k + 1) + 1 => ToSet(s[i]) \subseteq ToSet(f[(k + 1) + 1]))
    OBVIOUS
  <2>2. PICK n : n = (k + 1) + 1
    OBVIOUS
  <2>3. n \in 1..Len(s) /\ n # 1 /\ n - 1 = k + 1 /\ (i <= n => i <= k + 1 \/ i = n)
        /\ f[k + 1] \in Seq(S) /\ (i <= k + 1 => ToSet(s[i]) \subseteq ToSet(f[k + 1]))
    BY <1>1, <1>9, <2>1, <2>2
  <2>4. f[n] = f[k + 1] \o s[n]
    BY <1>7, <2>3, Zenon
  <2>5. f[k + 1] \o s[n] \in Seq(S) /\ ToSet(f[k + 1] \o s[n]) = ToSet(f[k + 1]) \cup ToSet(s[n])
    BY <1>1, <2>3, Joined
  <2>6. f[n] \in Seq(S) /\ (i <= n => ToSet(s[i]) \subseteq ToSet(f[n]))
    BY <2>3, <2>4, <2>5, Zenon
  <2> QED BY <2>2, <2>6, Zenon
<1>10. Len(s) - 1 \in T
  <2>1. Len(s) - 1 \in Nat
    BY <1>1, <1>2
  <2> HIDE DEF T
  <2> QED BY <1>8, <1>9, <2>1, NatSet
<1>11. (Len(s) - 1) + 1 = Len(s) /\ i <= Len(s) /\ Len(s) <= Len(s)
  BY <1>1
<1>12. ToSet(s[i]) \subseteq ToSet(f[Len(s)])
  BY <1>10, <1>11
<1> QED BY <1>5, <1>6, <1>12, Zenon

\* What a host sends is in transit to whom it reaches, and nothing is lost.
LEMMA SentHolds ==
    ASSUME NEW S, NEW out \in Seq(S), NEW boxes \in [Party -> Seq(S)], NEW q \in Party
    PROVE  /\ ToSet(boxes[q]) \subseteq ToSet(SentTo(out, boxes)[q])
           /\ \A k \in DOMAIN out : Reaches(out[k], q) => out[k] \in ToSet(SentTo(out, boxes)[q])
<1>1. PICK places : places = {i \in DOMAIN out : Reaches(out[i], q)}
  OBVIOUS
<1>2. PICK t : t = Picked(out, places)
  OBVIOUS
<1>3. SentTo(out, boxes)[q] = boxes[q] \o t
  BY <1>1, <1>2, Zenon DEF SentTo
<1>4. PICK W : W = {out[i] : i \in places \cap DOMAIN out}
  OBVIOUS
<1>5. t \in Seq(W)
  BY <1>2, <1>4, PickedIn
<1>6. W \subseteq S
  BY <1>4, Elements
<1>7. t \in Seq(S) /\ boxes[q] \in Seq(S)
  BY <1>5, <1>6, SeqMonotonic
<1>8. ToSet(boxes[q] \o t) = ToSet(boxes[q]) \cup ToSet(t)
  BY <1>7, Joined
<1>9. \A k \in DOMAIN out : Reaches(out[k], q) => out[k] \in ToSet(t)
  BY <1>1, <1>2, PickedHolds
<1> QED BY <1>3, <1>8, <1>9

\* A taken message is the only one its inbox loses.
LEMMA RemovedLeaves ==
    ASSUME NEW S, NEW s \in Seq(S), NEW i \in DOMAIN s
    PROVE  \A x \in ToSet(s) : x # s[i] => x \in ToSet(RemoveAt(s, i))
<1>1. PICK r : r = RemoveAt(s, i)
  OBVIOUS
<1>2. /\ r \in Seq(S)
      /\ \A k \in DOMAIN r : LET o == IF k < i THEN k ELSE k + 1 IN o \in DOMAIN s /\ r[k] = s[o]
  BY <1>1, Removed
<1>3. Len(s) \in Nat /\ DOMAIN s = 1..Len(s) /\ i \in 1..Len(s)
  BY Elements
<1>4. DOMAIN r = 1..(Len(s) - 1)
  <2>1. PICK a : a = SubSeq(s, 1, i - 1)
    OBVIOUS
  <2>2. PICK b : b = SubSeq(s, i + 1, Len(s))
    OBVIOUS
  <2>3. \A k \in 1..Len(s) : s[k] \in S
    BY <1>3, Elements
  <2>4. a \in Seq(S) /\ Len(a) = i - 1
    <3>1. \A k \in 1..(i - 1) : s[k] \in S
      BY <1>3, <2>3
    <3>2. 1 \in Int /\ i - 1 \in Int
      BY <1>3
    <3>3. a \in Seq(S) /\ Len(a) = IF 1 <= i - 1 THEN (i - 1) - 1 + 1 ELSE 0
      BY <2>1, <3>1, <3>2, SubSeqProperties
    <3> QED BY <1>3, <3>3
  <2>5. b \in Seq(S) /\ Len(b) = Len(s) - i
    <3>1. \A k \in (i + 1)..Len(s) : s[k] \in S
      BY <1>3, <2>3
    <3>2. i + 1 \in Int /\ Len(s) \in Int
      BY <1>3
    <3>3. b \in Seq(S) /\ Len(b) = IF i + 1 <= Len(s) THEN Len(s) - (i + 1) + 1 ELSE 0
      BY <2>2, <3>1, <3>2, SubSeqProperties
    <3> QED BY <1>3, <3>3
  <2>6. r = a \o b
    BY <1>1, <2>1, <2>2, Zenon DEF RemoveAt
  <2>7. r \in Seq(S) /\ Len(r) = Len(a) + Len(b)
    BY <2>4, <2>5, <2>6, ConcatProperties
  <2> QED BY <1>3, <2>4, <2>5, <2>7, LenProperties
<1>5. ASSUME NEW x \in ToSet(s), x # s[i] PROVE x \in ToSet(r)
  <2>1. PICK k \in 1..Len(s) : x = s[k]
    BY <1>3 DEF ToSet
  <2>2. k # i
    BY <1>5, <2>1
  <2>3. CASE k < i
    <3>1. k \in DOMAIN r
      BY <1>3, <1>4, <2>3
    <3>2. r[k] = s[k]
      BY <1>2, <2>3, <3>1
    <3> QED BY <2>1, <3>1, <3>2 DEF ToSet
  <2>4. CASE ~ (k < i)
    <3>1. k - 1 \in DOMAIN r /\ ~ (k - 1 < i) /\ (k - 1) + 1 = k
      BY <1>3, <1>4, <2>2, <2>4
    <3>2. r[k - 1] = s[k]
      BY <1>2, <3>1
    <3> QED BY <2>1, <3>1, <3>2 DEF ToSet
  <2> QED BY <2>3, <2>4
<1> QED BY <1>1, <1>5

LEMMA TakenLeaves ==
    ASSUME Types, NEW p \in Party, NEW i \in DOMAIN inbox[p], NEW boxes, Leaves(p, i, boxes)
    PROVE  /\ \A q \in Party \ {p} : boxes[q] = inbox[q]
           /\ \A x \in ToSet(inbox[p]) : x # inbox[p][i] => x \in ToSet(boxes[p])
           /\ DOMAIN boxes = Party
<1>1. PICK S : S = Sane(The.fails)
  OBVIOUS
<1>2. inbox \in [Party -> Seq(S)]
  BY <1>1 DEF Types
<1>3. CASE boxes = [inbox EXCEPT ![p] = RemoveAt(@, i)]
  <2>1. PICK r : r = RemoveAt(inbox[p], i)
    OBVIOUS
  <2>2. inbox[p] \in Seq(S)
    BY <1>2
  <2>3. \A x \in ToSet(inbox[p]) : x # inbox[p][i] => x \in ToSet(r)
    BY <2>1, <2>2, RemovedLeaves
  <2>4. boxes = [inbox EXCEPT ![p] = r]
    BY <1>3, <2>1
  <2> QED BY <1>2, <2>3, <2>4
<1>4. CASE boxes = inbox
  BY <1>2, <1>4
<1> QED BY <1>3, <1>4 DEF Leaves

\* What is in transit to p, or kept by it.
Around(p) == ToSet(inbox[p]) \cup ToSet(pending[p])

\* Of sessions that wait for the first round, one has or will have the
\* messages of all of them: the one created first.
FirstCame ==
    \A W \in SUBSET {p \in Party : phase[p] = "wait1"} :
        W # {} => \E p \in W : \A q \in W \ {p} : First(q) \in Around(p)

\* A session that has not passed the second round has or will have q's message
\* of it, once q has sent it.
SecondCame(p, q) ==
    phase[p] \in {"wait1", "wait2"} /\ phase[q] \in {"wait2", "derivation", "share"} => Second(q) \in Around(p)

\* The same of what q's derivation sends to p.
DerivedCame(p, q) ==
    \A m \in MessagesOf(The.steps[q], drv[q].made) : m.to = p =>
        /\ phase[p] = "wait2" => m \in Around(p)
        /\ phase[p] = "derivation" => m \in ToSet(inbox[p]) \/ <<m.from, m.body>> \in drv[p].have

\* A derivation that is not over waits for something its next step needs.
Waiting(p) ==
    /\ phase[p] = "derivation" =>
         /\ drv[p].made < Len(The.steps[p])
         /\ ~ The.steps[p][drv[p].made + 1].needs \subseteq drv[p].have
    /\ phase[p] = "share" => drv[p].made = Len(The.steps[p])

Later == \A p, q \in Party : phase[q] = "share" => phase[p] \notin {"init", "wait1"}

Going == \A p \in Party : phase[p] # "failed"

Flow ==
    /\ FirstCame /\ Later
    /\ \A p \in Party : Waiting(p) /\ \A q \in Party \ {p} : SecondCame(p, q) /\ DerivedCame(p, q)

FlowInv == Going => Flow

-----------------------------------------------------------------------------

LEMMA FlowStart == Init => FlowInv
<1> SUFFICES ASSUME Init PROVE Flow
  BY DEF FlowInv
<1>1. \A p \in Party : phase[p] = "init"
  BY DEF Init
<1> QED BY <1>1 DEF Flow, FirstCame, Later, SecondCame, DerivedCame, Waiting

\* How far a derivation gets: as far as it has what the steps need.
Advanced(p, have, made, o) ==
    LET steps == The.steps[p] IN
    /\ o.drv.have = have /\ o.drv.made \in 0..Len(steps)
    /\ \A k \in 1..o.drv.made : steps[k].needs \subseteq have
    /\ o.drv.made < Len(steps) => ~ steps[o.drv.made + 1].needs \subseteq have
    /\ \A k \in 1..o.drv.made : k > made => ToSet(steps[k].sends) \subseteq ToSet(o.out)

LEMMA DerivedFar ==
    ASSUME NEW p \in Party, setting \in DOMAIN Settings, NEW have \in SUBSET (Party \X Body), NEW made \in Nat,
           NEW d, d = Derived(p, have, made), NEW o, o.drv = d.state, o.out = d.out
    PROVE  Advanced(p, have, made, o)
<1>1. PICK steps : steps = The.steps[p]
  OBVIOUS
<1>2. steps \in Seq([needs : SUBSET (Party \X STRING), sends : Seq(DerivationMessages(p))])
  BY <1>1, StepsAssumption DEF The
<1>3. /\ Len(steps) \in Nat
      /\ \A i \in 1..Len(steps) : steps[i].sends \in Seq(DerivationMessages(p))
  <2>1. PICK R : R = [needs : SUBSET (Party \X STRING), sends : Seq(DerivationMessages(p))]
    OBVIOUS
  <2>2. Len(steps) \in Nat /\ \A i \in 1..Len(steps) : steps[i] \in R
    BY <1>2, <2>1, LenProperties, ElementOfSeq
  <2> QED BY <2>1, <2>2
<1> DEFINE able == {n \in 0..Len(steps) : \A k \in 1..n : steps[k].needs \subseteq have}
           n == CHOOSE n \in able : \A k \in able : k <= n
           flat == [k \in 1..(n - made) |-> steps[made + k].sends]
<1>4. Derived(p, have, made) = [state |-> [have |-> have, made |-> n], out |-> FlattenSeq(flat)]
  BY <1>1, Zenon DEF Derived
<1>5. n \in able /\ \A k \in able : k <= n
  <2>1. 0 \in able
    BY <1>3
  <2>2. able \in SUBSET (0..Len(steps))
    OBVIOUS
  <2> HIDE DEF able
  <2>3. \E x \in able : \A k \in able : k <= x
    BY <1>3, <2>1, <2>2, Greatest
  <2> QED BY <2>3
<1>6. n \in 0..Len(steps) /\ \A k \in 1..n : steps[k].needs \subseteq have
  BY <1>5
<1>7. n < Len(steps) => ~ steps[n + 1].needs \subseteq have
  <2>1. SUFFICES ASSUME n < Len(steps), steps[n + 1].needs \subseteq have PROVE FALSE
    OBVIOUS
  <2> HIDE DEF n
  <2>2. n + 1 \in 0..Len(steps) /\ \A k \in 1..(n + 1) : k \in 1..n \/ k = n + 1
    BY <1>3, <1>6, <2>1
  <2>3. n + 1 \in able
    BY <1>6, <2>1, <2>2
  <2>4. n + 1 <= n
    BY <1>5, <2>3
  <2> QED BY <1>3, <1>6, <2>4
<1> HIDE DEF n
<1>8. ASSUME NEW k \in 1..n, k > made PROVE ToSet(steps[k].sends) \subseteq ToSet(FlattenSeq(flat))
  <2>1. PICK len : len = n - made
    OBVIOUS
  <2>2. len \in Nat /\ k - made \in 1..len /\ made + (k - made) = k /\ \A j \in 1..len : made + j \in 1..Len(steps)
    BY <1>3, <1>6, <1>8, <2>1
  <2>3. \A j \in 1..len : steps[made + j].sends \in Seq(DerivationMessages(p))
    BY <1>3, <2>2
  <2>4. flat = [j \in 1..len |-> steps[made + j].sends]
    BY <2>1
  <2>5. flat \in [1..len -> Seq(DerivationMessages(p))]
    BY <2>3, <2>4
  <2>6. k - made \in DOMAIN flat /\ flat[k - made] = steps[k].sends
    BY <2>2, <2>4
  <2> HIDE DEF flat
  <2>7. flat \in Seq(Seq(DerivationMessages(p)))
    BY <2>2, <2>5, SeqDef
  <2>8. ToSet(flat[k - made]) \subseteq ToSet(FlattenSeq(flat))
    BY <2>6, <2>7, FlattenHolds
  <2> QED BY <2>6, <2>8
<1> HIDE DEF flat
<1>9. o.drv.have = have /\ o.drv.made = n /\ o.out = FlattenSeq(flat)
  BY <1>4
<1> QED BY <1>1, <1>6, <1>7, <1>8, <1>9 DEF Advanced

\* Every derivation has a step that waits for something.
LEMMA SomeWait ==
    ASSUME setting \in DOMAIN Settings, NEW p \in Party
    PROVE  \E k \in 1..Len(The.steps[p]) : The.steps[p][k].needs # {}
<1>1. PICK k \in DOMAIN The.steps[p] : The.steps[p][k].needs # {}
  BY FlowAssumption DEF The
<1>2. DOMAIN The.steps[p] = 1..Len(The.steps[p])
  BY StepsAssumption, Elements DEF The
<1> QED BY <1>1, <1>2

\* What a call that does not fail does.
LEMMA HandledFar ==
    ASSUME Types, NEW p \in Party, NEW msgs \in Seq(Sane(The.fails)), phase[p] \notin {"share", "failed"},
           NEW o \in handle_messages(p, msgs), o.phase # "failed"
    PROVE  /\ phase[p] = "init" => o.phase = "init" /\ o.drv = Unstarted /\ o.out = <<>>
           /\ phase[p] = "wait1" =>
                o.phase = "wait2" /\ o.drv = Unstarted /\ o.out = <<Second(p)>> /\ Accepts("Msg1", msgs)
           /\ phase[p] = "wait2" =>
                /\ o.phase = "derivation" /\ Accepts("Msg2", msgs) /\ o.out \in Seq(DerivationMessages(p))
                /\ Advanced(p, {}, 0, o) /\ o.drv.made < Len(The.steps[p])
           /\ phase[p] = "derivation" =>
                /\ o.out \in Seq(DerivationMessages(p))
                /\ Advanced(p, drv[p].have \cup {<<msgs[n].from, msgs[n].body>> : n \in DOMAIN msgs}, drv[p].made, o)
                /\ o.phase = IF o.drv.made = Len(The.steps[p]) THEN "share" ELSE "derivation"
<1>1. /\ phase[p] = "init" => o.phase = "init" /\ o.drv = Unstarted /\ o.out = <<>>
      /\ phase[p] = "wait1" =>
           o.phase = "wait2" /\ o.drv = Unstarted /\ o.out = <<Second(p)>> /\ Accepts("Msg1", msgs)
      /\ phase[p] = "wait2" => o.phase = "derivation" /\ o.out \in Seq(DerivationMessages(p)) /\ Accepts("Msg2", msgs)
      /\ phase[p] = "derivation" => o.out \in Seq(DerivationMessages(p))
  BY Handled DEF FailedWith
<1>2. setting \in DOMAIN Settings
  BY DEF Types
<1>3. ASSUME phase[p] = "wait2" PROVE Advanced(p, {}, 0, o) /\ o.drv.made < Len(The.steps[p])
  <2>1. o = AfterRound2(p, msgs)
    BY <1>3 DEF handle_messages
  <2>2. PICK d : d = Derived(p, {}, 0)
    OBVIOUS
  <2>3. o.drv = d.state /\ o.out = d.out
    BY <1>1, <1>3, <2>1, <2>2 DEF AfterRound2, Outcome
  <2>4. Advanced(p, {}, 0, o)
    <3>1. {} \in SUBSET (Party \X Body) /\ 0 \in Nat
      OBVIOUS
    <3> QED BY <1>2, <2>2, <2>3, <3>1, DerivedFar
  <2>5. PICK k \in 1..Len(The.steps[p]) : The.steps[p][k].needs # {}
    BY <1>2, SomeWait
  <2>6. o.drv.made \in 0..Len(The.steps[p]) /\ \A j \in 1..o.drv.made : The.steps[p][j].needs \subseteq {}
    BY <2>4 DEF Advanced
  <2>7. ~ (k \in 1..o.drv.made)
    BY <2>5, <2>6
  <2>8. Len(The.steps[p]) \in Nat
    BY <1>2, StepsAssumption, Elements DEF The
  <2> QED BY <2>4, <2>5, <2>6, <2>7, <2>8
<1>4. ASSUME phase[p] = "derivation"
      PROVE  /\ Advanced(p, drv[p].have \cup {<<msgs[n].from, msgs[n].body>> : n \in DOMAIN msgs}, drv[p].made, o)
             /\ o.phase = IF o.drv.made = Len(The.steps[p]) THEN "share" ELSE "derivation"
  <2>1. o = AfterDerivation(p, msgs) \/ o = Failed
    BY <1>4 DEF handle_messages
  <2>2. o # Failed
    BY DEF Failed, Outcome
  <2>3. PICK have : have = drv[p].have \cup {<<msgs[n].from, msgs[n].body>> : n \in DOMAIN msgs}
    OBVIOUS
  <2>4. have \in SUBSET (Party \X Body)
    <3>1. \A n \in DOMAIN msgs : msgs[n] \in Sane(The.fails)
      BY Elements
    <3>2. \A n \in DOMAIN msgs : msgs[n].from \in Party /\ msgs[n].body \in Body
      BY <3>1 DEF Sane
    <3>3. drv[p].have \in SUBSET (Party \X Body)
      BY DEF Types
    <3> QED BY <2>3, <3>2, <3>3
  <2>5. drv[p].made \in Nat
    BY DEF Types
  <2>6. PICK d : d = Derived(p, have, drv[p].made)
    OBVIOUS
  <2>7. o = Outcome(IF d.state.made = Len(The.steps[p]) THEN "share" ELSE "derivation", d.state, d.out)
    <3>1. o = IF \E n \in DOMAIN msgs : msgs[n].body \in Rounds \cup {"Abort"} THEN Failed
              ELSE Outcome(IF d.state.made = Len(The.steps[p]) THEN "share" ELSE "derivation", d.state, d.out)
      BY <2>1, <2>2, <2>3, <2>6, Zenon DEF AfterDerivation
    <3> QED BY <2>2, <3>1
  <2>8. o.drv = d.state /\ o.out = d.out /\ o.phase = IF d.state.made = Len(The.steps[p]) THEN "share" ELSE "derivation"
    BY <2>7 DEF Outcome
  <2>9. Advanced(p, have, drv[p].made, o)
    BY <1>2, <2>4, <2>5, <2>6, <2>8, DerivedFar
  <2> QED BY <2>3, <2>8, <2>9
<1> QED BY <1>1, <1>3, <1>4

\* What the steps a derivation made have sent is its own.
LEMMA OfSteps ==
    ASSUME setting \in DOMAIN Settings, NEW q \in Party, NEW n \in 0..Len(The.steps[q]),
           NEW m \in MessagesOf(The.steps[q], n)
    PROVE  m.from = q /\ m.to # q /\ m.body \notin Rounds /\ \E k \in 1..n : m \in ToSet(The.steps[q][k].sends)
<1>1. PICK steps : steps = The.steps[q]
  OBVIOUS
<1>2. PICK R : R = [needs : SUBSET (Party \X STRING), sends : Seq(DerivationMessages(q))]
  OBVIOUS
<1>3. Len(steps) \in Nat /\ \A i \in 1..Len(steps) : steps[i] \in R
  <2>1. steps \in Seq(R)
    BY <1>1, <1>2, StepsAssumption DEF The
  <2> QED BY <2>1, LenProperties, ElementOfSeq
<1>4. PICK k \in 1..n : m \in ToSet(steps[k].sends)
  BY <1>1 DEF MessagesOf
<1>5. k \in 1..Len(steps)
  BY <1>1, <1>3
<1>6. steps[k].sends \in Seq(DerivationMessages(q))
  BY <1>2, <1>3, <1>5
<1>7. m \in DerivationMessages(q)
  BY <1>4, <1>6, Elements
<1>8. m.from = q /\ m.to # q /\ m.body \notin Rounds
  BY <1>7 DEF DerivationMessages
<1> QED BY <1>1, <1>4, <1>8

LEMMA NoSteps == ASSUME NEW steps PROVE MessagesOf(steps, 0) = {}
<1>1. 1..0 = {}
  OBVIOUS
<1> QED BY <1>1 DEF MessagesOf

LEMMA Made ==
    ASSUME IInv, Going, Flow, NEW q \in Party
    PROVE  /\ drv[q].made \in 0..Len(The.steps[q])
           /\ phase[q] \notin {"derivation", "share"} => drv[q].made = 0
<1>1. setting \in DOMAIN Settings /\ phase[q] \in Phases /\ drv[q].made \in Nat /\ Kept(q) /\ Waiting(q)
  BY DEF IInv, Types, Flow
<1>2. Len(The.steps[q]) \in Nat
  BY <1>1, StepsAssumption, Elements DEF The
<1>3. phase[q] \notin {"derivation", "share"} => drv[q].made = 0
  BY <1>1 DEF Kept, Unstarted
<1> QED BY <1>1, <1>2, <1>3 DEF Waiting

\* Steps that change no session's phase or derivation, and lose no message
\* but a session's own.
LEMMA FlowKept ==
    ASSUME IInv, Going, Flow, UNCHANGED <<setting, phase, drv>>,
           \A p \in Party : phase[p] \in {"wait1", "wait2"} => \A x \in Around(p) : x.from # p => x \in Around(p)',
           \A p \in Party : phase[p] = "derivation" => \A x \in ToSet(inbox[p]) : x.from # p => x \in ToSet(inbox'[p])
    PROVE  Flow'
<1>1. The' = The /\ setting \in DOMAIN Settings
  BY DEF The, IInv, Types
<1>2. \A p \in Party : First(p)' = First(p) /\ Second(p)' = Second(p) /\ First(p).from = p /\ Second(p).from = p
  BY SessionMessages DEF First, Second, Message
<1>3. FirstCame'
  <2> SUFFICES ASSUME NEW W \in SUBSET {p \in Party : phase'[p] = "wait1"}, W # {}
               PROVE  \E p \in W : \A q \in W \ {p} : First(q)' \in Around(p)'
    BY DEF FirstCame
  <2>1. PICK p \in W : \A q \in W \ {p} : First(q) \in Around(p)
    BY DEF Flow, FirstCame
  <2>2. p \in Party /\ phase[p] = "wait1"
    OBVIOUS
  <2> QED BY <1>2, <2>1, <2>2
<1>4. Later'
  BY DEF Flow, Later
<1>5. ASSUME NEW p \in Party PROVE Waiting(p)'
  <2>1. Waiting(p)
    BY DEF Flow
  <2> QED BY <1>1, <2>1 DEF Waiting
<1>6. ASSUME NEW p \in Party, NEW q \in Party \ {p} PROVE SecondCame(p, q)'
  <2>1. SecondCame(p, q)
    BY DEF Flow
  <2> QED BY <1>2, <2>1 DEF SecondCame
<1>7. ASSUME NEW p \in Party, NEW q \in Party \ {p} PROVE DerivedCame(p, q)'
  <2>1. DerivedCame(p, q)
    BY DEF Flow
  <2>2. \A m \in MessagesOf(The.steps[q], drv[q].made) : m.from = q
    BY <1>1, Made, OfSteps
  <2>3. MessagesOf(The.steps[q], drv[q].made)' = MessagesOf(The.steps[q], drv[q].made)
    BY <1>1 DEF MessagesOf
  <2> QED BY <2>1, <2>2, <2>3 DEF DerivedCame
<1> QED BY <1>3, <1>4, <1>5, <1>6, <1>7 DEF Flow

LEMMA FlowCreate ==
    ASSUME IInv, Going, Flow, NEW c \in Party, create_first_message(c)
    PROVE  Flow'
<1>1. PICK S : S = Sane(The.fails)
  OBVIOUS
<1>2. PICK m : m = First(c)
  OBVIOUS
<1>3. /\ phase[c] = "init" /\ phase' = [phase EXCEPT ![c] = "wait1"]
      /\ pending' = [pending EXCEPT ![c] = Append(@, m)]
      /\ inbox' = SentTo(<<m>>, inbox)
      /\ UNCHANGED <<setting, drv>> /\ The' = The
  BY <1>2 DEF create_first_message, First, The
<1>4. /\ setting \in DOMAIN Settings /\ phase \in [Party -> Phases] /\ pending \in [Party -> Seq(S)]
      /\ inbox \in [Party -> Seq(S)] /\ Passed /\ Later
  BY <1>1 DEF IInv, Types, Flow
<1>5. m \in S /\ m.from = c /\ m.to = Everyone
  BY <1>1, <1>2, SessionMessages
<1>6. ASSUME NEW p \in Party
      PROVE  ToSet(inbox[p]) \subseteq ToSet(inbox'[p]) /\ (p # c => m \in ToSet(inbox'[p]))
  <2>1. <<m>> \in Seq(S) /\ 1 \in DOMAIN <<m>> /\ <<m>>[1] = m
    BY <1>5
  <2>2. p # c => Reaches(<<m>>[1], p)
    BY <1>5, <2>1 DEF Reaches
  <2>3. PICK out \in Seq(S) : out = <<m>> /\ 1 \in DOMAIN out /\ out[1] = m
    BY <2>1
  <2> QED BY <1>3, <1>4, <2>2, <2>3, SentHolds
<1>7. ASSUME NEW p \in Party PROVE ToSet(pending[p]) \subseteq ToSet(pending'[p])
  <2>1. pending[p] \in Seq(S)
    BY <1>4
  <2>2. PICK u : u = Append(pending[p], m)
    OBVIOUS
  <2>3. pending'[p] = pending[p] \/ pending'[p] = u
    BY <1>3, <1>4, <2>2
  <2>4. ToSet(u) = ToSet(pending[p]) \cup {m}
    BY <1>5, <2>1, <2>2, Appended
  <2> QED BY <2>3, <2>4
<1>8. \A p \in Party : Around(p) \subseteq Around(p)' /\ (p # c => m \in Around(p)')
  BY <1>6, <1>7 DEF Around
<1>9. phase'[c] = "wait1" /\ \A q \in Party : q # c => phase'[q] = phase[q]
  BY <1>3, <1>4
<1>10. \A p \in Party : First(p)' = First(p) /\ Second(p)' = Second(p)
  BY DEF First, Second, Message
<1>11. FirstCame'
  <2> SUFFICES ASSUME NEW W \in SUBSET {p \in Party : phase'[p] = "wait1"}, W # {}
               PROVE  \E p \in W : \A q \in W \ {p} : First(q)' \in Around(p)'
    BY DEF FirstCame
  <2>1. CASE W \subseteq {c}
    <3>1. c \in W /\ W \ {c} = {}
      BY <2>1
    <3> QED BY <3>1
  <2>2. CASE ~ (W \subseteq {c})
    <3>1. W \ {c} \in SUBSET {p \in Party : phase[p] = "wait1"} /\ W \ {c} # {}
      BY <1>9, <2>2
    <3>2. PICK p \in W \ {c} : \A q \in (W \ {c}) \ {p} : First(q) \in Around(p)
      BY <3>1 DEF Flow, FirstCame
    <3>3. p \in Party /\ p # c
      BY <3>2
    <3>4. ASSUME NEW q \in W \ {p} PROVE First(q)' \in Around(p)'
      <4>1. q \in Party
        OBVIOUS
      <4>2. CASE q = c
        BY <1>2, <1>8, <1>10, <3>3, <4>2
      <4>3. CASE q # c
        BY <1>8, <1>10, <3>2, <3>3, <4>1, <4>3
      <4> QED BY <4>2, <4>3
    <3> QED BY <3>2, <3>4
  <2> QED BY <2>1, <2>2
<1>12. Later'
  BY <1>3, <1>4, <1>9 DEF Later
<1>13. ASSUME NEW p \in Party PROVE Waiting(p)'
  <2>1. Waiting(p)
    BY DEF Flow
  <2> QED BY <1>3, <1>9, <2>1 DEF Waiting
<1>14. ASSUME NEW p \in Party, NEW q \in Party \ {p} PROVE SecondCame(p, q)'
  <2>1. SecondCame(p, q)
    BY DEF Flow
  <2>2. phase'[q] \in {"wait2", "derivation", "share"} => q # c /\ p # c /\ phase'[q] = phase[q] /\ phase'[p] = phase[p]
    BY <1>3, <1>4, <1>9 DEF Passed, Later
  <2> QED BY <1>8, <1>10, <2>1, <2>2 DEF SecondCame
<1>15. ASSUME NEW p \in Party, NEW q \in Party \ {p} PROVE DerivedCame(p, q)'
  <2>1. DerivedCame(p, q)
    BY DEF Flow
  <2>2. MessagesOf(The.steps[q], drv[q].made)' = MessagesOf(The.steps[q], drv[q].made) /\ drv' = drv
    BY <1>3 DEF MessagesOf
  <2>3. phase'[p] \in {"wait2", "derivation"} => phase'[p] = phase[p]
    BY <1>9
  <2> QED BY <1>6, <1>8, <2>1, <2>2, <2>3 DEF DerivedCame
<1> QED BY <1>11, <1>12, <1>13, <1>14, <1>15 DEF Flow

\* What a step of p that took m and sent out leaves with the sessions.
LeavesNear(p, m, out) ==
    /\ \A r \in Party \ {p} : ToSet(inbox[r]) \subseteq ToSet(inbox'[r]) /\ pending'[r] = pending[r]
    /\ \A x \in ToSet(inbox[p]) : x # m => x \in ToSet(inbox'[p])
    /\ \A x \in ToSet(out) : \A r \in Party : Reaches(x, r) => x \in ToSet(inbox'[r])

LEMMA NearAround ==
    ASSUME NEW p \in Party, NEW m, NEW out, LeavesNear(p, m, out), NEW r \in Party \ {p}
    PROVE  Around(r) \subseteq Around(r)'
  BY DEF LeavesNear, Around

\* The phases and derivations of the sessions that make no step.
Others(p) ==
    /\ The' = The
    /\ \A r \in Party \ {p} : phase'[r] = phase[r] /\ drv'[r] = drv[r]

\* What is as it was: all that is about the other sessions, and what p has
\* sent to them before.
LEMMA FlowOthers ==
    ASSUME IInv, Going, Flow, NEW p \in Party, NEW m, NEW out, LeavesNear(p, m, out), Others(p),
           phase[p] # "init", phase'[p] # "wait1"
    PROVE  /\ FirstCame'
           /\ \A r \in Party \ {p} : Waiting(r)'
           /\ \A r \in Party \ {p}, q \in Party \ {p} : r # q => SecondCame(r, q)' /\ DerivedCame(r, q)'
<1>1. \A q \in Party : First(q)' = First(q) /\ Second(q)' = Second(q)
  BY DEF First, Second, Message
<1>2. \A r \in Party \ {p} : Around(r) \subseteq Around(r)' /\ ToSet(inbox[r]) \subseteq ToSet(inbox'[r])
                             /\ phase'[r] = phase[r] /\ drv'[r] = drv[r]
  BY NearAround DEF LeavesNear, Others
<1>3. FirstCame'
  <2> SUFFICES ASSUME NEW W \in SUBSET {r \in Party : phase'[r] = "wait1"}, W # {}
               PROVE  \E r \in W : \A q \in W \ {r} : First(q)' \in Around(r)'
    BY DEF FirstCame
  <2>1. p \notin W /\ W \in SUBSET {r \in Party : phase[r] = "wait1"}
    BY <1>2
  <2>2. PICK r \in W : \A q \in W \ {r} : First(q) \in Around(r)
    BY <2>1 DEF Flow, FirstCame
  <2>3. r \in Party \ {p}
    BY <2>1
  <2>4. \A q \in W \ {r} : First(q)' \in Around(r)'
    BY <1>1, <1>2, <2>2, <2>3
  <2> QED BY <2>4
<1>4. ASSUME NEW r \in Party \ {p} PROVE Waiting(r)'
  <2>1. Waiting(r)
    BY DEF Flow
  <2> QED BY <1>2, <2>1 DEF Waiting, Others
<1>5. ASSUME NEW r \in Party \ {p}, NEW q \in Party \ {p}, r # q PROVE SecondCame(r, q)'
  <2>1. SecondCame(r, q)
    BY <1>5 DEF Flow
  <2> QED BY <1>1, <1>2, <2>1 DEF SecondCame
<1>6. ASSUME NEW r \in Party \ {p}, NEW q \in Party \ {p}, r # q PROVE DerivedCame(r, q)'
  <2>1. DerivedCame(r, q)
    BY <1>6 DEF Flow
  <2>2. MessagesOf(The.steps[q], drv[q].made)' = MessagesOf(The.steps[q], drv[q].made)
    BY <1>2 DEF MessagesOf, Others
  <2> QED BY <1>2, <2>1, <2>2 DEF DerivedCame
<1> QED BY <1>3, <1>4, <1>5, <1>6

\* Into the second round: what p takes are messages of the first one, what it
\* sends is its message of the second one.
LEMMA FlowRound1 ==
    ASSUME IInv, Going, Flow, NEW p \in Party, NEW m, NEW msgs, NEW out, LeavesNear(p, m, out), Others(p),
           phase[p] = "wait1", phase'[p] = "wait2", drv'[p] = Unstarted, out = <<Second(p)>>,
           Accepts("Msg1", msgs), ToSet(pending[p]) \cup {m} \subseteq ToSet(msgs)
    PROVE  Flow'
<1>1. /\ FirstCame'
      /\ \A r \in Party \ {p} : Waiting(r)'
      /\ \A r \in Party \ {p}, q \in Party \ {p} : r # q => SecondCame(r, q)' /\ DerivedCame(r, q)'
  BY FlowOthers
<1>2. \A q \in Party : First(q)' = First(q) /\ Second(q)' = Second(q)
                       /\ Second(q).body = "Msg2" /\ Second(q).to = Everyone /\ Second(q).from = q
  BY SessionMessages DEF First, Second, Message
<1>3. \A x \in ToSet(pending[p]) \cup {m} : x.body = "Msg1"
  BY DEF Accepts, ToSet
<1>4. \A q \in Party \ {p} : phase[q] \notin {"derivation", "share"} /\ phase'[q] = phase[q] /\ drv'[q] = drv[q]
  BY DEF IInv, Passed, Flow, Later, Others
<1>5. Later'
  BY <1>4 DEF Later
<1>6. Waiting(p)'
  BY DEF Waiting
<1>7. ASSUME NEW q \in Party \ {p} PROVE SecondCame(p, q)'
  <2>1. SecondCame(p, q) /\ q \in Party
    BY DEF Flow
  <2>2. Second(q) \in Around(p) => Second(q) \in ToSet(inbox[p]) /\ Second(q) # m
    BY <1>2, <1>3, <2>1 DEF Around
  <2>3. Second(q) \in Around(p) => Second(q) \in ToSet(inbox'[p])
    BY <2>2 DEF LeavesNear
  <2> QED BY <1>2, <1>4, <2>1, <2>3 DEF SecondCame, Around
<1>8. ASSUME NEW q \in Party \ {p} PROVE SecondCame(q, p)'
  <2>1. Second(p) \in ToSet(out)
    BY DEF ToSet
  <2>2. Reaches(Second(p), q)
    BY <1>2 DEF Reaches
  <2>3. Second(p) \in ToSet(inbox'[q])
    BY <2>1, <2>2 DEF LeavesNear
  <2> QED BY <1>2, <2>3 DEF SecondCame, Around
<1>9. ASSUME NEW q \in Party \ {p} PROVE DerivedCame(p, q)' /\ DerivedCame(q, p)'
  <2>1. drv'[q].made = 0 /\ drv'[p].made = 0
    BY <1>4, Made DEF Unstarted
  <2>2. MessagesOf(The.steps[q], drv[q].made)' = {} /\ MessagesOf(The.steps[p], drv[p].made)' = {}
    <3>1. MessagesOf(The.steps[q], drv[q].made)' = MessagesOf(The.steps[q], 0)
          /\ MessagesOf(The.steps[p], drv[p].made)' = MessagesOf(The.steps[p], 0)
      BY <2>1 DEF Others, MessagesOf
    <3> QED BY <3>1, NoSteps
  <2> QED BY <2>2 DEF DerivedCame
<1>10. ASSUME NEW r \in Party, NEW q \in Party \ {r} PROVE SecondCame(r, q)' /\ DerivedCame(r, q)'
  BY <1>1, <1>7, <1>8, <1>9, <1>10
<1>11. \A r \in Party : Waiting(r)'
  BY <1>1, <1>6
<1> QED BY <1>1, <1>5, <1>10, <1>11 DEF Flow

\* What the derivation of p sent before, and what it sends now, is with the
\* others or in transit to them.
LEMMA FlowSends ==
    ASSUME IInv, Going, Flow, NEW p \in Party, NEW m, NEW out, LeavesNear(p, m, out), Others(p),
           NEW have, NEW o, Advanced(p, have, drv[p].made, o), o.out = out, drv'[p] = o.drv,
           NEW q \in Party \ {p}
    PROVE  DerivedCame(q, p)'
<1>1. setting \in DOMAIN Settings /\ The' = The /\ phase'[q] = phase[q] /\ drv'[q] = drv[q]
  BY DEF IInv, Types, Others
<1>2. DerivedCame(q, p)
  BY DEF Flow
<1>3. drv[p].made \in 0..Len(The.steps[p]) /\ o.drv.made \in 0..Len(The.steps[p])
  BY Made DEF Advanced
<1>4. MessagesOf(The.steps[p], drv[p].made)' = MessagesOf(The.steps[p], o.drv.made)
  BY <1>1 DEF MessagesOf
<1>5. ASSUME NEW x \in MessagesOf(The.steps[p], o.drv.made), x.to = q
      PROVE  x \in ToSet(inbox'[q]) \/ x \in MessagesOf(The.steps[p], drv[p].made)
  <2>1. PICK k \in 1..o.drv.made : x \in ToSet(The.steps[p][k].sends)
    BY <1>1, <1>3, OfSteps
  <2>2. CASE k > drv[p].made
    <3>1. x \in ToSet(out)
      BY <2>1, <2>2 DEF Advanced
    <3>2. Reaches(x, q)
      BY <1>5 DEF Reaches
    <3> QED BY <3>1, <3>2 DEF LeavesNear
  <2>3. CASE ~ (k > drv[p].made)
    <3>1. k \in 1..drv[p].made
      BY <1>3, <2>3
    <3> QED BY <2>1, <3>1 DEF MessagesOf
  <2> QED BY <2>2, <2>3
<1>6. Around(q) \subseteq Around(q)' /\ ToSet(inbox[q]) \subseteq ToSet(inbox'[q])
  BY NearAround DEF LeavesNear
<1>7. ToSet(inbox'[q]) \subseteq Around(q)'
  BY DEF Around
<1> QED BY <1>1, <1>2, <1>4, <1>5, <1>6, <1>7 DEF DerivedCame

\* Into the derivation: what p takes are messages of the second round.
LEMMA FlowRound2 ==
    ASSUME IInv, Going, Flow, NEW p \in Party, NEW m, NEW msgs, NEW out, LeavesNear(p, m, out), Others(p),
           phase[p] = "wait2", phase'[p] = "derivation",
           NEW o, Advanced(p, {}, 0, o), o.out = out, drv'[p] = o.drv, o.drv.made < Len(The.steps[p]),
           Accepts("Msg2", msgs), ToSet(pending[p]) \cup {m} \subseteq ToSet(msgs)
    PROVE  Flow'
<1>1. /\ FirstCame'
      /\ \A r \in Party \ {p} : Waiting(r)'
      /\ \A r \in Party \ {p}, q \in Party \ {p} : r # q => SecondCame(r, q)' /\ DerivedCame(r, q)'
  BY FlowOthers
<1>2. The' = The /\ \A r \in Party \ {p} : phase'[r] = phase[r] /\ drv'[r] = drv[r]
  BY DEF Others
<1>3. \A x \in ToSet(pending[p]) \cup {m} : x.body = "Msg2"
  BY DEF Accepts, ToSet
<1>4. Later'
  BY <1>2 DEF Flow, Later
<1>5. Waiting(p)'
  <2>1. o.drv.have = {} /\ ~ The.steps[p][o.drv.made + 1].needs \subseteq {}
    BY DEF Advanced
  <2> QED BY <1>2, <2>1 DEF Waiting
<1>6. ASSUME NEW q \in Party \ {p} PROVE SecondCame(q, p)' /\ SecondCame(p, q)'
  <2>1. SecondCame(q, p)
    BY DEF Flow
  <2>2. Around(q) \subseteq Around(q)'
    BY NearAround
  <2>3. Second(p)' = Second(p)
    BY DEF Second, Message
  <2> QED BY <1>2, <2>1, <2>2, <2>3 DEF SecondCame
<1>7. ASSUME NEW q \in Party \ {p} PROVE DerivedCame(q, p)'
  <2>1. drv[p].made = 0
    BY Made
  <2>2. Advanced(p, {}, drv[p].made, o)
    BY <2>1
  <2> QED BY <2>2, FlowSends
<1>8. ASSUME NEW q \in Party \ {p} PROVE DerivedCame(p, q)'
  <2>1. DerivedCame(p, q) /\ q \in Party
    BY DEF Flow
  <2>2. setting \in DOMAIN Settings /\ drv[q].made \in 0..Len(The.steps[q])
    BY Made DEF IInv, Types
  <2>3. MessagesOf(The.steps[q], drv[q].made)' = MessagesOf(The.steps[q], drv[q].made)
    BY <1>2 DEF MessagesOf
  <2>4. ASSUME NEW x \in MessagesOf(The.steps[q], drv[q].made), x.to = p PROVE x \in ToSet(inbox'[p])
    <3>1. x.body \notin Rounds
      BY <2>1, <2>2, OfSteps
    <3>2. x \in Around(p) /\ x \notin ToSet(pending[p]) \cup {m}
      BY <1>3, <2>1, <2>4, <3>1 DEF DerivedCame, Rounds
    <3>3. x \in ToSet(inbox[p]) /\ x # m
      BY <3>2 DEF Around
    <3> QED BY <3>3 DEF LeavesNear
  <2> QED BY <2>3, <2>4 DEF DerivedCame
<1>9. ASSUME NEW r \in Party, NEW q \in Party \ {r} PROVE SecondCame(r, q)' /\ DerivedCame(r, q)'
  BY <1>1, <1>6, <1>7, <1>8, <1>9
<1>10. \A r \in Party : Waiting(r)'
  BY <1>1, <1>5
<1> QED BY <1>1, <1>4, <1>9, <1>10 DEF Flow

\* On in the derivation: p takes one message, and has it from then on.
LEMMA FlowDerivation ==
    ASSUME IInv, Going, Flow, NEW p \in Party, NEW m, NEW out, LeavesNear(p, m, out), Others(p),
           phase[p] = "derivation",
           NEW o, NEW have, Advanced(p, have, drv[p].made, o), o.out = out, drv'[p] = o.drv,
           have = drv[p].have \cup {<<m.from, m.body>>},
           phase'[p] = IF o.drv.made = Len(The.steps[p]) THEN "share" ELSE "derivation"
    PROVE  Flow'
<1>1. /\ FirstCame'
      /\ \A r \in Party \ {p} : Waiting(r)'
      /\ \A r \in Party \ {p}, q \in Party \ {p} : r # q => SecondCame(r, q)' /\ DerivedCame(r, q)'
  BY FlowOthers
<1>2. The' = The /\ \A r \in Party \ {p} : phase'[r] = phase[r] /\ drv'[r] = drv[r]
  BY DEF Others
<1>3. Later'
  <2>1. \A r \in Party : phase'[r] \notin {"init", "wait1"}
    BY <1>2 DEF IInv, Passed
  <2> QED BY <2>1 DEF Later
<1>4. Waiting(p)'
  <2>1. /\ o.drv.have = have /\ o.drv.made \in 0..Len(The.steps[p])
        /\ o.drv.made < Len(The.steps[p]) => ~ The.steps[p][o.drv.made + 1].needs \subseteq have
    BY DEF Advanced
  <2>2. Len(The.steps[p]) \in Nat
    <3>1. The.steps[p] \in Seq([needs : SUBSET (Party \X STRING), sends : Seq(DerivationMessages(p))])
      BY StepsAssumption DEF The, IInv, Types
    <3> QED BY <3>1, LenProperties
  <2>3. o.drv.made # Len(The.steps[p]) => o.drv.made < Len(The.steps[p])
    BY <2>1, <2>2
  <2> QED BY <1>2, <2>1, <2>3 DEF Waiting
<1>5. ASSUME NEW q \in Party \ {p} PROVE SecondCame(q, p)' /\ SecondCame(p, q)'
  <2>1. SecondCame(q, p)
    BY DEF Flow
  <2>2. Around(q) \subseteq Around(q)'
    BY NearAround
  <2>3. Second(p)' = Second(p)
    BY DEF Second, Message
  <2> QED BY <1>2, <2>1, <2>2, <2>3 DEF SecondCame
<1>6. ASSUME NEW q \in Party \ {p} PROVE DerivedCame(q, p)'
  BY FlowSends
<1>7. ASSUME NEW q \in Party \ {p} PROVE DerivedCame(p, q)'
  <2>1. DerivedCame(p, q) /\ q \in Party
    BY DEF Flow
  <2>2. MessagesOf(The.steps[q], drv[q].made)' = MessagesOf(The.steps[q], drv[q].made)
    BY <1>2 DEF MessagesOf
  <2>3. drv'[p].have = have
    BY DEF Advanced
  <2>4. ASSUME NEW x \in MessagesOf(The.steps[q], drv[q].made), x.to = p
        PROVE  x \in ToSet(inbox'[p]) \/ <<x.from, x.body>> \in drv'[p].have
    <3>1. x \in ToSet(inbox[p]) \/ <<x.from, x.body>> \in drv[p].have
      BY <2>1, <2>4 DEF DerivedCame
    <3>2. CASE x = m
      BY <2>3, <3>2
    <3>3. CASE x # m /\ x \in ToSet(inbox[p])
      BY <3>3 DEF LeavesNear
    <3>4. CASE <<x.from, x.body>> \in drv[p].have
      BY <2>3, <3>4
    <3> QED BY <3>1, <3>2, <3>3, <3>4
  <2>5. phase'[p] # "wait2"
    OBVIOUS
  <2> QED BY <2>2, <2>4, <2>5 DEF DerivedCame
<1>8. ASSUME NEW r \in Party, NEW q \in Party \ {r} PROVE SecondCame(r, q)' /\ DerivedCame(r, q)'
  BY <1>1, <1>5, <1>6, <1>7, <1>8
<1>9. \A r \in Party : Waiting(r)'
  BY <1>1, <1>4
<1> QED BY <1>1, <1>3, <1>8, <1>9 DEF Flow

LEMMA FlowIgnore ==
    ASSUME IInv, Going, Flow, NEW p \in Party, NEW i \in DOMAIN inbox[p], Ignore(p, i)
    PROVE  Flow'
<1>1. PICK boxes : Leaves(p, i, boxes) /\ inbox' = boxes
  BY DEF Ignore, Leaves
<1>2. UNCHANGED <<setting, phase, pending, drv>> /\ (phase[p] = "share" \/ inbox[p][i].from = p)
  BY DEF Ignore, Ignored, is_finished, Going
<1>3. Types
  BY DEF IInv
<1>4. /\ \A q \in Party \ {p} : inbox'[q] = inbox[q]
      /\ \A x \in ToSet(inbox[p]) : x # inbox[p][i] => x \in ToSet(inbox'[p])
  BY <1>1, <1>3, TakenLeaves
<1>5. ASSUME NEW q \in Party, phase[q] # "share", NEW x \in ToSet(inbox[q]), x.from # q PROVE x \in ToSet(inbox'[q])
  BY <1>2, <1>4, <1>5
<1>6. ASSUME NEW q \in Party, phase[q] \in {"wait1", "wait2"}, NEW x \in Around(q), x.from # q PROVE x \in Around(q)'
  BY <1>2, <1>5, <1>6 DEF Around
<1> QED BY <1>2, <1>5, <1>6, FlowKept

LEMMA FlowCollect ==
    ASSUME IInv, Going, Flow, NEW p \in Party, NEW i \in DOMAIN inbox[p], Collect(p, i)
    PROVE  Flow'
<1>1. PICK m : m = inbox[p][i]
  OBVIOUS
<1>2. PICK boxes : Leaves(p, i, boxes) /\ inbox' = boxes
  BY DEF Collect, Leaves
<1>3. UNCHANGED <<setting, phase, drv>> /\ pending' = [pending EXCEPT ![p] = Append(pending[p], m)]
      /\ phase[p] # "derivation"
  BY <1>1 DEF Collect, Complete, is_derivation
<1>4. PICK S : S = Sane(The.fails)
  OBVIOUS
<1>5. Types /\ pending \in [Party -> Seq(S)] /\ inbox \in [Party -> Seq(S)]
  BY <1>4 DEF IInv, Types
<1>6. /\ \A q \in Party \ {p} : inbox'[q] = inbox[q]
      /\ \A x \in ToSet(inbox[p]) : x # m => x \in ToSet(inbox'[p])
  BY <1>1, <1>2, <1>5, TakenLeaves
<1>7. ToSet(pending'[p]) = ToSet(pending[p]) \cup {m} /\ \A q \in Party \ {p} : pending'[q] = pending[q]
  <2>1. m \in S /\ pending[p] \in Seq(S)
    BY <1>1, <1>5, Elements
  <2>2. PICK u : u = Append(pending[p], m)
    OBVIOUS
  <2>3. ToSet(u) = ToSet(pending[p]) \cup {m}
    BY <2>1, <2>2, Appended
  <2>4. pending'[p] = u /\ \A q \in Party \ {p} : pending'[q] = pending[q]
    BY <1>3, <1>5, <2>2
  <2> QED BY <2>3, <2>4
<1>8. \A q \in Party : Around(q) \subseteq Around(q)'
  <2>1. Around(p) \subseteq Around(p)'
    BY <1>6, <1>7 DEF Around
  <2>2. \A q \in Party \ {p} : Around(q) \subseteq Around(q)'
    BY <1>6, <1>7 DEF Around
  <2> QED BY <2>1, <2>2
<1>9. \A q \in Party : phase[q] = "derivation" => \A x \in ToSet(inbox[q]) : x.from # q => x \in ToSet(inbox'[q])
  BY <1>3, <1>6
<1> QED BY <1>3, <1>8, <1>9, FlowKept

LEMMA FlowProcess ==
    ASSUME IInv, Going, Flow, Going', NEW p \in Party, NEW i \in DOMAIN inbox[p], Process(p, i)
    PROVE  Flow'
<1>1. PICK S : S = Sane(The.fails)
  OBVIOUS
<1>2. PICK m : m = inbox[p][i]
  OBVIOUS
<1>3. PICK msgs : msgs = Append(pending[p], m)
  OBVIOUS
<1>4. ~ Ignored(p, m) /\ Complete(p, msgs) /\ UNCHANGED setting /\ The' = The
  BY <1>2, <1>3 DEF Process, The
<1>5. PICK o \in handle_messages(p, msgs) :
        /\ phase' = [phase EXCEPT ![p] = o.phase]
        /\ drv' = [drv EXCEPT ![p] = o.drv]
        /\ pending' = [pending EXCEPT ![p] = retain_self_broadcasts(o.out)]
        /\ \E boxes : Leaves(p, i, boxes) /\ inbox' = SentTo(o.out, boxes)
  BY <1>2, <1>3 DEF Process, Leaves
<1>6. PICK boxes : Leaves(p, i, boxes) /\ inbox' = SentTo(o.out, boxes)
  BY <1>5
<1>7. /\ Types /\ phase \in [Party -> Phases] /\ pending \in [Party -> Seq(S)] /\ inbox \in [Party -> Seq(S)]
      /\ drv \in [Party -> [have : SUBSET (Party \X Body), made : Nat]] /\ Kept(p)
  BY <1>1 DEF IInv, Types
<1>8. /\ boxes \in [Party -> Seq(S)]
      /\ \A q \in Party \ {p} : boxes[q] = inbox[q]
      /\ \A x \in ToSet(inbox[p]) : x # m => x \in ToSet(boxes[p])
  BY <1>1, <1>2, <1>6, <1>7, TakenWhat, TakenLeaves
<1>9. m \in S /\ phase[p] \notin {"share", "failed"}
  BY <1>2, <1>4, <1>7, Elements DEF Ignored, is_finished
<1>10. msgs \in Seq(S) /\ ToSet(msgs) = ToSet(pending[p]) \cup {m}
  BY <1>3, <1>7, <1>9, Appended
<1>11. PICK out : out = o.out
  OBVIOUS
<1>12. /\ phase'[p] = o.phase /\ drv'[p] = o.drv /\ o.phase # "failed"
       /\ \A q \in Party \ {p} : phase'[q] = phase[q] /\ drv'[q] = drv[q] /\ pending'[q] = pending[q]
  BY <1>5, <1>7 DEF Going
<1>13. Others(p)
  BY <1>4, <1>12 DEF Others
<1>14. /\ phase[p] = "init" => o.phase = "init" /\ o.drv = Unstarted /\ o.out = <<>>
       /\ phase[p] = "wait1" =>
            o.phase = "wait2" /\ o.drv = Unstarted /\ o.out = <<Second(p)>> /\ Accepts("Msg1", msgs)
       /\ phase[p] = "wait2" =>
            /\ o.phase = "derivation" /\ Accepts("Msg2", msgs) /\ o.out \in Seq(DerivationMessages(p))
            /\ Advanced(p, {}, 0, o) /\ o.drv.made < Len(The.steps[p])
       /\ phase[p] = "derivation" =>
            /\ o.out \in Seq(DerivationMessages(p))
            /\ Advanced(p, drv[p].have \cup {<<msgs[n].from, msgs[n].body>> : n \in DOMAIN msgs}, drv[p].made, o)
            /\ o.phase = IF o.drv.made = Len(The.steps[p]) THEN "share" ELSE "derivation"
  BY <1>1, <1>7, <1>9, <1>10, <1>12, HandledFar
<1>15. out \in Seq(S)
  <2>1. CASE phase[p] = "init"
    BY <1>11, <1>14, <2>1, EmptySeq
  <2>2. CASE phase[p] = "wait1"
    <3>1. PICK x : x = Second(p)
      OBVIOUS
    <3>2. x \in S
      BY <1>1, <3>1, SessionMessages
    <3>3. out = <<x>>
      BY <1>11, <1>14, <2>2, <3>1
    <3> QED BY <3>2, <3>3
  <2>3. CASE out \in Seq(DerivationMessages(p))
    <3>1. DerivationMessages(p) \subseteq S
      BY <1>1, OfDerivations
    <3> QED BY <2>3, <3>1, SeqMonotonic
  <2> QED BY <1>7, <1>9, <1>11, <1>14, <2>1, <2>2, <2>3 DEF Phases
<1>16. ASSUME NEW q \in Party
       PROVE  /\ ToSet(boxes[q]) \subseteq ToSet(inbox'[q])
              /\ \A x \in ToSet(out) : Reaches(x, q) => x \in ToSet(inbox'[q])
  <2>1. /\ ToSet(boxes[q]) \subseteq ToSet(SentTo(out, boxes)[q])
        /\ \A k \in DOMAIN out : Reaches(out[k], q) => out[k] \in ToSet(SentTo(out, boxes)[q])
    BY <1>8, <1>15, SentHolds
  <2>2. inbox' = SentTo(out, boxes)
    BY <1>6, <1>11
  <2>3. \A x \in ToSet(out) : \E k \in DOMAIN out : x = out[k]
    BY DEF ToSet
  <2> QED BY <2>1, <2>2, <2>3
<1>17. LeavesNear(p, m, out)
  <2>1. \A r \in Party \ {p} : ToSet(inbox[r]) \subseteq ToSet(inbox'[r]) /\ pending'[r] = pending[r]
    BY <1>8, <1>12, <1>16
  <2>2. \A x \in ToSet(inbox[p]) : x # m => x \in ToSet(inbox'[p])
    BY <1>8, <1>16
  <2> QED BY <1>16, <2>1, <2>2 DEF LeavesNear
<1>18. CASE phase[p] = "init"
  <2>1. phase' = phase /\ drv' = drv
    <3>1. o.phase = phase[p] /\ o.drv = drv[p]
      BY <1>7, <1>14, <1>18 DEF Kept
    <3> QED BY <1>5, <1>7, <3>1
  <2>2. ASSUME NEW q \in Party, phase[q] \in {"wait1", "wait2"}, NEW x \in Around(q) PROVE x \in Around(q)'
    <3>1. q \in Party \ {p}
      BY <1>18, <2>2
    <3> QED BY <1>17, <2>2, <3>1, NearAround
  <2>3. ASSUME NEW q \in Party, phase[q] = "derivation", NEW x \in ToSet(inbox[q]) PROVE x \in ToSet(inbox'[q])
    <3>1. q \in Party \ {p}
      BY <1>18, <2>3
    <3> QED BY <1>17, <2>3, <3>1 DEF LeavesNear
  <2> QED BY <1>4, <2>1, <2>2, <2>3, FlowKept
<1>19. CASE phase[p] = "wait1"
  BY <1>10, <1>11, <1>12, <1>13, <1>14, <1>17, <1>19, FlowRound1
<1>20. CASE phase[p] = "wait2"
  <2>1. ToSet(pending[p]) \cup {m} \subseteq ToSet(msgs)
    BY <1>10
  <2> QED BY <1>11, <1>12, <1>13, <1>14, <1>17, <1>20, <2>1, FlowRound2
<1>21. CASE phase[p] = "derivation"
  <2>1. pending[p] = <<>>
    BY <1>7, <1>21 DEF Kept
  <2>2. DOMAIN msgs = {1} /\ msgs[1] = m
    BY <1>3, <2>1
  <2>3. PICK have : have = drv[p].have \cup {<<m.from, m.body>>}
    OBVIOUS
  <2>4. {<<msgs[n].from, msgs[n].body>> : n \in DOMAIN msgs} = {<<m.from, m.body>>}
    BY <2>2
  <2>5. Advanced(p, have, drv[p].made, o)
    BY <1>14, <1>21, <2>3, <2>4
  <2>6. phase'[p] = IF o.drv.made = Len(The.steps[p]) THEN "share" ELSE "derivation"
    BY <1>12, <1>14, <1>21
  <2>7. o.out = out /\ drv'[p] = o.drv
    BY <1>11, <1>12
  <2> QED BY <1>13, <1>17, <1>21, <2>3, <2>5, <2>6, <2>7, FlowDerivation
<1> QED BY <1>7, <1>9, <1>18, <1>19, <1>20, <1>21 DEF Phases

LEMMA FlowStep == IInv /\ FlowInv /\ [Next]_vars => FlowInv'
<1> SUFFICES ASSUME IInv, FlowInv, [Next]_vars, Going' PROVE Flow'
  BY DEF FlowInv
<1>1. Going
  <2>1. \A p \in Party : phase[p] = "failed" => phase'[p] = "failed"
    BY Ended DEF is_finished
  <2> QED BY <2>1 DEF Going
<1>2. Flow
  BY <1>1 DEF FlowInv
<1>3. ASSUME NEW p \in Party, recv_message(p) PROVE Flow'
  <2>1. PICK i \in DOMAIN inbox[p] : Ignore(p, i) \/ Collect(p, i) \/ Process(p, i)
    BY <1>3 DEF recv_message, Deliverable
  <2> QED BY <1>1, <1>2, <2>1, FlowIgnore, FlowCollect, FlowProcess
<1>4. ASSUME NEW p \in Party, Abort(p) PROVE Flow'
  BY <1>1, <1>4 DEF Abort, Going
<1>5. ASSUME UNCHANGED vars PROVE Flow'
  <2>1. UNCHANGED <<setting, phase, drv>> /\ inbox' = inbox /\ pending' = pending
    BY <1>5 DEF vars
  <2>2. \A p \in Party : Around(p)' = Around(p)
    BY <2>1 DEF Around
  <2> QED BY <1>1, <1>2, <2>1, <2>2, FlowKept
<1> QED BY <1>1, <1>2, <1>3, <1>4, <1>5, FlowCreate DEF Next

\* Messages of all parties are a round.
LEMMA Crowd ==
    ASSUME NEW S, NEW s \in Seq(S), \A q \in Party : \E k \in DOMAIN s : s[k].from = q
    PROVE  Len(s) >= PARTICIPANTS
<1>1. 0 \in Party /\ 1 \in Party /\ 2 \in Party /\ PARTICIPANTS = 3
  BY DEF Party, PARTICIPANTS
<1>2. PICK a \in DOMAIN s, b \in DOMAIN s, c \in DOMAIN s : s[a].from = 0 /\ s[b].from = 1 /\ s[c].from = 2
  BY <1>1
<1>3. a # b /\ a # c /\ b # c
  BY <1>2
<1>4. Len(s) \in Nat /\ DOMAIN s = 1..Len(s)
  BY Elements
<1> QED BY <1>1, <1>3, <1>4

\* With nothing in transit, sessions that go on have passed both rounds.
LEMMA RoundsPassed ==
    ASSUME IInv, Going, Flow, NEW p \in Party, \A q \in Party : inbox[q] = <<>> /\ phase[q] # "init",
           ~ (The.early /\ \E q \in Party : phase[q] = "wait1" /\ Len(pending[q]) >= PARTICIPANTS)
    PROVE  phase[p] \in {"derivation", "share"}
<1>1. PICK S : S = Sane(The.fails)
  OBVIOUS
<1>2. /\ \A q \in Party : /\ pending[q] \in Seq(S) /\ Kept(q) /\ Around(q) = ToSet(pending[q])
                          /\ phase[q] \in {"wait1", "wait2", "derivation", "share"}
  <2>1. ToSet(<<>>) = {}
    BY DEF ToSet
  <2> QED BY <1>1, <2>1 DEF IInv, Types, Phases, Going, Around
<1>3. \A q \in Party : First(q).from = q /\ Second(q).from = q
  BY SessionMessages
<1>4. ASSUME NEW q \in Party, \A r \in Party \ {q} : First(r) \in Around(q) \/ Second(r) \in Around(q),
             phase[q] \in {"wait1", "wait2"}
      PROVE  FALSE
  <2>1. ASSUME NEW r \in Party PROVE \E k \in DOMAIN pending[q] : pending[q][k].from = r
    <3>1. CASE r # q
      <4>1. First(r) \in ToSet(pending[q]) \/ Second(r) \in ToSet(pending[q])
        BY <1>2, <1>4, <3>1
      <4> QED BY <1>3, <4>1 DEF ToSet
    <3>2. CASE r = q
      <4>1. OneOwn(q, First(q)) \/ OneOwn(q, Second(q))
        BY <1>2, <1>4 DEF Kept
      <4> QED BY <1>3, <3>2, <4>1 DEF OneOwn
    <3> QED BY <3>1, <3>2
  <2>2. Len(pending[q]) >= PARTICIPANTS
    BY <1>2, <2>1, Crowd
  <2>3. (phase[q] = "wait1" /\ ~ The.early) \/ phase[q] = "wait2" => Len(pending[q]) < PARTICIPANTS
    BY <1>2 DEF Kept
  <2>4. ~ (phase[q] = "wait1" /\ The.early)
    BY <2>2
  <2>5. Len(pending[q]) \in Nat /\ PARTICIPANTS \in Nat
    BY <1>2, Elements DEF PARTICIPANTS
  <2> QED BY <1>4, <2>2, <2>3, <2>4, <2>5
<1>5. \A q \in Party : phase[q] # "wait1"
  <2>1. SUFFICES ASSUME {q \in Party : phase[q] = "wait1"} # {} PROVE FALSE
    OBVIOUS
  <2>2. PICK W : W = {q \in Party : phase[q] = "wait1"}
    OBVIOUS
  <2>3. PICK q \in W : \A r \in W \ {q} : First(r) \in Around(q)
    BY <2>1, <2>2 DEF Flow, FirstCame
  <2>4. q \in Party /\ phase[q] = "wait1"
    BY <2>2
  <2>5. ASSUME NEW r \in Party \ {q} PROVE First(r) \in Around(q) \/ Second(r) \in Around(q)
    <3>1. CASE r \in W
      BY <2>3, <3>1
    <3>2. CASE r \notin W
      <4>1. phase[r] \in {"wait2", "derivation", "share"}
        BY <1>2, <2>2, <3>2
      <4>2. SecondCame(q, r)
        BY <2>4 DEF Flow
      <4> QED BY <2>4, <4>1, <4>2 DEF SecondCame
    <3> QED BY <3>1, <3>2
  <2> QED BY <1>4, <2>4, <2>5
<1>6. phase[p] # "wait2"
  <2>1. SUFFICES ASSUME phase[p] = "wait2" PROVE FALSE
    OBVIOUS
  <2>2. ASSUME NEW r \in Party \ {p} PROVE Second(r) \in Around(p)
    <3>1. SecondCame(p, r)
      BY DEF Flow
    <3> QED BY <1>2, <1>5, <2>1, <3>1 DEF SecondCame
  <2> QED BY <1>4, <2>1, <2>2
<1> QED BY <1>2, <1>5, <1>6

\* Derivations with nothing in transit to them are over.
LEMMA DerivationsEnd ==
    ASSUME IInv, Going, Flow, \A q \in Party : inbox[q] = <<>> /\ phase[q] \in {"derivation", "share"}
    PROVE  \A q \in Party : phase[q] = "share"
<1>1. SUFFICES ASSUME NEW d \in Party, phase[d] = "derivation" PROVE FALSE
  OBVIOUS
<1>2. setting \in DOMAIN Settings
  BY DEF IInv, Types
<1>3. PICK steps : steps = The.steps
  OBVIOUS
<1>4. PICK at : at = [q \in Party |-> drv[q].made]
  OBVIOUS
<1>5. \A q \in Party : at[q] \in 0..Len(steps[q]) /\ Len(steps[q]) \in Nat
  <2>1. \A q \in Party : steps[q] \in Seq([needs : SUBSET (Party \X STRING), sends : Seq(DerivationMessages(q))])
    BY <1>2, <1>3, StepsAssumption DEF The
  <2>2. \A q \in Party : Len(steps[q]) \in Nat
    BY <2>1, LenProperties
  <2> QED BY <1>3, <1>4, <2>2, Made
<1>6. GoesOn(steps, at)
  <2>1. at \in Positions(steps)
    <3>1. at \in [Party -> UNION {0..Len(steps[q]) : q \in Party}] /\ \A q \in Party : at[q] <= Len(steps[q])
      BY <1>4, <1>5
    <3> QED BY <3>1 DEF Positions
  <2>2. at[d] # Len(steps[d])
    <3>1. at[d] < Len(steps[d])
      BY <1>1, <1>3, <1>4 DEF Flow, Waiting
    <3> QED BY <1>5, <3>1
  <2>3. steps = Settings[setting].steps
    BY <1>3 DEF The
  <2> QED BY <1>2, <2>1, <2>2, <2>3, FlowAssumption
<1>7. PICK p \in Party :
        /\ at[p] < Len(steps[p])
        /\ \A need \in steps[p][at[p] + 1].needs :
             \E q \in Party : \E m \in MessagesOf(steps[q], at[q]) : m.to = p /\ need = <<m.from, m.body>>
  BY <1>6 DEF GoesOn
<1>8. p \in Party /\ drv[p].made < Len(The.steps[p])
  BY <1>3, <1>4, <1>7
<1>9. phase[p] = "derivation" /\ ~ The.steps[p][drv[p].made + 1].needs \subseteq drv[p].have
  <2>1. Waiting(p) /\ Len(The.steps[p]) \in Nat /\ drv[p].made \in Nat
    BY <1>3, <1>5, <1>8 DEF Flow, IInv, Types
  <2>2. phase[p] # "share"
    BY <1>8, <2>1 DEF Waiting
  <2> QED BY <1>8, <2>1, <2>2 DEF Waiting
<1>10. ASSUME NEW need \in steps[p][at[p] + 1].needs PROVE need \in drv[p].have
  <2>1. PICK q \in Party : \E m \in MessagesOf(steps[q], at[q]) : m.to = p /\ need = <<m.from, m.body>>
    BY <1>7
  <2>2. PICK m \in MessagesOf(The.steps[q], drv[q].made) : m.to = p /\ need = <<m.from, m.body>>
    BY <1>3, <1>4, <2>1
  <2>3. m.to # q
    BY <1>2, <1>3, <1>4, <1>5, <2>2, OfSteps
  <2>4. DerivedCame(p, q)
    BY <1>8, <2>2, <2>3 DEF Flow
  <2>5. m \in ToSet(inbox[p]) \/ <<m.from, m.body>> \in drv[p].have
    BY <1>9, <2>1, <2>2, <2>4 DEF DerivedCame
  <2>6. ToSet(inbox[p]) = {}
    BY <1>8 DEF ToSet
  <2> QED BY <2>2, <2>5, <2>6
<1> QED BY <1>3, <1>4, <1>8, <1>9, <1>10

-----------------------------------------------------------------------------
(***************************************************************************)
(* The theorems.                                                           *)
(***************************************************************************)

\* The phases are those of the code, a session that still waits for a round
\* keeps fewer messages than complete it (unless its host delivers before it
\* creates the first), and only a derivation has a state.
THEOREM KeygenTypeOK == Spec => []TypeOK
<1>1. IInv => TypeOK
  <2> SUFFICES ASSUME IInv PROVE TypeOK
    OBVIOUS
  <2>1. Types /\ \A p \in Party : Kept(p)
    BY DEF IInv
  <2>2. ASSUME NEW p \in Party
        PROVE  /\ phase[p] \notin {"init", "failed"} => Len(pending[p]) < PARTICIPANTS \/ The.early
               /\ drv[p] # Unstarted => phase[p] \in {"derivation", "share"}
    <3>1. phase[p] \in Phases /\ Kept(p)
      BY <2>1 DEF Types
    <3>2. pending[p] = <<>> => Len(pending[p]) < PARTICIPANTS
      BY DEF PARTICIPANTS
    <3> QED BY <3>1, <3>2 DEF Kept, Phases
  <2> QED BY <2>1, <2>2 DEF TypeOK, Types, Phases
<1> QED BY <1>1, Always, PTL

\* A session fails only of a message of another round, one that came twice, a
\* peer's Abort or its own derivation.
THEOREM FailuresAreRaces == Spec => []FailsOnlyOfRaces
<1>1. IInv => FailsOnlyOfRaces
  BY DEF IInv
<1> QED BY <1>1, Always, PTL

\* No step changes the phase or the kept messages of a session that ended.
THEOREM EndsAreFinal == Spec => EndIsFinal
<1>1. IInv /\ [Next]_vars => [\A p \in Party : is_finished(p) => phase'[p] = phase[p] /\ pending'[p] = pending[p]]_vars
  <2> SUFFICES ASSUME IInv, [Next]_vars, NEW p \in Party, is_finished(p)
               PROVE  phase'[p] = phase[p] /\ pending'[p] = pending[p]
    BY Zenon
  <2> QED BY Ended
<1> QED BY <1>1, Always, PTL DEF Spec, EndIsFinal

\* With nothing in transit any more, sessions that have not ended wait for one
\* that failed or for one that kept more than a round before it was created.
THEOREM NobodyIsForgotten == Spec => []StrandedOnlyEarly
<1>1. IInv /\ FlowInv => StrandedOnlyEarly
  <2> SUFFICES ASSUME IInv, FlowInv, \A p \in Party : inbox[p] = <<>> /\ phase[p] # "init",
                      ~ \E p \in Party : phase[p] = "failed",
                      ~ (The.early /\ \E q \in Party : phase[q] = "wait1" /\ Len(pending[q]) >= PARTICIPANTS)
               PROVE  \A p \in Party : is_finished(p)
    BY Zenon DEF StrandedOnlyEarly
  <2>1. Going /\ Flow
    BY DEF Going, FlowInv
  <2>2. \A p \in Party : phase[p] \in {"derivation", "share"}
    BY <2>1, RoundsPassed
  <2>3. \A p \in Party : phase[p] = "share"
    BY <2>1, <2>2, DerivationsEnd
  <2> QED BY <2>3 DEF is_finished
<1>2. Spec => []FlowInv
  <2>1. Init => FlowInv
    BY FlowStart
  <2>2. IInv /\ FlowInv /\ [Next]_vars => FlowInv'
    BY FlowStep
  <2> QED BY <2>1, <2>2, Always, PTL DEF Spec
<1> QED BY <1>1, <1>2, Always, PTL

=============================================================================
