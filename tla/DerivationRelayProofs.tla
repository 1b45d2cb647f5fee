------------------------ MODULE DerivationRelayProofs ------------------------
(***************************************************************************)
(* Proofs about DerivationRelay, for every field, evaluation points and    *)
(* script of calls: the invariant that the letters of a share conversion   *)
(* carry the padded shares, that parties hold parts of one sharing, and    *)
(* what it says of conversions; then the key pairs made of Yao-shared bits.*)
(***************************************************************************)
EXTENDS DerivationRelay, YaoRelayProofs, SecretSharingProofs

-----------------------------------------------------------------------------
(* The invariant.                                                          *)

\* The tags a party takes in a call of a derivation.
TagsIn(call) ==
    IF call.op = "shamir_to_rss" THEN 2
    ELSE IF call.op \in {"yao_to_rss", "batch_yao_to_rss"} THEN 4 ELSE TagsOf(call)

\* c numbers them: those of call k follow c[k].
Tags(c) ==
    /\ c \in [1..(Len(Script) + 1) -> Nat]
    /\ c[1] = 0
    /\ \A k \in 1..Len(Script) : c[k + 1] = c[k] + TagsIn(Script[k])

Seeding(k)    == k \in 1..Len(Script) /\ Script[k].op = "common_randomness"
Converting(k) == k \in 1..Len(Script) /\ Script[k].op = "shamir_to_rss"

\* The shares the parties bring to call k, the random part parties i and i + 1
\* have of the common randomness of call r, and what they send of the shares.
Brought(k)     == [i \in 0..2 |-> given[i][k]]
RandomParts(r) == [i \in 0..2 |-> RandomShare(KeyNext(given[i][r]))]
SentOf(k)      == PaddedShares(Brought(k), RandomParts(Script[k].randomness))
Converted(k)   == ConvertedShares(SentOf(k), RandomParts(Script[k].randomness))

FirstTag(c, k)  == <<"RECONSTRUCT_1", c[k] + 1>>
SecondTag(c, k) == <<"RECONSTRUCT_2", c[k] + 2>>
SeedTag      == <<"COMMON_RAND_MSG", 0>>

\* v may be in the relay at a.
Fits(c, a, v) ==
    \A k \in 1..Len(Script) :
        /\ Seeding(k) /\ a[3] = SeedTag => v = KeyNext(given[a[1]][k])
        /\ Converting(k) /\ (a[3] = FirstTag(c, k) \/ a[3] = SecondTag(c, k)) => v = SentOf(k)[a[1]]

MailFits(c) == \A a \in DOMAIN mail : Fits(c, a, mail[a])

\* What a round of party i in call k waits for after s awaits, and keeps.
Waiting(c, i, k, s, wanted, keep) ==
    /\ Seeding(k) /\ s = 1 => <<PrevOf(i), i, SeedTag>> \in wanted
    /\ Converting(k) /\ s = 1 => <<NextOf(i), i, FirstTag(c, k)>> \in wanted
    /\ Converting(k) /\ s = 2 => <<PrevOf(i), i, SecondTag(c, k)>> \in wanted /\ keep = SentOf(k)[NextOf(i)]

\* v is what call k leaves party i with.
Outcome(i, k, v) ==
    /\ Seeding(k) => /\ v.key_prev = KeyNext(given[PrevOf(i)][k]) /\ v.key_next = KeyNext(given[i][k])
    /\ Converting(k) => /\ OnLine(SentOf(k)[i], SentOf(k)[NextOf(i)], SentOf(k)[PrevOf(i)], i)
                        /\ v.prev = Converted(k)[i].prev /\ v.next = Converted(k)[i].next

\* Party i is where it should be, waits for what it needs and has what its
\* calls promise.
Keeping(c, i) ==
    /\ at[i] \in 1..(Len(Script) + 1)
    /\ IsList(result[i]) /\ Len(result[i]) = at[i] - 1
    /\ counter[i] = c[at[i]]
    /\ Running(i) => Waiting(c, i, at[i], step[i], asked[i], loc[i])
    /\ \A k \in 1..(at[i] - 1) : Outcome(i, k, result[i][k])

Standing ==
    /\ plan \in DOMAIN Plans /\ given \in Plans[plan].givens
    /\ at = [i \in Parties |-> at[i]]
    /\ DOMAIN step = Parties /\ DOMAIN counter = Parties
    /\ DOMAIN fail = Parties /\ DOMAIN asked = Parties /\ DOMAIN result = Parties /\ DOMAIN loc = Parties

Faithful(c) == Standing /\ Tags(c) /\ MailFits(c) /\ \A i \in Parties : Keeping(c, i)

-----------------------------------------------------------------------------
(* What the invariant gives.                                               *)

LEMMA FewIn == ASSUME NEW call PROVE TagsIn(call) \in 0..4
  BY FewTags DEF TagsIn

LEMMA TheParties ==
    /\ Parties = 0..2
    /\ \A i \in Parties : /\ NextOf(i) \in Parties /\ PrevOf(i) \in Parties
                          /\ NextOf(i) = (i + 1) % 3 /\ PrevOf(i) = (i + 2) % 3
  BY DEF Parties, NextOf, PrevOf

\* What is of the plan and the shares brought does not change.
LEMMA HostsStay ==
    ASSUME plan' = plan, given' = given
    PROVE  /\ Script' = Script
           /\ \A k : /\ (Seeding(k)' <=> Seeding(k)) /\ (Converting(k)' <=> Converting(k))
                     /\ SentOf(k)' = SentOf(k) /\ Converted(k)' = Converted(k)
           /\ \A c : Tags(c)' <=> Tags(c)
           /\ \A c, a, v : Fits(c, a, v)' <=> Fits(c, a, v)
<1>1. Script' = Script
  BY DEF Script
<1>2. \A k : /\ Brought(k)' = Brought(k) /\ RandomParts(k)' = RandomParts(k)
             /\ (Seeding(k)' <=> Seeding(k)) /\ (Converting(k)' <=> Converting(k))
  BY <1>1 DEF Brought, RandomParts, Seeding, Converting
<1>3. \A k : SentOf(k)' = SentOf(k) /\ Converted(k)' = Converted(k)
  BY <1>1, <1>2 DEF SentOf, Converted
<1>4. \A c : Tags(c)' <=> Tags(c)
  BY <1>1 DEF Tags
<1>5. \A c, a, v : Fits(c, a, v)' <=> Fits(c, a, v)
  BY <1>1, <1>2, <1>3 DEF Fits, FirstTag, SecondTag
<1> QED BY <1>1, <1>2, <1>3, <1>4, <1>5

\* A party a step leaves alone.
LEMMA OthersStay ==
    ASSUME NEW c, NEW j, Keeping(c, j), plan' = plan, given' = given,
           at'[j] = at[j], step'[j] = step[j], loc'[j] = loc[j], result'[j] = result[j],
           counter'[j] = counter[j], asked'[j] = asked[j], fail'[j] = fail[j]
    PROVE  Keeping(c, j)'
<1>1. Script' = Script
  BY HostsStay
<1>2. Running(j)' <=> Running(j)
  BY <1>1 DEF Running
<1>3. Running(j)' => Waiting(c, j, at[j], step[j], asked[j], loc[j])'
  BY <1>2, HostsStay DEF Keeping, Waiting, FirstTag, SecondTag
<1>4. \A k \in 1..(at'[j] - 1) : Outcome(j, k, result[j][k])'
  BY HostsStay DEF Keeping, Outcome
<1> QED BY <1>1, <1>3, <1>4 DEF Keeping

\* A running party runs a call of the script.
LEMMA RunsCall ==
    ASSUME NEW c, Faithful(c), NEW i \in Parties, Running(i)
    PROVE  /\ at[i] \in 1..Len(Script) /\ Len(Script) \in Nat /\ Legal(Call(i)) /\ Call(i) = Script[at[i]]
           /\ (Seeding(at[i]) <=> Call(i).op = "common_randomness")
           /\ (Converting(at[i]) <=> Call(i).op = "shamir_to_rss")
<1>1. plan \in DOMAIN Plans /\ at[i] \in 1..(Len(Script) + 1) /\ at[i] <= Len(Script)
  BY DEF Faithful, Standing, Keeping, Running
<1>2. Len(Script) \in Nat /\ \A k \in 1..Len(Script) : Legal(Script[k])
  BY <1>1, Scripts
<1>3. at[i] \in 1..Len(Script)
  BY <1>1, <1>2
<1> QED BY <1>2, <1>3 DEF Call, Seeding, Converting

\* Later calls have later tags, and no tag comes round.
LEMMA TagsGrow ==
    ASSUME plan \in DOMAIN Plans, NEW c, Tags(c)
    PROVE  \A k \in 1..(Len(Script) + 1) : c[k] <= 4 * (k - 1) /\ \A l \in 1..(k - 1) : c[l] + TagsIn(Script[l]) <= c[k]
<1> DEFINE Ok(k) == c[k] <= 4 * (k - 1) /\ \A l \in 1..(k - 1) : c[l] + TagsIn(Script[l]) <= c[k]
           T == {n \in Nat : n + 1 <= Len(Script) + 1 => Ok(n + 1)}
<1>0. Len(Script) \in Nat
  BY Scripts
<1>1. 0 \in T
  BY <1>0 DEF Tags
<1>2. \A n \in Nat : n \in T => n + 1 \in T
  <2> SUFFICES ASSUME NEW n \in Nat, n \in T, n + 2 <= Len(Script) + 1 PROVE Ok(n + 2)
    <3>1. \A n \in Nat : n + 1 + 1 = n + 2 /\ n + 1 \in Nat
      OBVIOUS
    <3> QED BY <3>1, Zenon
  <2>1. PICK h \in Nat : h = n + 1
    OBVIOUS
  <2>2. h \in 1..Len(Script) /\ h \in 1..(Len(Script) + 1) /\ h + 1 = n + 2 /\ h + 1 \in 1..(Len(Script) + 1)
    BY <1>0, <2>1
  <2>3. Ok(h)
    BY <1>0, <2>1
  <2>4. PICK t \in 0..4 : t = TagsIn(Script[h])
    BY FewIn
  <2>5. c[h + 1] = c[h] + t /\ c[h] \in Nat /\ c[h + 1] \in Nat
    BY <2>2, <2>4 DEF Tags
  <2>6. c[h + 1] <= 4 * h
    BY <2>1, <2>3, <2>5
  <2>7. ASSUME NEW l \in 1..h PROVE c[l] + TagsIn(Script[l]) <= c[h + 1]
    <3>1. CASE l = h
      BY <2>4, <2>5, <3>1
    <3>2. CASE l # h
      <4>1. l \in 1..(h - 1) /\ l \in 1..(Len(Script) + 1)
        BY <2>2, <3>2
      <4>2. c[l] + TagsIn(Script[l]) <= c[h]
        BY <2>3, <4>1
      <4>3. PICK x \in Nat, u \in 0..4 : x = c[l] /\ u = TagsIn(Script[l])
        BY <4>1, FewIn DEF Tags
      <4>4. x + u <= c[h] /\ c[h] \in Nat /\ c[h + 1] = c[h] + t
        BY <2>5, <4>2, <4>3
      <4>5. x + u <= c[h + 1]
        BY <4>4
      <4> QED BY <4>3, <4>5
    <3> QED BY <3>1, <3>2
  <2> QED BY <2>1, <2>2, <2>6, <2>7
<1>3. Nat \subseteq T
  <2> HIDE DEF T
  <2> QED BY <1>1, <1>2, NatSet
<1> SUFFICES ASSUME NEW k \in 1..(Len(Script) + 1) PROVE Ok(k)
  OBVIOUS
<1>4. PICK n \in Nat : k = n + 1 /\ n + 1 <= Len(Script) + 1
  BY <1>0
<1> QED BY <1>3, <1>4

\* Tags of an unwrapped counter are as counted, and differ between conversions.
LEMMA TagsBelow ==
    ASSUME Unwrapped, plan \in DOMAIN Plans, NEW c, Tags(c)
    PROVE  /\ \A k \in 1..(Len(Script) + 1) : c[k] \in Nat /\ c[k] < CounterMod
           /\ \A k \in 1..Len(Script) : \A n \in 0..TagsIn(Script[k]) : (c[k] + n) % CounterMod = c[k] + n
           /\ \A k, l \in 1..Len(Script) : Converting(k) /\ Converting(l) =>
                (FirstTag(c, k) = FirstTag(c, l) => k = l) /\ (SecondTag(c, k) = SecondTag(c, l) => k = l)
<1>0. Len(Script) \in Nat /\ 4 * Len(Script) < CounterMod /\ CounterMod \in Nat \ {0}
  BY Scripts, RelayAssumption DEF Unwrapped, Script
<1>1. ASSUME NEW k \in 1..(Len(Script) + 1) PROVE c[k] \in Nat /\ c[k] < CounterMod
  <2>1. c[k] \in Nat /\ c[k] <= 4 * (k - 1)
    BY TagsGrow DEF Tags
  <2> QED BY <1>0, <2>1
<1>2. ASSUME NEW k \in 1..Len(Script), NEW n \in 0..TagsIn(Script[k])
      PROVE  (c[k] + n) % CounterMod = c[k] + n
  <2>1. PICK t \in 0..4 : t = TagsIn(Script[k])
    BY FewIn
  <2>2. k \in 1..(Len(Script) + 1) /\ k + 1 \in 1..(Len(Script) + 1)
    BY <1>0
  <2>3. c[k] \in Nat /\ c[k] + t < CounterMod
    <3>1. c[k + 1] = c[k] + t
      BY <2>1 DEF Tags
    <3> QED BY <1>1, <2>2, <3>1
  <2>4. PICK m \in 0..(CounterMod - 1) : m = c[k] + n
    BY <1>0, <2>1, <2>3
  <2>5. m % CounterMod = m
    <3>1. (0 * CounterMod + m) % CounterMod = m
      <4>1. 0 \in Nat /\ CounterMod \in Nat \ {0} /\ m \in 0..(CounterMod - 1)
        BY <1>0
      <4> QED BY <4>1, Divided, Zenon
    <3>2. 0 * CounterMod + m = m
      BY <1>0
    <3> QED BY <3>1, <3>2
  <2> QED BY <2>4, <2>5
<1>3. ASSUME NEW k \in 1..Len(Script), NEW l \in 1..Len(Script), Converting(k), Converting(l), k < l
      PROVE  c[k] # c[l]
  <2>1. l \in 1..(Len(Script) + 1) /\ k \in 1..(l - 1) /\ k \in 1..(Len(Script) + 1)
    BY <1>0, <1>3
  <2>2. c[k] + 2 <= c[l]
    BY <1>3, <2>1, TagsGrow DEF Converting, TagsIn
  <2> QED BY <1>1, <2>1, <2>2
<1>4. ASSUME NEW k \in 1..Len(Script), NEW l \in 1..Len(Script), Converting(k), Converting(l),
             FirstTag(c, k) = FirstTag(c, l) \/ SecondTag(c, k) = SecondTag(c, l)
      PROVE  k = l
  <2>1. k \in 1..(Len(Script) + 1) /\ l \in 1..(Len(Script) + 1)
    BY <1>0
  <2>2. c[k] \in Nat /\ c[l] \in Nat
    BY <1>1, <2>1
  <2>3. c[k] + 1 = c[l] + 1 \/ c[k] + 2 = c[l] + 2
    BY <1>4 DEF FirstTag, SecondTag
  <2>4. c[k] = c[l]
    BY <2>2, <2>3
  <2>5. k < l \/ l < k \/ k = l
    OBVIOUS
  <2> QED BY <1>3, <1>4, <2>4, <2>5
<1> QED BY <1>1, <1>2, <1>4
-----------------------------------------------------------------------------
(* Steps of one party.                                                     *)

\* What a list holds after one more value.
LEMMA AppendedAt ==
    ASSUME NEW s, IsList(s), NEW v, NEW k \in 1..(Len(s) + 1)
    PROVE  Append(s, v)[k] = IF k = Len(s) + 1 THEN v ELSE s[k]
<1>1. PICK S : s \in Seq(S)
  BY DEF IsList
<1>2. s \in Seq(S \cup {v}) /\ v \in S \cup {v}
  BY <1>1, SeqMonotonic
<1> QED BY <1>2

\* A party sends a letter that fits and waits.
LEMMA AwaitFaithful ==
    ASSUME NEW c, Faithful(c), NEW i \in Parties, Running(i), NEW out, NEW wanted, NEW keep,
           Await(i, out, wanted, keep), \A a \in DOMAIN out : Fits(c, a, out[a]),
           Waiting(c, i, at[i], step[i] + 1, wanted, keep)
    PROVE  Faithful(c)'
<1>1. /\ plan' = plan /\ given' = given /\ at' = at /\ result' = result /\ fail' = fail /\ counter' = counter
      /\ step' = [step EXCEPT ![i] = @ + 1] /\ loc' = [loc EXCEPT ![i] = keep]
      /\ asked' = [asked EXCEPT ![i] = wanted] /\ Exchange(i, out)
  BY DEF Await, hosts, AsksFor
<1>2. Standing'
  BY <1>1 DEF Faithful, Standing
<1>3. Tags(c)'
  BY <1>1, HostsStay DEF Faithful
<1>4. MailFits(c)'
  <2>1. \A a \in DOMAIN mail' : Fits(c, a, mail'[a])
    BY <1>1, Exchanged DEF Faithful, MailFits
  <2>2. \A a \in DOMAIN mail' : Fits(c, a, mail[a])'
    BY <1>1, <2>1, HostsStay
  <2> QED BY <2>2 DEF MailFits
<1>5. \A j \in Parties \ {i} : Keeping(c, j)'
  BY <1>1, OthersStay DEF Faithful, Standing
<1>6. Keeping(c, i)'
  <2>1. Script' = Script /\ step'[i] = step[i] + 1 /\ loc'[i] = keep /\ asked'[i] = wanted
    BY <1>1, HostsStay DEF Faithful, Standing
  <2>2. Keeping(c, i)
    BY DEF Faithful
  <2>3. Waiting(c, i, at[i], step[i], asked[i], loc[i])'
    BY <1>1, <2>1, HostsStay DEF Waiting, FirstTag, SecondTag
  <2>4. \A k \in 1..(at'[i] - 1) : Outcome(i, k, result[i][k])'
    BY <1>1, <2>2, HostsStay DEF Keeping, Outcome
  <2> QED BY <1>1, <2>1, <2>2, <2>3, <2>4 DEF Keeping
<1> QED BY <1>2, <1>3, <1>4, <1>5, <1>6 DEF Faithful

\* A party finishes a call with the outcome it promises.
LEMMA ReturnFaithful ==
    ASSUME Unwrapped, NEW c, Faithful(c), NEW i \in Parties, Running(i), NEW out, NEW value,
           Return(i, out, TagsIn(Call(i)), value), \A a \in DOMAIN out : Fits(c, a, out[a]),
           Outcome(i, at[i], value)
    PROVE  Faithful(c)'
<1>1. /\ plan' = plan /\ given' = given /\ at' = [at EXCEPT ![i] = @ + 1] /\ fail' = fail
      /\ counter' = [counter EXCEPT ![i] = (@ + TagsIn(Call(i))) % CounterMod]
      /\ result' = [result EXCEPT ![i] = Append(@, value)]
      /\ step' = [step EXCEPT ![i] = 0] /\ loc' = [loc EXCEPT ![i] = <<>>]
      /\ asked' = [asked EXCEPT ![i] = {}] /\ Exchange(i, out)
  BY DEF Return, hosts, AsksFor, TakeTags
<1>2. Standing'
  BY <1>1 DEF Faithful, Standing
<1>3. Tags(c)'
  BY <1>1, HostsStay DEF Faithful
<1>4. MailFits(c)'
  <2>1. \A a \in DOMAIN mail' : Fits(c, a, mail'[a])
    BY <1>1, Exchanged DEF Faithful, MailFits
  <2>2. \A a \in DOMAIN mail' : Fits(c, a, mail[a])'
    BY <1>1, <2>1, HostsStay
  <2> QED BY <2>2 DEF MailFits
<1>5. \A j \in Parties \ {i} : Keeping(c, j)'
  BY <1>1, OthersStay DEF Faithful, Standing
<1>6. Keeping(c, i)'
  <2>1. /\ Script' = Script /\ step'[i] = 0 /\ at'[i] = at[i] + 1 /\ result'[i] = Append(result[i], value)
        /\ counter'[i] = (counter[i] + TagsIn(Call(i))) % CounterMod
    BY <1>1, HostsStay DEF Faithful, Standing
  <2>2. Keeping(c, i) /\ at[i] \in 1..Len(Script) /\ Len(Script) \in Nat /\ Call(i) = Script[at[i]]
    BY RunsCall DEF Faithful
  <2>3. IsList(result[i]) /\ Len(result[i]) = at[i] - 1 /\ counter[i] = c[at[i]]
    BY <2>2 DEF Keeping
  <2>4. IsList(result'[i]) /\ Len(result'[i]) = at'[i] - 1
    BY <2>1, <2>2, <2>3, Appended
  <2>5. counter'[i] = c[at'[i]]
    <3>1. PICK t \in 0..4 : t = TagsIn(Script[at[i]])
      BY FewIn
    <3>2. plan \in DOMAIN Plans /\ Tags(c)
      BY DEF Faithful, Standing
    <3>3. (c[at[i]] + t) % CounterMod = c[at[i]] + t
      <4>1. t \in 0..TagsIn(Script[at[i]])
        BY <3>1
      <4> QED BY <2>2, <3>2, <4>1, TagsBelow
    <3>4. c[at[i] + 1] = c[at[i]] + t
      BY <2>2, <3>1, <3>2 DEF Tags
    <3> QED BY <2>1, <2>2, <2>3, <3>1, <3>3, <3>4
  <2>6. \A k \in 1..at[i] : result'[i][k] = IF k = at[i] THEN value ELSE result[i][k]
    BY <2>1, <2>2, <2>3, AppendedAt
  <2>7. \A k \in 1..(at'[i] - 1) : Outcome(i, k, result'[i][k])
    <3> SUFFICES ASSUME NEW k \in 1..(at'[i] - 1) PROVE Outcome(i, k, result'[i][k])
      OBVIOUS
    <3>0. k \in 1..at[i]
      BY <2>1, <2>2
    <3>1. CASE k = at[i]
      BY <2>6, <3>0, <3>1
    <3>2. CASE k # at[i]
      <4>1. k \in 1..(at[i] - 1)
        BY <2>2, <3>0, <3>2
      <4> QED BY <2>2, <2>6, <3>0, <3>2, <4>1 DEF Keeping
    <3> QED BY <3>1, <3>2
  <2>8. \A k \in 1..(at'[i] - 1) : Outcome(i, k, result[i][k])'
    <3> SUFFICES ASSUME NEW k \in 1..(at'[i] - 1) PROVE Outcome(i, k, result[i][k])'
      OBVIOUS
    <3>1. Outcome(i, k, result'[i][k])
      BY <2>7
    <3> QED BY <1>1, <3>1, HostsStay DEF Outcome
  <2>9. Waiting(c, i, at[i], step[i], asked[i], loc[i])'
    BY <2>1 DEF Waiting
  <2>10. at'[i] \in 1..(Len(Script) + 1)
    BY <2>1, <2>2
  <2> QED BY <2>1, <2>4, <2>5, <2>8, <2>9, <2>10 DEF Keeping
<1> QED BY <1>2, <1>3, <1>4, <1>5, <1>6 DEF Faithful

\* A step that ends the run of party i.
LEMMA EndFaithful ==
    ASSUME NEW c, Faithful(c), NEW i \in Parties, NEW error, error # "", plan' = plan, given' = given,
           at' = at, step' = step, loc' = loc, result' = result, counter' = counter,
           fail' = [fail EXCEPT ![i] = error], DOMAIN asked' = Parties,
           \A j \in Parties \ {i} : asked'[j] = asked[j],
           \A a \in DOMAIN mail' : a \in DOMAIN mail /\ mail'[a] = mail[a]
    PROVE  Faithful(c)'
<1>1. Standing'
  BY DEF Faithful, Standing
<1>2. Tags(c)'
  BY HostsStay DEF Faithful
<1>3. MailFits(c)'
  <2>1. \A a \in DOMAIN mail' : Fits(c, a, mail'[a])
    BY DEF Faithful, MailFits
  <2>2. \A a \in DOMAIN mail' : Fits(c, a, mail[a])'
    BY <2>1, HostsStay
  <2> QED BY <2>2 DEF MailFits
<1>4. \A j \in Parties \ {i} : Keeping(c, j)'
  BY OthersStay DEF Faithful, Standing
<1>5. Keeping(c, i)'
  <2>1. Script' = Script /\ fail'[i] = error /\ ~ Running(i)'
    BY HostsStay DEF Faithful, Standing, Running
  <2>0. Keeping(c, i)
    BY DEF Faithful
  <2>2. \A k \in 1..(at'[i] - 1) : Outcome(i, k, result[i][k])'
    BY <2>0, HostsStay, ZenonT(40) DEF Keeping, Outcome
  <2> QED BY <2>1, <2>2 DEF Faithful, Keeping
<1> QED BY <1>1, <1>2, <1>3, <1>4, <1>5 DEF Faithful

LEMMA NoMail == DOMAIN <<>> = {}
  OBVIOUS

\* A party that fails, and one that does nothing more.
LEMMA ThrowFaithful ==
    ASSUME NEW c, Faithful(c), NEW i \in Parties, NEW error, error # "", Throw(i, error)
    PROVE  Faithful(c)'
<1>1. /\ plan' = plan /\ given' = given /\ at' = at /\ step' = step /\ loc' = loc /\ result' = result
      /\ counter' = counter /\ fail' = [fail EXCEPT ![i] = error] /\ asked' = [asked EXCEPT ![i] = {}]
      /\ Exchange(i, <<>>)
  BY DEF Throw, hosts, own, AsksFor
<1>2. DOMAIN asked' = Parties /\ \A j \in Parties \ {i} : asked'[j] = asked[j]
  BY <1>1 DEF Faithful, Standing
<1>3. \A a \in DOMAIN mail' : a \in DOMAIN mail /\ mail'[a] = mail[a]
  <2> QED BY <1>1, NoMail, Exchanged
<1> QED BY <1>1, <1>2, <1>3, EndFaithful

LEMMA StopFaithful ==
    ASSUME NEW c, Faithful(c), NEW i \in Parties, HostAborts(i)
    PROVE  Faithful(c)'
<1>1. /\ plan' = plan /\ given' = given /\ at' = at /\ step' = step /\ loc' = loc /\ result' = result
      /\ counter' = counter /\ fail' = [fail EXCEPT ![i] = "stopped"] /\ asked' = asked /\ mail' = mail
  BY DEF HostAborts, hosts, own
<1>2. DOMAIN asked' = Parties /\ \A j \in Parties \ {i} : asked'[j] = asked[j]
  BY <1>1 DEF Faithful, Standing
<1>3. "stopped" # "" /\ \A a \in DOMAIN mail' : a \in DOMAIN mail /\ mail'[a] = mail[a]
  BY <1>1
<1> QED BY <1>1, <1>2, <1>3, EndFaithful

LEMMA StayFaithful ==
    ASSUME NEW c, Faithful(c), UNCHANGED vars
    PROVE  Faithful(c)'
<1>1. /\ plan' = plan /\ given' = given /\ at' = at /\ step' = step /\ loc' = loc /\ result' = result
      /\ counter' = counter /\ fail' = fail /\ asked' = asked /\ mail' = mail
  BY DEF vars, relayvars, hosts, own
<1>2. Standing' /\ Tags(c)'
  BY <1>1, HostsStay DEF Faithful, Standing
<1>3. MailFits(c)'
  BY <1>1, HostsStay DEF Faithful, MailFits
<1>4. \A j \in Parties : Keeping(c, j)'
  BY <1>1, OthersStay DEF Faithful
<1> QED BY <1>2, <1>3, <1>4 DEF Faithful
-----------------------------------------------------------------------------
(* The steps of other calls.                                               *)

\* Letters that are of neither protocol.
NotOurs(out) == \A a \in DOMAIN out : a[3][1] \notin {"RECONSTRUCT_1", "RECONSTRUCT_2", "COMMON_RAND_MSG"}

\* A step of a call that is neither: what it sends and how many tags it takes.
Elsewhere(i) ==
    /\ Running(i) /\ Call(i).op \notin {"common_randomness", "shamir_to_rss"}
    /\ \/ \E out, wanted, keep : NotOurs(out) /\ Await(i, out, wanted, keep)
       \/ \E out, value : NotOurs(out) /\ Return(i, out, TagsIn(Call(i)), value)
       \/ \E error : error # "" /\ Throw(i, error)

LEMMA NotOursFits == ASSUME NEW c, NEW out, NotOurs(out) PROVE \A a \in DOMAIN out : Fits(c, a, out[a])
<1> SUFFICES ASSUME NEW a \in DOMAIN out PROVE Fits(c, a, out[a])
  OBVIOUS
<1>1. a[3][1] \notin {"RECONSTRUCT_1", "RECONSTRUCT_2", "COMMON_RAND_MSG"}
  BY DEF NotOurs
<1>2. a[3] # SeedTag /\ \A k : a[3] # FirstTag(c, k) /\ a[3] # SecondTag(c, k)
  BY <1>1 DEF SeedTag, FirstTag, SecondTag
<1> QED BY <1>2 DEF Fits

\* Such a step keeps the invariant.
LEMMA ElsewhereFaithful ==
    ASSUME Unwrapped, NEW c, Faithful(c), NEW i \in Parties, Elsewhere(i)
    PROVE  Faithful(c)'
<1>1. Running(i) /\ ~ Seeding(at[i]) /\ ~ Converting(at[i])
  BY RunsCall DEF Elsewhere
<1>2. ASSUME NEW out, NEW wanted, NEW keep, NotOurs(out), Await(i, out, wanted, keep) PROVE Faithful(c)'
  <2>1. Waiting(c, i, at[i], step[i] + 1, wanted, keep)
    BY <1>1 DEF Waiting
  <2>2. \A a \in DOMAIN out : Fits(c, a, out[a])
    BY <1>2, NotOursFits
  <2> QED BY <1>1, <1>2, <2>1, <2>2, AwaitFaithful
<1>3. ASSUME NEW out, NEW value, NotOurs(out), Return(i, out, TagsIn(Call(i)), value) PROVE Faithful(c)'
  <2>1. Outcome(i, at[i], value)
    BY <1>1 DEF Outcome
  <2>2. \A a \in DOMAIN out : Fits(c, a, out[a])
    BY <1>3, NotOursFits
  <2> QED BY <1>1, <1>3, <2>1, <2>2, ReturnFaithful
<1>4. ASSUME NEW error, error # "", Throw(i, error) PROVE Faithful(c)'
  BY <1>4, ThrowFaithful
<1> QED BY <1>2, <1>3, <1>4 DEF Elsewhere

LEMMA LetterNames ==
    ASSUME NEW call, Legal(call), NEW l \in Letters(call)
    PROVE  l.name \notin {"RECONSTRUCT_1", "RECONSTRUCT_2", "COMMON_RAND_MSG"}
<1>1. CASE call.op = "setup_yao"
  BY <1>1, SetupTable DEF Letter
<1>2. CASE call.op \in {"input_yao", "batch_input_yao"}
  BY <1>2, SameInputTable DEF Letter
<1>3. CASE call.op = "input_from" /\ call.pid # 2
  BY <1>3, FromGarblerTable DEF Letter
<1>4. CASE call.op = "input_from" /\ call.pid = 2
  BY <1>4, FromEvaluatorTable DEF Letter
<1>5. CASE call.op = "input_from_all"
  BY <1>5, AllTable DEF Letter
<1>6. CASE call.op \in {"circuit_eval", "map_circuit_eval"}
  BY <1>6, EvalTable DEF Letter
<1>7. CASE call.op = "validate"
  BY <1>7, ValidateTable DEF Letter
<1>8. CASE call.op \in {"output_yao", "batch_output_yao"}
  BY <1>8, OutputTable DEF Letter
<1>9. CASE call.op \in {"output_yao_to", "batch_output_yao_to"} /\ call.pid = 2
  BY <1>9, OutputToEvaluatorTable DEF Letter
<1>10. CASE call.op \in {"output_yao_to", "batch_output_yao_to"} /\ call.pid # 2
  BY <1>10, OutputToGarblerTable DEF Letter
<1>11. CASE call.op \in {"binary_to_yao", "batch_binary_to_yao"}
  BY <1>11, BinaryToYaoTable DEF Letter
<1>12. CASE call.op = "yao_to_binary"
  BY <1>12, ToBinaryTable DEF Letter
<1>13. CASE call.op = "batch_yao_to_binary"
  BY <1>13, ToBinariesTable DEF Letter
<1>14. CASE call.op \notin {"setup_yao", "input_yao", "batch_input_yao", "input_from", "input_from_all",
                            "circuit_eval", "map_circuit_eval", "validate", "output_yao",
                            "batch_output_yao", "output_yao_to", "batch_output_yao_to",
                            "binary_to_yao", "batch_binary_to_yao", "yao_to_binary", "batch_yao_to_binary"}
  <2>1. Letters(call) = {}
    BY <1>14, Zenon DEF Letters
  <2> QED BY <2>1
<1> QED BY <1>1, <1>2, <1>3, <1>4, <1>5, <1>6, <1>7, <1>8, <1>9, <1>10, <1>11, <1>12, <1>13, <1>14

\* The calls that are not the relay Yao protocols' own.
Conversions == {"common_randomness", "shamir_to_rss", "require", "yao_to_rss", "batch_yao_to_rss"}

LEMMA StepOps == ASSUME NEW i, Step(i) PROVE Call(i).op \notin Conversions
<1>1. CASE SetupYao(i)
  BY <1>1 DEF SetupYao, SetupEvaluator, SetupGarbler0, SetupGarbler1, On, Conversions
<1>2. CASE InputYao(i) \/ BatchInputYao(i)
  BY <1>2 DEF InputYao, BatchInputYao, SameInput, On, Conversions
<1>3. CASE InputFromGarbler(i) \/ InputFromEvaluator(i)
  BY <1>3 DEF InputFromGarbler, InputFromEvaluator, On, Conversions
<1>4. CASE InputFromAll(i)
  BY <1>4 DEF InputFromAll, InputFromAllGarbler, InputFromAllEvaluator, On, Conversions
<1>5. CASE CircuitEval(i) \/ MapCircuitEval(i)
  BY <1>5 DEF CircuitEval, MapCircuitEval, EvalGarbler, EvalEvaluator, On, Conversions
<1>6. CASE Validate(i)
  BY <1>6 DEF Validate, On, Conversions
<1>7. CASE OutputYao(i) \/ BatchOutputYao(i)
  BY <1>7 DEF OutputYao, BatchOutputYao, OutputToAll, On, Conversions
<1>8. CASE OutputYaoTo(i) \/ BatchOutputYaoTo(i)
  BY <1>8 DEF OutputYaoTo, BatchOutputYaoTo, OutputToOne, On, Conversions
<1>9. CASE BinaryToYao(i) \/ BatchBinaryToYao(i)
  BY <1>9 DEF BinaryToYao, BatchBinaryToYao, BinaryToYaoSteps, On, Conversions
<1>10. CASE YaoToBinary(i)
  BY <1>10 DEF YaoToBinary, YaoToBinaryGarbler0, YaoToBinaryGarbler1, YaoToBinaryEvaluator, On, Conversions
<1>11. CASE BatchYaoToBinary(i)
  BY <1>11 DEF BatchYaoToBinary, YaoToBinaryGarbler0, YaoToBinaryGarbler1, YaoToBinaryEvaluator, On, Conversions
<1>12. CASE Bring(i) \/ XorShares(i)
  BY <1>12 DEF Bring, XorShares, On, Conversions
<1> QED BY <1>1, <1>2, <1>3, <1>4, <1>5, <1>6, <1>7, <1>8, <1>9, <1>10, <1>11, <1>12 DEF Step

\* Every other protocol is one: those of YaoRelay, and of derivations.
LEMMA StepElsewhere ==
    ASSUME NEW c, Faithful(c), NEW i \in Parties, Step(i)
    PROVE  Elsewhere(i)
<1>1. Call(i).op \notin Conversions /\ Running(i) /\ Moves(i)
  BY StepOps, StepMoves DEF Moves
<1>2. Legal(Call(i))
  BY <1>1, RunsCall
<1>3. TagsIn(Call(i)) = TagsOf(Call(i)) /\ Call(i).op \notin {"common_randomness", "shamir_to_rss"}
  BY <1>1 DEF TagsIn, Conversions
<1>4. ASSUME NEW out, Posts(i, out) PROVE NotOurs(out)
  <2> SUFFICES ASSUME NEW a \in DOMAIN out
               PROVE  a[3][1] \notin {"RECONSTRUCT_1", "RECONSTRUCT_2", "COMMON_RAND_MSG"}
    BY DEF NotOurs
  <2>1. PICK l \in Letters(Call(i)) : a = Here(i, l)
    BY <1>4 DEF Posts, Outgoing
  <2>2. a[3][1] = l.name
    BY <2>1 DEF Here
  <2> QED BY <1>2, <2>1, <2>2, LetterNames
<1>5. CASE Awaits(i)
  BY <1>1, <1>3, <1>4, <1>5 DEF Awaits, Elsewhere
<1>6. CASE Returns(i)
  BY <1>1, <1>3, <1>4, <1>6 DEF Returns, Elsewhere
<1>7. CASE Throws(i)
  BY <1>1, <1>3, <1>7, NotStopped DEF Throws, Elsewhere
<1> QED BY <1>1, <1>5, <1>6, <1>7 DEF Moves

LEMMA RequireElsewhere ==
    ASSUME NEW c, Faithful(c), NEW i \in Parties, RequireVerified(i)
    PROVE  Elsewhere(i)
<1>1. Running(i) /\ Call(i).op = "require"
  BY DEF RequireVerified, On
<1>2. TagsIn(Call(i)) = 0
  BY <1>1 DEF TagsIn, TagsOf
<1>3. PICK error : Finish(i, error, <<>>, 0, <<>>)
  BY DEF RequireVerified
<1>4. NotOurs(<<>>)
  BY NoMail DEF NotOurs
<1> QED BY <1>1, <1>2, <1>3, <1>4 DEF Elsewhere, Finish

\* The messages of a conversion of Yao shares.
LEMMA KeyTagNames ==
    ASSUME NEW i, NEW j, NEW h, NEW k \in 1..4, NEW body
    PROVE  NotOurs(Sent(i, j, KeyTag(h, k), body))
<1>1. DOMAIN Sent(i, j, KeyTag(h, k), body) = {<<i, j, KeyTag(h, k)>>}
  BY DEF Sent
<1>2. KeyTag(h, k)[1] \in {"YAO_TO_RSS_MSG1", "YAO_TO_RSS_MSG2", "YAO_TO_RSS_MSG3", "YAO_TO_RSS_MSG4"}
  BY DEF KeyTag, Tag
<1> QED BY <1>1, <1>2 DEF NotOurs

LEMMA BothNotOurs ==
    ASSUME NEW out, NEW old, NotOurs(out), NotOurs(old) PROVE NotOurs(Both(out, old))
  BY DEF NotOurs, Both

LEMMA TwoIs == 1 # 0 /\ 2 # 0 /\ 2 # 1 /\ 3 # 0 /\ 3 # 1 /\ 3 # 2 /\ 1 # 2 /\ 0 # 1 /\ 0 # 2 /\ 0 # 3 /\ 1 # 3 /\ 2 # 3
  OBVIOUS

LEMMA YaoToRssGarblerElsewhere ==
    ASSUME NEW c, Faithful(c), NEW i \in Parties, NEW op, op \in {"yao_to_rss", "batch_yao_to_rss"}, YaoToRssGarbler(i, op)
    PROVE  Elsewhere(i)
<1>1. Running(i) /\ Call(i).op = op /\ step[i] \in {0, 1, 2}
  BY Zenon DEF YaoToRssGarbler, On
<1>2. TagsIn(Call(i)) = 4 /\ Call(i).op \notin {"common_randomness", "shamir_to_rss"}
  BY <1>1 DEF TagsIn
<1>3. CASE step[i] = 0
  <2>1. PICK body, wanted, keep : Await(i, Sent(i, 2, KeyTag(i, 1), body), wanted, keep)
    BY <1>3, TwoIs, Zenon DEF YaoToRssGarbler, On
  <2>2. NotOurs(Sent(i, 2, KeyTag(i, 1), body))
    BY KeyTagNames
  <2> QED BY <1>1, <1>2, <2>1, <2>2 DEF Elsewhere
<1>4. CASE step[i] = 1
  <2>1. PICK one, other, wanted, keep :
          Await(i, Both(Sent(i, 1 - i, KeyTag(i, 3), one), Sent(i, 2, KeyTag(i, 3), other)), wanted, keep)
    BY <1>4, TwoIs, Zenon DEF YaoToRssGarbler, On
  <2>2. NotOurs(Both(Sent(i, 1 - i, KeyTag(i, 3), one), Sent(i, 2, KeyTag(i, 3), other)))
    BY KeyTagNames, BothNotOurs
  <2> QED BY <1>1, <1>2, <2>1, <2>2 DEF Elsewhere
<1>5. CASE step[i] = 2
  <2>1. PICK error, body, value : Finish(i, error, Sent(i, 2, KeyTag(i, 4), body), 4, value)
    BY <1>5, TwoIs, Zenon DEF YaoToRssGarbler, On
  <2>2. NotOurs(Sent(i, 2, KeyTag(i, 4), body))
    BY KeyTagNames
  <2> QED BY <1>1, <1>2, <2>1, <2>2 DEF Elsewhere, Finish
<1> QED BY <1>1, <1>3, <1>4, <1>5

LEMMA YaoToRssEvaluatorElsewhere ==
    ASSUME NEW c, Faithful(c), NEW i \in Parties, NEW op, op \in {"yao_to_rss", "batch_yao_to_rss"}, YaoToRssEvaluator(i, op)
    PROVE  Elsewhere(i)
<1>1. Running(i) /\ Call(i).op = op /\ step[i] \in {0, 1, 2, 3}
  BY Zenon DEF YaoToRssEvaluator, On
<1>2. TagsIn(Call(i)) = 4 /\ Call(i).op \notin {"common_randomness", "shamir_to_rss"}
  BY <1>1 DEF TagsIn
<1>3. NotOurs(<<>>) /\ "panic" # ""
  BY NoMail DEF NotOurs
<1>4. CASE step[i] = 0
  <2>1. PICK wanted : Await(i, <<>>, wanted, <<>>)
    BY <1>4, TwoIs, Zenon DEF YaoToRssEvaluator, On
  <2> QED BY <1>1, <1>2, <1>3, <2>1 DEF Elsewhere
<1>5. CASE step[i] = 1
  <2>1. Throw(i, "panic") \/ \E a, b, d, e, wanted, keep :
          Await(i, Both(Both(Sent(2, 0, KeyTag(i, 2), a), Sent(2, 0, KeyTag(i, 3), b)),
                        Both(Sent(2, 1, KeyTag(i, 2), d), Sent(2, 1, KeyTag(i, 3), e))), wanted, keep)
    <3> DEFINE n == Len(Call(i).groups)
               m == Got(i, 0, KeyTag(i, 1))
               p(sk) == [k \in 1..n |-> KeyParts(i, k, m[k], sk[k])]
               part(sk) == [k \in 1..n |-> [pki |-> p(sk)[k].sk[3], pkip2 |-> p(sk)[k].sk[1]]]
               to(sk, j) == Both(Sent(2, j, KeyTag(i, 2), [k \in 1..n |-> KeyMsg2(p(sk)[k], j)]),
                                 Sent(2, j, KeyTag(i, 3), part(sk)))
    <3>1. Throw(i, "panic") \/ \E sk : Await(i, Both(to(sk, 0), to(sk, 1)), Ask(i, {0, 1}, KeyTag(i, 3)),
                                             [p |-> p(sk), part |-> part(sk)])
      BY <1>5, TwoIs, Zenon DEF YaoToRssEvaluator, On
    <3> QED BY <3>1, Zenon
  <2>2. CASE Throw(i, "panic")
    BY <1>1, <1>2, <1>3, <2>2 DEF Elsewhere
  <2>3. ASSUME NEW a, NEW b, NEW d, NEW e, NEW wanted, NEW keep,
               Await(i, Both(Both(Sent(2, 0, KeyTag(i, 2), a), Sent(2, 0, KeyTag(i, 3), b)),
                             Both(Sent(2, 1, KeyTag(i, 2), d), Sent(2, 1, KeyTag(i, 3), e))), wanted, keep)
        PROVE  Elsewhere(i)
    <3>1. /\ NotOurs(Both(Sent(2, 0, KeyTag(i, 2), a), Sent(2, 0, KeyTag(i, 3), b)))
          /\ NotOurs(Both(Sent(2, 1, KeyTag(i, 2), d), Sent(2, 1, KeyTag(i, 3), e)))
      BY KeyTagNames, BothNotOurs
    <3>2. NotOurs(Both(Both(Sent(2, 0, KeyTag(i, 2), a), Sent(2, 0, KeyTag(i, 3), b)),
                       Both(Sent(2, 1, KeyTag(i, 2), d), Sent(2, 1, KeyTag(i, 3), e))))
      BY <3>1, BothNotOurs
    <3> QED BY <1>1, <1>2, <2>3, <3>2 DEF Elsewhere
  <2> QED BY <2>1, <2>2, <2>3
<1>6. CASE step[i] = 2
  <2>1. Throw(i, "panic") \/ \E wanted, keep : Await(i, <<>>, wanted, keep)
    BY <1>6, TwoIs, Zenon DEF YaoToRssEvaluator, On
  <2> QED BY <1>1, <1>2, <1>3, <2>1 DEF Elsewhere
<1>7. CASE step[i] = 3
  <2>1. PICK error, value : Finish(i, error, <<>>, 4, value)
    BY <1>7, TwoIs, Zenon DEF YaoToRssEvaluator, On
  <2> QED BY <1>1, <1>2, <1>3, <2>1 DEF Elsewhere, Finish
<1> QED BY <1>1, <1>4, <1>5, <1>6, <1>7

-----------------------------------------------------------------------------
(* The steps of the conversion.                                            *)

\* What the hosts bring to it.
LEMMA BroughtIs ==
    ASSUME NEW c, Faithful(c)
    PROVE  /\ \A k \in 1..Len(Script) : Seeding(k) =>
                /\ "mine" \notin DOMAIN Script[k]
                /\ \A l \in 1..Len(Script) : Seeding(l) => l = k
                /\ RandomParts(k) \in [0..2 -> Field]
           /\ \A k \in 1..Len(Script) : Converting(k) =>
                /\ "mine" \notin DOMAIN Script[k]
                /\ Script[k].randomness \in 1..(k - 1) /\ Seeding(Script[k].randomness)
                /\ Brought(k) \in [0..2 -> Field] /\ RandomParts(Script[k].randomness) \in [0..2 -> Field]
<1>1. plan \in DOMAIN Plans /\ given \in Plans[plan].givens
  BY DEF Faithful, Standing
<1>2. Len(Script) \in Nat /\ DOMAIN Script = 1..Len(Script)
  BY <1>1, Scripts
<1>3. \A k \in 1..Len(Script) :
        /\ Seeding(k) =>
             /\ "mine" \notin DOMAIN Script[k]
             /\ \A l \in 1..Len(Script) : Seeding(l) => l = k
             /\ \A i \in Parties : RandomShare(KeyNext(given[i][k])) \in Field
        /\ Converting(k) =>
             /\ "mine" \notin DOMAIN Script[k]
             /\ Script[k].randomness \in 1..(k - 1) /\ Script[Script[k].randomness].op = "common_randomness"
             /\ \A i \in Parties : given[i][k] \in Field
  BY <1>1, <1>2, DerivationAssumption DEF Script, Seeding, Converting
<1>4. ASSUME NEW k \in 1..Len(Script), Converting(k) PROVE Seeding(Script[k].randomness)
  <2>1. Script[k].randomness \in 1..(k - 1)
    BY <1>3, <1>4
  <2>2. Script[k].randomness \in 1..Len(Script)
    BY <1>2, <2>1
  <2> QED BY <1>3, <1>4, <2>2 DEF Seeding
<1>5. \A k \in 1..Len(Script) : Seeding(k) => RandomParts(k) \in [0..2 -> Field]
  BY <1>3 DEF RandomParts, Parties
<1>6. \A k \in 1..Len(Script) : Converting(k) => Brought(k) \in [0..2 -> Field]
  BY <1>3 DEF Brought, Parties
<1>7. \A r : Seeding(r) => r \in 1..Len(Script)
  BY DEF Seeding
<1> QED BY <1>3, <1>4, <1>5, <1>6, <1>7

\* run_common_randomness keeps the invariant.
LEMMA SeedFits ==
    ASSUME NEW c, Faithful(c), NEW i \in Parties, NEW j, Seeding(at[i])
    PROVE  \A a \in DOMAIN Sent(i, j, SeedTag, KeyNext(given[i][at[i]])) :
             Fits(c, a, Sent(i, j, SeedTag, KeyNext(given[i][at[i]]))[a])
<1> DEFINE out == Sent(i, j, SeedTag, KeyNext(given[i][at[i]]))
<1>1. DOMAIN out = {<<i, j, SeedTag>>} /\ out[<<i, j, SeedTag>>] = KeyNext(given[i][at[i]])
  BY DEF Sent
<1> SUFFICES Fits(c, <<i, j, SeedTag>>, KeyNext(given[i][at[i]]))
  BY <1>1
<1>2. \A k : SeedTag # FirstTag(c, k) /\ SeedTag # SecondTag(c, k)
  BY DEF SeedTag, FirstTag, SecondTag
<1>3. at[i] \in 1..Len(Script) /\ \A k \in 1..Len(Script) : Seeding(k) => k = at[i]
  BY BroughtIs DEF Seeding
<1> QED BY <1>2, <1>3 DEF Fits

LEMMA CommonRandomnessFaithful ==
    ASSUME Unwrapped, NEW c, Faithful(c), NEW i \in Parties, CommonRandomness(i)
    PROVE  Faithful(c)'
<1>1. Running(i) /\ Call(i).op = "common_randomness" /\ step[i] \in {0, 1} /\ Complete(i)
  BY Zenon DEF CommonRandomness, On
<1>2. Seeding(at[i]) /\ ~ Converting(at[i]) /\ at[i] \in 1..Len(Script) /\ Call(i) = Script[at[i]]
  BY <1>1, RunsCall DEF Seeding, Converting
<1>3. Mine(i) = given[i][at[i]]
  BY <1>2, BroughtIs DEF Mine
<1>4. TagsIn(Call(i)) = 0
  BY <1>1 DEF TagsIn, TagsOf
<1>5. CASE step[i] = 0
  <2>1. Await(i, Sent(i, NextOf(i), SeedTag, KeyNext(Mine(i))), Ask(i, {PrevOf(i)}, SeedTag), <<>>)
    BY <1>5, TwoIs, Zenon DEF CommonRandomness, On, SeedTag
  <2>2. Waiting(c, i, at[i], step[i] + 1, Ask(i, {PrevOf(i)}, SeedTag), <<>>)
    BY <1>2, <1>5 DEF Waiting, Ask
  <2> QED BY <1>1, <1>2, <1>3, <2>1, <2>2, SeedFits, AwaitFaithful
<1>6. CASE step[i] = 1
  <2>1. PICK error : Finish(i, error, <<>>, 0, [key_prev |-> Got(i, PrevOf(i), SeedTag), key_next |-> KeyNext(Mine(i))])
    BY <1>6, TwoIs, Zenon DEF CommonRandomness, On, SeedTag
  <2>2. Got(i, PrevOf(i), SeedTag) = KeyNext(given[PrevOf(i)][at[i]])
    <3>1. Keeping(c, i) /\ MailFits(c)
      BY DEF Faithful
    <3>2. <<PrevOf(i), i, SeedTag>> \in DOMAIN mail
      BY <1>1, <1>2, <1>6, <3>1 DEF Keeping, Waiting, Complete
    <3>3. Fits(c, <<PrevOf(i), i, SeedTag>>, mail[<<PrevOf(i), i, SeedTag>>])
      BY <3>1, <3>2 DEF MailFits
    <3> QED BY <1>2, <3>3 DEF Fits, Got
  <2>3. Outcome(i, at[i], [key_prev |-> Got(i, PrevOf(i), SeedTag), key_next |-> KeyNext(Mine(i))])
    BY <1>2, <1>3, <2>2 DEF Outcome
  <2>4. \A a \in DOMAIN <<>> : Fits(c, a, <<>>[a])
    BY NoMail
  <2>5. CASE error = ""
    <3>1. Return(i, <<>>, TagsIn(Call(i)), [key_prev |-> Got(i, PrevOf(i), SeedTag), key_next |-> KeyNext(Mine(i))])
      BY <1>4, <2>1, <2>5 DEF Finish
    <3> QED BY <1>1, <2>3, <2>4, <3>1, ReturnFaithful
  <2>6. CASE error # ""
    <3>1. Throw(i, error)
      BY <2>1, <2>6 DEF Finish
    <3> QED BY <2>6, <3>1, ThrowFaithful
  <2> QED BY <2>5, <2>6
<1> QED BY <1>1, <1>5, <1>6

-----------------------------------------------------------------------------

\* What a party that converts has of the random parts, and sends.
LEMMA PaddedIsSent ==
    ASSUME NEW c, Faithful(c), NEW i \in Parties, Running(i), Call(i).op = "shamir_to_rss"
    PROVE  /\ Converting(at[i]) /\ ~ Seeding(at[i]) /\ at[i] \in 1..Len(Script)
           /\ RandomRss(i).prev = RandomParts(Script[at[i]].randomness)[PrevOf(i)]
           /\ RandomRss(i).next = RandomParts(Script[at[i]].randomness)[i]
           /\ Padded(i) = SentOf(at[i])[i]
<1>1. Converting(at[i]) /\ ~ Seeding(at[i]) /\ at[i] \in 1..Len(Script) /\ Call(i) = Script[at[i]]
  BY RunsCall DEF Seeding, Converting
<1>2. PICK r : r = Script[at[i]].randomness
  OBVIOUS
<1>3. r \in 1..(at[i] - 1) /\ Seeding(r)
  BY <1>1, <1>2, BroughtIs
<1>4. Outcome(i, r, result[i][r])
  BY <1>3 DEF Faithful, Keeping
<1>5. /\ result[i][r].key_prev = KeyNext(given[PrevOf(i)][r])
      /\ result[i][r].key_next = KeyNext(given[i][r])
  BY <1>3, <1>4 DEF Outcome
<1>6. RandomRss(i).prev = RandomParts(r)[PrevOf(i)] /\ RandomRss(i).next = RandomParts(r)[i]
  BY <1>1, <1>2, <1>5, TheParties DEF RandomRss, RandomParts
<1>7. Mine(i) = given[i][at[i]]
  BY <1>1, BroughtIs DEF Mine
<1>8. Padded(i) = SentOf(at[i])[i]
  <2>1. Padded(i) = (given[i][at[i]] + RssPairToShamir(RandomParts(r)[PrevOf(i)], RandomParts(r)[i], i)) % Order
    BY <1>6, <1>7 DEF Padded
  <2>2. Brought(at[i])[i] = given[i][at[i]] /\ PrevOf(i) = (i + 2) % 3 /\ i \in 0..2
    BY TheParties DEF Brought
  <2> QED BY <1>2, <2>1, <2>2 DEF SentOf, PaddedShares
<1> QED BY <1>1, <1>2, <1>6, <1>8

\* What comes to it.
LEMMA ComesAs ==
    ASSUME Unwrapped, NEW c, Faithful(c), NEW k \in 1..Len(Script), Converting(k), NEW j, NEW i, NEW tag,
           tag = FirstTag(c, k) \/ tag = SecondTag(c, k), <<j, i, tag>> \in DOMAIN mail
    PROVE  mail[<<j, i, tag>>] = SentOf(k)[j]
<1>1. Fits(c, <<j, i, tag>>, mail[<<j, i, tag>>])
  BY DEF Faithful, MailFits
<1> QED BY <1>1 DEF Fits

\* run_shamir_to_scalar_rss keeps the invariant.
LEMMA PaddedFits ==
    ASSUME Unwrapped, NEW c, Faithful(c), NEW k \in 1..Len(Script), Converting(k), NEW i, NEW j, NEW tag,
           tag = FirstTag(c, k) \/ tag = SecondTag(c, k)
    PROVE  \A a \in DOMAIN Sent(i, j, tag, SentOf(k)[i]) : Fits(c, a, Sent(i, j, tag, SentOf(k)[i])[a])
<1>1. DOMAIN Sent(i, j, tag, SentOf(k)[i]) = {<<i, j, tag>>} /\ Sent(i, j, tag, SentOf(k)[i])[<<i, j, tag>>] = SentOf(k)[i]
  BY DEF Sent
<1> SUFFICES Fits(c, <<i, j, tag>>, SentOf(k)[i])
  BY <1>1
<1>2. tag # SeedTag
  BY DEF FirstTag, SecondTag, SeedTag
<1>3. ASSUME NEW l \in 1..Len(Script), Converting(l), tag = FirstTag(c, l) \/ tag = SecondTag(c, l) PROVE l = k
  <2>1. FirstTag(c, l) # SecondTag(c, k) /\ FirstTag(c, k) # SecondTag(c, l)
    BY DEF FirstTag, SecondTag
  <2>2. plan \in DOMAIN Plans /\ Tags(c)
    BY DEF Faithful, Standing
  <2> QED BY <1>3, <2>1, <2>2, TagsBelow
<1> QED BY <1>2, <1>3 DEF Fits

LEMMA BothFit ==
    ASSUME NEW c, NEW out, NEW old, \A a \in DOMAIN out : Fits(c, a, out[a]), \A a \in DOMAIN old : Fits(c, a, old[a])
    PROVE  \A a \in DOMAIN Both(out, old) : Fits(c, a, Both(out, old)[a])
  BY DEF Both

LEMMA ShamirToRssFaithful ==
    ASSUME Unwrapped, NEW c, Faithful(c), NEW i \in Parties, ShamirToRss(i)
    PROVE  Faithful(c)'
<1>1. Running(i) /\ Call(i).op = "shamir_to_rss" /\ step[i] \in {0, 1, 2} /\ Complete(i)
  BY Zenon DEF ShamirToRss, On
<1>2. PICK k : k = at[i]
  OBVIOUS
<1>3. /\ Converting(k) /\ ~ Seeding(k) /\ k \in 1..Len(Script) /\ Padded(i) = SentOf(k)[i]
      /\ RandomRss(i).prev = RandomParts(Script[k].randomness)[PrevOf(i)]
      /\ RandomRss(i).next = RandomParts(Script[k].randomness)[i]
  BY <1>1, <1>2, PaddedIsSent
<1>4. Keeping(c, i) /\ TagsIn(Call(i)) = 2
  BY <1>1 DEF Faithful, TagsIn
<1>5. Tag(i, 1, "RECONSTRUCT_1") = FirstTag(c, k) /\ Tag(i, 2, "RECONSTRUCT_2") = SecondTag(c, k)
  <2>1. plan \in DOMAIN Plans /\ Tags(c) /\ TagsIn(Script[k]) = 2 /\ counter[i] = c[k]
    BY <1>2, <1>3, <1>4 DEF Faithful, Standing, Keeping, Converting, TagsIn
  <2>2. (c[k] + 1) % CounterMod = c[k] + 1 /\ (c[k] + 2) % CounterMod = c[k] + 2
    BY <1>3, <2>1, TagsBelow
  <2> QED BY <2>1, <2>2 DEF Tag, FirstTag, SecondTag
<1>6. <<"RECONSTRUCT_1", "RECONSTRUCT_2">>[1] = "RECONSTRUCT_1" /\ <<"RECONSTRUCT_1", "RECONSTRUCT_2">>[2] = "RECONSTRUCT_2"
  OBVIOUS
<1>7. CASE step[i] = 0
  <2>1. Await(i, Both(Sent(i, PrevOf(i), FirstTag(c, k), Padded(i)), Sent(i, NextOf(i), SecondTag(c, k), Padded(i))),
                 Ask(i, {NextOf(i)}, FirstTag(c, k)), <<>>)
    BY <1>5, <1>6, <1>7, TwoIs, Zenon DEF ShamirToRss, On
  <2>2. Waiting(c, i, at[i], step[i] + 1, Ask(i, {NextOf(i)}, FirstTag(c, k)), <<>>)
    BY <1>2, <1>3, <1>7 DEF Waiting, Ask
  <2>3. \A a \in DOMAIN Both(Sent(i, PrevOf(i), FirstTag(c, k), SentOf(k)[i]), Sent(i, NextOf(i), SecondTag(c, k), SentOf(k)[i])) :
          Fits(c, a, Both(Sent(i, PrevOf(i), FirstTag(c, k), SentOf(k)[i]), Sent(i, NextOf(i), SecondTag(c, k), SentOf(k)[i]))[a])
    <3>1. \A a \in DOMAIN Sent(i, PrevOf(i), FirstTag(c, k), SentOf(k)[i]) :
            Fits(c, a, Sent(i, PrevOf(i), FirstTag(c, k), SentOf(k)[i])[a])
      BY <1>3, PaddedFits
    <3>2. \A a \in DOMAIN Sent(i, NextOf(i), SecondTag(c, k), SentOf(k)[i]) :
            Fits(c, a, Sent(i, NextOf(i), SecondTag(c, k), SentOf(k)[i])[a])
      BY <1>3, PaddedFits
    <3> QED BY <3>1, <3>2, BothFit
  <2> QED BY <1>1, <1>3, <2>1, <2>2, <2>3, AwaitFaithful
<1>8. CASE step[i] = 1
  <2>1. Await(i, <<>>, Ask(i, {PrevOf(i)}, SecondTag(c, k)), Got(i, NextOf(i), FirstTag(c, k)))
    BY <1>5, <1>6, <1>8, TwoIs, Zenon DEF ShamirToRss, On
  <2>2. Got(i, NextOf(i), FirstTag(c, k)) = SentOf(k)[NextOf(i)]
    <3>1. <<NextOf(i), i, FirstTag(c, k)>> \in DOMAIN mail
      BY <1>1, <1>2, <1>3, <1>4, <1>8 DEF Keeping, Waiting, Complete
    <3> QED BY <1>3, <3>1, ComesAs DEF Got
  <2>3. Waiting(c, i, at[i], step[i] + 1, Ask(i, {PrevOf(i)}, SecondTag(c, k)), Got(i, NextOf(i), FirstTag(c, k)))
    BY <1>2, <1>3, <1>8, <2>2 DEF Waiting, Ask
  <2>4. \A a \in DOMAIN <<>> : Fits(c, a, <<>>[a])
    BY NoMail
  <2> QED BY <1>1, <2>1, <2>3, <2>4, AwaitFaithful
<1>9. CASE step[i] = 2
  <2>1. PICK prev : prev = Got(i, PrevOf(i), SecondTag(c, k))
    OBVIOUS
  <2>2. Finish(i, IF OnLine(Padded(i), loc[i], prev, i) THEN "" ELSE "VerificationError", <<>>, 2,
               RssOf(i, Reconstructed(Padded(i), prev, i)))
    BY <1>5, <1>6, <1>9, <2>1, TwoIs, Zenon DEF ShamirToRss, On
  <2>3. loc[i] = SentOf(k)[NextOf(i)] /\ prev = SentOf(k)[PrevOf(i)]
    <3>1. <<PrevOf(i), i, SecondTag(c, k)>> \in DOMAIN mail /\ loc[i] = SentOf(k)[NextOf(i)]
      BY <1>1, <1>2, <1>3, <1>4, <1>9 DEF Keeping, Waiting, Complete
    <3> QED BY <1>3, <2>1, <3>1, ComesAs DEF Got
  <2>4. CASE OnLine(Padded(i), loc[i], prev, i)
    <3>1. Return(i, <<>>, TagsIn(Call(i)), RssOf(i, Reconstructed(Padded(i), prev, i)))
      BY <1>4, <2>2, <2>4 DEF Finish
    <3>2. Outcome(i, at[i], RssOf(i, Reconstructed(Padded(i), prev, i)))
      <4>1. Converted(k)[i] = FinalizeShamirToRss(Reconstructed(SentOf(k)[i], SentOf(k)[PrevOf(i)], i),
                                                  RandomRss(i).prev, RandomRss(i).next, i)
        BY <1>3, TheParties DEF Converted, ConvertedShares
      <4>2. /\ RssOf(i, Reconstructed(Padded(i), prev, i)).prev = Converted(k)[i].prev
            /\ RssOf(i, Reconstructed(Padded(i), prev, i)).next = Converted(k)[i].next
        BY <1>3, <2>3, <4>1 DEF RssOf
      <4> QED BY <1>2, <1>3, <2>3, <2>4, <4>2 DEF Outcome
    <3>3. \A a \in DOMAIN <<>> : Fits(c, a, <<>>[a])
      BY NoMail
    <3> QED BY <1>1, <3>1, <3>2, <3>3, ReturnFaithful
  <2>5. CASE ~ OnLine(Padded(i), loc[i], prev, i)
    <3>1. Throw(i, "VerificationError") /\ "VerificationError" # ""
      BY <2>2, <2>5 DEF Finish
    <3> QED BY <3>1, ThrowFaithful
  <2> QED BY <2>4, <2>5
<1> QED BY <1>1, <1>7, <1>8, <1>9

-----------------------------------------------------------------------------
(* The theorem.                                                            *)

\* f numbers the tags of the first n calls.
TagsTo(f, n) ==
    /\ f \in [1..(n + 1) -> Nat] /\ f[1] = 0
    /\ \A k \in 1..n : f[k + 1] = f[k] + TagsIn(Script[k])

\* The tags of a script can be numbered.
LEMMA TagsExist ==
    ASSUME plan \in DOMAIN Plans PROVE \E c : Tags(c)
<1> DEFINE T == {n \in Nat : \E f : TagsTo(f, n)}
<1>1. 0 \in T
  <2>1. TagsTo([k \in 1..1 |-> 0], 0)
    BY DEF TagsTo
  <2> QED BY <2>1
<1>2. \A n \in Nat : n \in T => n + 1 \in T
  <2> SUFFICES ASSUME NEW n \in Nat, NEW f, TagsTo(f, n) PROVE \E g : TagsTo(g, n + 1)
    OBVIOUS
  <2>1. PICK last \in Nat : last = f[n + 1] + TagsIn(Script[n + 1])
    <3>1. PICK t \in Nat : t = TagsIn(Script[n + 1])
      BY FewIn
    <3> QED BY <3>1 DEF TagsTo
  <2>2. PICK g : g = [k \in 1..(n + 2) |-> IF k = n + 2 THEN last ELSE f[k]]
    OBVIOUS
  <2>3. g \in [1..(n + 2) -> Nat] /\ g[1] = 0
    BY <2>1, <2>2 DEF TagsTo
  <2>4. \A k \in 1..(n + 1) : g[k + 1] = g[k] + TagsIn(Script[k])
    <3> SUFFICES ASSUME NEW k \in 1..(n + 1) PROVE g[k + 1] = g[k] + TagsIn(Script[k])
      OBVIOUS
    <3>1. CASE k = n + 1
      <4>1. g[k + 1] = last /\ g[k] = f[n + 1]
        BY <2>2, <3>1
      <4> QED BY <2>1, <3>1, <4>1
    <3>2. CASE k # n + 1
      <4>1. k \in 1..n /\ k + 1 \in 1..(n + 1)
        BY <3>2
      <4>2. f[k + 1] = f[k] + TagsIn(Script[k])
        BY <4>1 DEF TagsTo
      <4>3. g[k + 1] = f[k + 1] /\ g[k] = f[k]
        BY <2>2, <4>1
      <4> QED BY <4>2, <4>3
    <3> QED BY <3>1, <3>2
  <2>5. n + 1 + 1 = n + 2
    OBVIOUS
  <2> QED BY <2>3, <2>4, <2>5 DEF TagsTo
<1>3. Len(Script) \in T
  <2> HIDE DEF T
  <2>1. Nat \subseteq T
    BY <1>1, <1>2, NatSet
  <2> QED BY <2>1, Scripts
<1> QED BY <1>3 DEF TagsTo, Tags

\* The invariant holds at the start and each step keeps it.
LEMMA FaithfulInit == Init => \E c : Faithful(c)
<1> SUFFICES ASSUME Init PROVE \E c : Faithful(c)
  OBVIOUS
<1>1. /\ plan \in DOMAIN Plans /\ given \in Plans[plan].givens
      /\ at = [i \in Parties |-> 1] /\ step = [i \in Parties |-> 0]
      /\ loc = [i \in Parties |-> <<>>] /\ result = [i \in Parties |-> <<>>]
      /\ fail = [i \in Parties |-> ""]
      /\ mail = <<>> /\ counter = [i \in Parties |-> 0] /\ asked = [i \in Parties |-> {}]
  BY Zenon DEF Init, RelayInit
<1>2. PICK c : Tags(c)
  BY <1>1, TagsExist
<1>3. Standing
  BY <1>1 DEF Standing
<1>4. MailFits(c)
  BY <1>1, NoMail DEF MailFits
<1>5. ASSUME NEW i \in Parties PROVE Keeping(c, i)
  <2>1. at[i] = 1 /\ step[i] = 0 /\ result[i] = <<>> /\ counter[i] = 0
    BY <1>1
  <2>2. IsList(<<>>) /\ Len(<<>>) = 0
    <3>1. <<>> \in Seq({}) /\ Len(<<>>) = 0
      BY EmptySeq
    <3> QED BY <3>1 DEF IsList
  <2>3. 1 \in 1..(Len(Script) + 1)
    <3>1. Len(Script) \in Nat
      BY <1>1, Scripts
    <3> QED BY <3>1
  <2>4. Waiting(c, i, at[i], step[i], asked[i], loc[i])
    BY <2>1 DEF Waiting
  <2>5. \A k \in 1..(at[i] - 1) : Outcome(i, k, result[i][k])
    BY <2>1
  <2>6. IsList(result[i]) /\ Len(result[i]) = at[i] - 1 /\ counter[i] = c[at[i]]
    BY <1>2, <2>1, <2>2 DEF Tags
  <2> QED BY <2>1, <2>3, <2>4, <2>5, <2>6 DEF Keeping
<1> QED BY <1>2, <1>3, <1>4, <1>5 DEF Faithful

LEMMA StepFaithful ==
    ASSUME Unwrapped, NEW c, Faithful(c), NEW i \in Parties, DerivationStep(i)
    PROVE  Faithful(c)'
<1>1. CASE Step(i)
  BY <1>1, StepElsewhere, ElsewhereFaithful
<1>2. CASE RequireVerified(i)
  BY <1>2, RequireElsewhere, ElsewhereFaithful
<1>3. CASE YaoToRss(i) \/ BatchYaoToRss(i)
  <2>1. Elsewhere(i)
    BY <1>3, YaoToRssGarblerElsewhere, YaoToRssEvaluatorElsewhere DEF YaoToRss, BatchYaoToRss
  <2> QED BY <2>1, ElsewhereFaithful
<1>4. CASE CommonRandomness(i)
  BY <1>4, CommonRandomnessFaithful
<1>5. CASE ShamirToRss(i)
  BY <1>5, ShamirToRssFaithful
<1> QED BY <1>1, <1>2, <1>3, <1>4, <1>5 DEF DerivationStep

LEMMA FaithfulNext ==
    ASSUME Unwrapped, NEW c, Faithful(c), [DerivationNext]_vars
    PROVE  Faithful(c)'
<1>1. ASSUME NEW i \in Parties, DerivationStep(i) PROVE Faithful(c)'
  BY <1>1, StepFaithful
<1>2. ASSUME NEW i \in Parties, AbortProtocol(i) PROVE Faithful(c)'
  <2>1. Throw(i, "AbortProtocol") /\ "AbortProtocol" # ""
    BY <1>2 DEF AbortProtocol
  <2> QED BY <2>1, ThrowFaithful
<1>3. ASSUME NEW i \in Parties, HostAborts(i) PROVE Faithful(c)'
  BY <1>3, StopFaithful
<1>4. CASE UNCHANGED vars
  BY <1>4, StayFaithful
<1> QED BY <1>1, <1>2, <1>3, <1>4 DEF DerivationNext, AllStopped

\* What the outcomes of a conversion say of the shares that went in.
LEMMA OnlyOfLines ==
    ASSUME NEW c, Faithful(c), NEW k \in 1..Len(Script), Converting(k), NEW i \in Parties, at[i] > k
    PROVE  \E s \in Field, a \in Int : IsLine(Brought(k), s, a)
<1>1. k \in 1..(at[i] - 1)
  <2>1. Keeping(c, i)
    BY DEF Faithful
  <2>2. at[i] \in 1..(Len(Script) + 1) /\ Len(Script) \in Nat
    BY <2>1, Scripts DEF Keeping, Faithful, Standing
  <2> QED BY <2>2
<1>2. Outcome(i, k, result[i][k])
  BY <1>1 DEF Faithful, Keeping
<1>3. OnLine(SentOf(k)[i], SentOf(k)[(i + 1) % 3], SentOf(k)[(i + 2) % 3], i) /\ i \in 0..2
  BY <1>2, TheParties DEF Outcome
<1>4. Brought(k) \in [0..2 -> Field] /\ RandomParts(Script[k].randomness) \in [0..2 -> Field]
  BY BroughtIs
<1> QED BY <1>3, <1>4, OnlyLines DEF SentOf

\* The secret of shares on a line; and the invariant gives the property.
LEMMA SecretOfLine ==
    ASSUME NEW x \in [0..2 -> Field], NEW s \in Field, NEW a \in Int, IsLine(x, s, a)
    PROVE  Secret(x) = s
<1>1. 0 \in 0..2 /\ (0 + 1) % 3 = 1 /\ (0 + 2) % 3 = 2
  OBVIOUS
<1>2. OnLine(x[0], x[1], x[2], 0) /\ Reconstructed(x[0], x[2], 0) = s
  BY <1>1, LinePasses
<1> QED BY <1>2 DEF Secret

LEMMA FaithfulKeeps == ASSUME NEW c, Faithful(c) PROVE ConversionsKeepTheSecret
<1> SUFFICES ASSUME NEW k \in 1..Len(Script), Script[k].op = "shamir_to_rss"
             PROVE  LET secret == Secret([i \in Parties |-> given[i][k]]) IN
                    /\ secret = -1 => \A i \in Parties : at[i] <= k
                    /\ k <= Finished => Held(Common(k)) = secret
  BY DEF ConversionsKeepTheSecret
<1>1. Converting(k) /\ Brought(k) = [i \in Parties |-> given[i][k]]
  BY DEF Converting, Brought, Parties
<1>2. Brought(k) \in [0..2 -> Field] /\ RandomParts(Script[k].randomness) \in [0..2 -> Field]
  BY <1>1, BroughtIs
<1>3. plan \in DOMAIN Plans /\ Len(Script) \in Nat
  BY Scripts DEF Faithful, Standing
<1>4. at \in [Parties -> 1..(Len(Script) + 1)]
  BY DEF Faithful, Standing, Keeping
<1>5. ASSUME Secret(Brought(k)) = -1, NEW i \in Parties PROVE at[i] <= k
  <2>1. CASE at[i] > k
    <3>1. PICK s \in Field, a \in Int : IsLine(Brought(k), s, a)
      BY <1>1, <2>1, OnlyOfLines
    <3>2. Secret(Brought(k)) = s
      BY <1>2, <3>1, SecretOfLine
    <3> QED BY <1>5, <3>2, OrderIs
  <2> QED BY <1>3, <1>4, <2>1
<1>6. ASSUME k <= Finished PROVE Held(Common(k)) = Secret(Brought(k))
  <2>1. \A i \in Parties : at[i] > k
    <3>1. PICK N \in Nat : N = Len(Script) + 1
      BY <1>3
    <3>2. PICK j \in Parties : Finished = at[j] - 1 /\ \A i \in Parties : at[j] <= at[i]
      BY <1>4, <3>1, Least
    <3> QED BY <1>3, <1>4, <1>6, <3>2
  <2>2. PICK s \in Field, a \in Int : IsLine(Brought(k), s, a)
    <3>1. 0 \in Parties
      BY DEF Parties
    <3> QED BY <1>1, <2>1, <3>1, OnlyOfLines
  <2>3. \A i \in Parties : /\ Common(k)[i].prev = Converted(k)[i].prev /\ Common(k)[i].next = Converted(k)[i].next
    <3> SUFFICES ASSUME NEW i \in Parties
                 PROVE  Common(k)[i].prev = Converted(k)[i].prev /\ Common(k)[i].next = Converted(k)[i].next
      OBVIOUS
    <3>1. k \in 1..(at[i] - 1)
      BY <1>3, <1>4, <2>1
    <3>2. Outcome(i, k, result[i][k])
      BY <3>1 DEF Faithful, Keeping
    <3> QED BY <1>1, <3>2 DEF Outcome, Common
  <2>4. /\ \A i \in 0..2 : Converted(k)[i].next = Converted(k)[(i + 1) % 3].prev
        /\ (Converted(k)[0].prev + Converted(k)[1].prev + Converted(k)[2].prev) % Order = s
    BY <1>2, <2>2, LineConverts, SMTT(30) DEF Converted, SentOf
  <2>5. Held(Common(k)) = s
    <3>1. \A i \in Parties : Common(k)[i].next = Common(k)[NextOf(i)].prev
      BY <2>3, <2>4, TheParties
    <3>2. 0 \in Parties /\ 1 \in Parties /\ 2 \in Parties
      BY DEF Parties
    <3> QED BY <2>3, <2>4, <3>1, <3>2 DEF Held
  <2>6. Secret(Brought(k)) = s
    BY <1>2, <2>2, SecretOfLine
  <2> QED BY <2>5, <2>6
<1> QED BY <1>1, <1>5, <1>6

\* For every field, evaluation points, script, seeds and shares, and however
\* the parties' steps and messages interleave with failures and aborts: once
\* all parties have finished run_shamir_to_scalar_rss, each two hold the same
\* part of a replicated sharing of the secret the Shamir shares are of, and
\* shares that are not on a line stop every party at the check of
\* reconstruct_shamir_share (shamir_to_rss.rs).
THEOREM ConversionsFaithful == ASSUME Unwrapped PROVE DerivationSpec => []ConversionsKeepTheSecret
<1> DEFINE Inv == \E c : Faithful(c)
<1>1. Init => Inv
  BY FaithfulInit
<1>2. Inv /\ [DerivationNext]_vars => Inv'
  BY FaithfulNext
<1>3. Inv => ConversionsKeepTheSecret
  BY FaithfulKeeps
<1> QED BY <1>1, <1>2, <1>3, PTL DEF DerivationSpec

-----------------------------------------------------------------------------
(* Key pairs.                                                              *)

\* Division by a multiplier, and its cancelling.
LEMMA Overs ==
    ASSUME NEW x \in Field, NEW a \in Field \ {0}
    PROVE  Over(x, a) \in Field /\ Same(a * Over(x, a), x)
<1>1. PICK v \in Int : v = Invert(a) /\ Same(a * v, 1)
  BY SameInvert, OrderIs
<1>2. x \in Int /\ a \in Int
  BY OrderIs
<1>3. PICK p \in Int, o \in Field : p = x * v /\ o = p % Order /\ Same(o, p) /\ o = Over(x, a)
  <2>1. x * v \in Int
    BY <1>1, <1>2
  <2> QED BY <1>1, <2>1, SameReduced DEF Over
<1>4. o \in Int
  BY OrderIs
<1>5. Same(a * o, a * p) /\ a * o \in Int /\ a * p \in Int
  BY <1>2, <1>3, <1>4, SameTimes
<1>6. PICK e \in Int : e = a * v /\ Same(e, 1)
  BY <1>1, <1>2
<1>7. Same(x * e, x * 1)
  <2>1. 1 \in Int
    OBVIOUS
  <2> QED BY <1>2, <1>6, <2>1, SameTimes
<1>8. x * e = a * p /\ x * 1 = x
  BY <1>1, <1>2, <1>3, <1>6
<1>9. Same(a * p, x)
  BY <1>7, <1>8
<1> QED BY <1>2, <1>3, <1>5, <1>9, SameChain

LEMMA Divides ==
    ASSUME NEW a \in Field \ {0}, NEW y \in Int, NEW z \in Int, Same(a * y, a * z) PROVE Same(y, z)
<1>1. PICK v \in Int : Same(a * v, 1)
  BY SameInvert, OrderIs
<1>2. a \in Int
  BY OrderIs
<1> QED BY <1>1, <1>2, SameCancel

\* The mask of a gadget comes off.
LEMMA Unmasked ==
    ASSUME NEW x \in Field, NEW a \in Field \ {0}, NEW b \in Field, NEW t \in Field, t = (a * x + b) % Order
    PROVE  Over(Minus(t, b), a) = x
<1>1. x \in Int /\ a \in Int /\ b \in Int /\ t \in Int
  BY OrderIs
<1>2. PICK ax \in Int, w \in Int : ax = a * x /\ w = ax + b
  BY <1>1
<1>3. Same(t, w)
  BY <1>2, SameReduced
<1>4. PICK q \in Field : q = Minus(t, b) /\ Same(q, t - b)
  BY SameMinus
<1>5. Same(t - b, w - b)
  BY <1>1, <1>2, <1>3, SameSum, SameSelf
<1>6. PICK c \in Int, d \in Int : c = t - b /\ d = w - b /\ Same(q, c) /\ Same(c, d)
  BY <1>1, <1>2, <1>4, <1>5
<1>7. d = ax /\ q \in Int
  BY <1>1, <1>2, <1>6, OrderIs
<1>8. Same(q, ax)
  BY <1>6, <1>7, SameChain
<1>9. PICK o \in Field : o = Over(q, a) /\ Same(a * o, q)
  BY Overs
<1>10. o \in Int /\ a * o \in Int
  <2>1. o \in Int
    BY OrderIs
  <2> QED BY <1>1, <2>1
<1>11. Same(a * o, ax)
  BY <1>7, <1>8, <1>9, <1>10, SameChain
<1>12. Same(a * o, a * x)
  BY <1>2, <1>11
<1>13. Same(o, x)
  BY <1>1, <1>10, <1>12, Divides
<1> QED BY <1>4, <1>9, <1>13, SameInField

\* The third part of a number of which two are drawn.
LEMMA ThirdPart ==
    ASSUME NEW t \in Field, NEW x \in Field, NEW y \in Field
    PROVE  /\ Minus(t, (x + y) % Order) \in Field
           /\ Same((x + y) + Minus(t, (x + y) % Order), t)
           /\ ((x + y) + Minus(t, (x + y) % Order)) % Order = t
<1>1. t \in Int /\ x \in Int /\ y \in Int
  BY OrderIs
<1>2. PICK u \in Int, v \in Field : u = x + y /\ v = u % Order /\ Same(v, u) /\ Same(u, v)
  <2>1. x + y \in Int
    BY <1>1
  <2> QED BY <2>1, SameReduced
<1>3. PICK z \in Field : z = Minus(t, v) /\ Same(z, t - v)
  BY SameMinus
<1>4. v \in Int /\ z \in Int
  BY OrderIs
<1>5. PICK w \in Int, s \in Int : w = t - v /\ Same(z, w) /\ s = u + z
  BY <1>1, <1>2, <1>3, <1>4
<1>6. Same(u + z, v + w)
  BY <1>2, <1>4, <1>5, SameSum
<1>7. v + w = t
  BY <1>1, <1>4, <1>5
<1>8. Same(s, t)
  BY <1>5, <1>6, <1>7
<1>9. PICK r \in Field : r = s % Order /\ Same(r, s)
  BY <1>5, SameReduced
<1>10. Same(r, t)
  BY <1>1, <1>5, <1>8, <1>9, SameChain, OrderIs
<1>11. r = t
  BY <1>10, SameInField
<1> QED BY <1>2, <1>3, <1>5, <1>8, <1>9, <1>11

\* A part of the masked key, unmasked.
LEMMA PartOver ==
    ASSUME NEW s \in Field, NEW d \in Field, NEW a \in Field \ {0}
    PROVE  /\ Minus(Over(s, a), d) \in Field
           /\ Same(a * Minus(Over(s, a), d), s - a * d)
<1>1. s \in Int /\ d \in Int /\ a \in Int
  BY OrderIs
<1>2. PICK o \in Field : o = Over(s, a) /\ Same(a * o, s)
  BY Overs
<1>3. PICK p \in Field : p = Minus(o, d) /\ Same(p, o - d)
  BY SameMinus
<1>4. o \in Int /\ p \in Int
  BY OrderIs
<1>5. PICK q \in Int, ad \in Int, ao \in Int : q = o - d /\ ad = a * d /\ ao = a * o /\ Same(p, q) /\ Same(ao, s)
  BY <1>1, <1>2, <1>3, <1>4
<1>6. Same(a * p, a * q) /\ a * p \in Int
  BY <1>1, <1>4, <1>5, SameTimes
<1>7. a * q = ao - ad
  BY <1>1, <1>4, <1>5, Distribute
<1>8. Same(ao - ad, s - ad)
  BY <1>1, <1>5, SameSum, SameSelf
<1>9. Same(a * p, ao - ad) /\ ao - ad \in Int /\ s - ad \in Int
  BY <1>1, <1>5, <1>6, <1>7
<1>10. Same(a * p, s - ad)
  BY <1>6, <1>8, <1>9, SameChain
<1> QED BY <1>2, <1>3, <1>5, <1>10

\* Three unmasked parts add up to the number.
LEMMA PartsHold ==
    ASSUME NEW x \in Field, NEW a \in Field \ {0}, NEW b \in Field, NEW t \in Field, t = (a * x + b) % Order,
           NEW s \in Field, NEW u \in Field, NEW v \in Field, v = Minus(t, (s + u) % Order),
           NEW d \in Field, NEW e \in Field, NEW f \in Field, f = Minus(Over(b, a), (d + e) % Order)
    PROVE  ((Minus(Over(s, a), d) + Minus(Over(u, a), e)) + Minus(Over(v, a), f)) % Order = x
<1>1. PICK p \in Field, q \in Field, r \in Field :
        /\ p = Minus(Over(s, a), d) /\ q = Minus(Over(u, a), e) /\ r = Minus(Over(v, a), f)
        /\ Same(a * p, s - a * d) /\ Same(a * q, u - a * e) /\ Same(a * r, v - a * f)
  BY PartOver
<1>2. /\ x \in Int /\ a \in Int /\ b \in Int /\ t \in Int /\ s \in Int /\ u \in Int /\ v \in Int
      /\ d \in Int /\ e \in Int /\ f \in Int /\ p \in Int /\ q \in Int /\ r \in Int
  BY OrderIs
<1>3. PICK o \in Field : o = Over(b, a) /\ Same(a * o, b)
  BY Overs
<1>4. Same((s + u) + v, t)
  BY ThirdPart
<1>5. Same((d + e) + f, o)
  BY <1>3, ThirdPart
<1>6. PICK ad \in Int, ae \in Int, af \in Int, ao \in Int, ax \in Int, ap \in Int, aq \in Int, ar \in Int :
        /\ ad = a * d /\ ae = a * e /\ af = a * f /\ ao = a * o /\ ax = a * x
        /\ ap = a * p /\ aq = a * q /\ ar = a * r
  <2>1. o \in Int
    BY OrderIs
  <2> QED BY <1>2, <2>1
<1>7. Same(ap, s - ad) /\ Same(aq, u - ae) /\ Same(ar, v - af)
  BY <1>1, <1>6, Zenon
<1>8. PICK sd \in Int, ue \in Int, vf \in Int :
        /\ sd = s - ad /\ ue = u - ae /\ vf = v - af
        /\ Same(ap, sd) /\ Same(aq, ue) /\ Same(ar, vf)
  BY <1>2, <1>6, <1>7
<1>9. Same(ap + aq, sd + ue)
  BY <1>6, <1>8, SameSum
<1>10. PICK g \in Int, h \in Int : g = ap + aq /\ h = sd + ue /\ Same(g, h)
  BY <1>6, <1>8, <1>9
<1>11. Same(g + ar, h + vf)
  BY <1>6, <1>8, <1>10, SameSum
<1>12. PICK suv \in Int, m \in Int : suv = (s + u) + v /\ m = (d + e) + f /\ Same(suv, t) /\ Same(m, o)
  BY <1>2, <1>4, <1>5
<1>13. PICK am \in Int : am = a * m /\ Same(am, b)
  <2>1. Same(a * m, a * o) /\ a * m \in Int
    BY <1>2, <1>12, SameTimes, OrderIs
  <2>2. Same(ao, b) /\ Same(a * m, ao)
    BY <1>3, <1>6, <2>1, Zenon
  <2> QED BY <1>2, <1>6, <2>1, <2>2, SameChain
<1>14. h + vf = suv - am
  <2>1. am = (ad + ae) + af
    <3>1. PICK w \in Int : w = d + e /\ m = w + f
      BY <1>2, <1>12
    <3>2. a * m = a * w + a * f /\ a * w = a * d + a * e
      BY <1>2, <3>1, Distribute
    <3> QED BY <1>6, <1>13, <3>2
  <2> QED BY <1>2, <1>6, <1>8, <1>10, <1>12, <2>1
<1>15. Same(suv - am, t - b)
  BY <1>2, <1>12, <1>13, SameSum
<1>16. Same(t - b, ax)
  <2>1. PICK w \in Int : w = ax + b /\ t = w % Order
    BY <1>2, <1>6
  <2>2. Same(t, w)
    BY <2>1, SameReduced
  <2>3. Same(t - b, w - b)
    BY <1>2, <2>1, <2>2, SameSum, SameSelf
  <2>4. w - b = ax
    BY <1>2, <1>6, <2>1
  <2> QED BY <2>3, <2>4
<1>17. PICK z \in Int, k \in Int, y \in Int : z = g + ar /\ k = suv - am /\ y = t - b /\ Same(z, k) /\ Same(k, y) /\ Same(y, ax)
  BY <1>2, <1>6, <1>10, <1>11, <1>12, <1>13, <1>14, <1>15, <1>16
<1>18. Same(z, ax)
  BY <1>6, <1>17, SameChain
<1>19. PICK n \in Int : n = (p + q) + r /\ z = a * n
  <2>1. PICK w \in Int : w = p + q
    BY <1>2
  <2>2. a * (w + r) = a * w + a * r /\ a * w = a * p + a * q
    BY <1>2, <2>1, Distribute
  <2> QED BY <1>2, <1>6, <1>10, <1>17, <2>1, <2>2
<1>20. Same(n, x)
  <2>1. Same(a * n, a * x)
    BY <1>6, <1>18, <1>19, Zenon
  <2> QED BY <1>2, <1>19, <2>1, Divides
<1>21. PICK l \in Field : l = n % Order /\ Same(l, n)
  BY <1>19, SameReduced
<1>22. Same(l, x)
  BY <1>2, <1>19, <1>20, <1>21, SameChain, OrderIs
<1>23. l = x
  BY <1>22, SameInField
<1> QED BY <1>1, <1>19, <1>21, <1>23

\* What the garblers and the evaluator make of a group of bits.
LEMMA GadgetsOf ==
    ASSUME NEW i, NEW n, NEW r, NEW fs, NEW delta,
           [k \in DOMAIN Group(i, n) |-> Group(i, n)[k].f] = fs, yao[i].delta = delta
    PROVE  KeyGadgets(i, n, r) =
             [gadget |-> GarbleGadget(fs, delta, ScalarOf(r[1])),
              star   |-> GarbleGadget(fs, delta, ScalarOf(r[2])),
              shift  |-> <<ScalarOf(r[3]), ScalarOf(r[4]),
                           Minus(Over(GarbleGadget(fs, delta, ScalarOf(r[1])).beta,
                                      GarbleGadget(fs, delta, ScalarOf(r[1])).alpha),
                                 (ScalarOf(r[3]) + ScalarOf(r[4])) % Order)>>]
  BY Zenon DEF KeyGadgets

\* run_yao_to_scalar_rss_keypair (yao_to_rss.rs) for one group of bits: when the
\* garblers hold its FALSE labels and the evaluator the labels of some bits,
\* their messages pass every check at all three parties, both gadgets unmask to
\* the number the bits are, and so do the parts the parties are left with,
\* whatever masks and parts are drawn, if no multiplier is 0.
THEOREM KeyPairsHoldTheNumber ==
    ASSUME NEW n, NEW m \in Nat, NEW fs \in [1..m -> Block], NEW bits \in [1..m -> {0, 1}],
           NEW delta \in Block, Lsb \in delta, KdfInField(m),
           [k \in DOMAIN Group(0, n) |-> Group(0, n)[k].f] = fs, yao[0].delta = delta,
           [k \in DOMAIN Group(1, n) |-> Group(1, n)[k].f] = fs, yao[1].delta = delta,
           [k \in DOMAIN Group(2, n) |-> Group(2, n)[k].label] = LabelsOf(bits, fs, delta, m),
           NEW r, ScalarOf(r[1]) \in Field \ {0}, ScalarOf(r[2]) \in Field \ {0},
           ScalarOf(r[3]) \in Field, ScalarOf(r[4]) \in Field,
           NEW a \in Field, NEW b \in Field
    PROVE  LET s == KeyGadgets(0, n, r)
               p == KeyParts(2, n, KeyMsg1(s), <<a, b>>)
               msg(j) == KeyMsg2(p, j)
               part == [j \in Parties |->
                          IF j = 2 THEN [pki |-> p.sk[3], pkip2 |-> p.sk[1]]
                          ELSE [pki |-> msg(j).ski, pkip2 |-> msg(j).skip2]]
               number == Number(bits, m)
               pair == [j \in Parties |->
                          IF j = 2 THEN KeyShare(number, p.sk[3], p.sk[1], s.gadget.alpha, p.delta_2, p.delta_0)
                          ELSE KeyShare(number, msg(j).ski, msg(j).skip2, s.gadget.alpha,
                                        s.shift[j + 1], s.shift[j + 2])]
           IN  /\ KeyMsg1(KeyGadgets(1, n, r)) = KeyMsg1(s)
               /\ \A j \in Parties : PartsFit(part[j], part[PrevOf(j)], part[NextOf(j)], p.pk)
               /\ Unmask(p.pk, s.gadget) = number /\ Unmask(p.pk_star, s.star) = number
               /\ Held(pair) = number
<1> DEFINE s == KeyGadgets(0, n, r)
           p == KeyParts(2, n, KeyMsg1(s), <<a, b>>)
           msg(j) == KeyMsg2(p, j)
           part == [j \in Parties |->
                      IF j = 2 THEN [pki |-> p.sk[3], pkip2 |-> p.sk[1]]
                      ELSE [pki |-> msg(j).ski, pkip2 |-> msg(j).skip2]]
           number == Number(bits, m)
           pair == [j \in Parties |->
                      IF j = 2 THEN KeyShare(number, p.sk[3], p.sk[1], s.gadget.alpha, p.delta_2, p.delta_0)
                      ELSE KeyShare(number, msg(j).ski, msg(j).skip2, s.gadget.alpha,
                                    s.shift[j + 1], s.shift[j + 2])]
           labels == LabelsOf(bits, fs, delta, m)
<1>1. PICK al \in Field \ {0}, as \in Field \ {0}, d \in Field, e \in Field :
        al = ScalarOf(r[1]) /\ as = ScalarOf(r[2]) /\ d = ScalarOf(r[3]) /\ e = ScalarOf(r[4])
  OBVIOUS
<1>2. PICK g, h : g = GarbleGadget(fs, delta, al) /\ h = GarbleGadget(fs, delta, as)
  OBVIOUS
<1>3. /\ number \in Field /\ g.alpha = al /\ g.beta \in Field /\ h.alpha = as /\ h.beta \in Field
      /\ EvaluateGadget(g.cvec, labels) = (al * number + g.beta) % Order
      /\ EvaluateGadget(h.cvec, labels) = (as * number + h.beta) % Order
  <2>1. ASSUME NEW c \in Field PROVE Carries(GarbleGadget(fs, delta, c), labels, c, number)
    BY GadgetCarriesTheNumber
  <2>2. al \in Field /\ as \in Field
    OBVIOUS
  <2>3. Carries(g, labels, al, number) /\ Carries(h, labels, as, number)
    BY <1>2, <2>1, <2>2, Zenon
  <2> QED BY <2>3 DEF Carries
<1>4. PICK z : z = number /\ z \in Field
  BY <1>3
<1>5. PICK t, ts, f : /\ t = EvaluateGadget(g.cvec, labels) /\ ts = EvaluateGadget(h.cvec, labels)
                      /\ f = Minus(Over(g.beta, al), (d + e) % Order)
  OBVIOUS
<1>6. PICK v : v = Minus(t, (a + b) % Order)
  OBVIOUS
<1>7. /\ t \in Field /\ ts \in Field /\ f \in Field /\ v \in Field
      /\ t = (al * z + g.beta) % Order /\ ts = (as * z + h.beta) % Order
  <2>1. ASSUME NEW c \in Field, NEW y \in Field PROVE (c * z + y) % Order \in Field
    <3>1. PICK w \in Int : w = c * z + y
      <4>1. c \in Int /\ z \in Int /\ y \in Int
        BY <1>4, OrderIs
      <4> QED BY <4>1
    <3> QED BY <3>1, SameReduced
  <2>2. t = (al * z + g.beta) % Order /\ ts = (as * z + h.beta) % Order
    BY <1>3, <1>4, <1>5, Zenon
  <2>3. t \in Field /\ ts \in Field
    BY <1>3, <2>1, <2>2
  <2>4. Over(g.beta, al) \in Field
    BY <1>3, Overs
  <2> QED BY <1>5, <1>6, <2>2, <2>3, <2>4, ThirdPart
<1>8. s = [gadget |-> g, star |-> h, shift |-> <<d, e, f>>]
  <2>1. s = [gadget |-> GarbleGadget(fs, delta, al), star |-> GarbleGadget(fs, delta, as),
             shift |-> <<d, e, Minus(Over(GarbleGadget(fs, delta, al).beta, GarbleGadget(fs, delta, al).alpha),
                                     (d + e) % Order)>>]
    <3>1. [k \in DOMAIN Group(0, n) |-> Group(0, n)[k].f] = fs /\ yao[0].delta = delta
      OBVIOUS
    <3> HIDE DEF number, pair, part, p, labels
    <3>2. KeyGadgets(0, n, r) =
             [gadget |-> GarbleGadget(fs, delta, ScalarOf(r[1])),
              star   |-> GarbleGadget(fs, delta, ScalarOf(r[2])),
              shift  |-> <<ScalarOf(r[3]), ScalarOf(r[4]),
                           Minus(Over(GarbleGadget(fs, delta, ScalarOf(r[1])).beta,
                                      GarbleGadget(fs, delta, ScalarOf(r[1])).alpha),
                                 (ScalarOf(r[3]) + ScalarOf(r[4])) % Order)>>]
      BY <3>1, GadgetsOf
    <3> QED BY <1>1, <3>2, Zenon
  <2> QED BY <1>2, <1>3, <1>5, <2>1, Zenon
<1>9. KeyGadgets(1, n, r) = s
  <2>1. /\ [k \in DOMAIN Group(0, n) |-> Group(0, n)[k].f] = fs /\ yao[0].delta = delta
        /\ [k \in DOMAIN Group(1, n) |-> Group(1, n)[k].f] = fs /\ yao[1].delta = delta
    OBVIOUS
  <2> HIDE DEF number, pair, part, p, labels
  <2> QED BY <2>1, Zenon DEF KeyGadgets
<1>10. KeyMsg1(s) = [cvec |-> g.cvec, cvec_star |-> h.cvec, delta_2 |-> f, delta_0 |-> d]
  <2> HIDE DEF s
  <2> QED BY <1>8 DEF KeyMsg1
<1>11. p = [pk |-> t, pk_star |-> ts, sk |-> <<a, b, v>>, delta_0 |-> d, delta_2 |-> f]
  <2> DEFINE m1 == [cvec |-> g.cvec, cvec_star |-> h.cvec, delta_2 |-> f, delta_0 |-> d]
  <2>1. p = KeyParts(2, n, m1, <<a, b>>)
    BY <1>10, Zenon
  <2>2. KeyParts(2, n, m1, <<a, b>>) =
          [pk |-> EvaluateGadget(m1.cvec, labels), pk_star |-> EvaluateGadget(m1.cvec_star, labels),
           sk |-> <<<<a, b>>[1], <<a, b>>[2],
                    Minus(EvaluateGadget(m1.cvec, labels), (<<a, b>>[1] + <<a, b>>[2]) % Order)>>,
           delta_0 |-> m1.delta_0, delta_2 |-> m1.delta_2]
    BY Zenon DEF KeyParts
  <2>3. m1.cvec = g.cvec /\ m1.cvec_star = h.cvec /\ m1.delta_0 = d /\ m1.delta_2 = f
    OBVIOUS
  <2>4. <<a, b>>[1] = a /\ <<a, b>>[2] = b
    OBVIOUS
  <2> HIDE DEF m1
  <2> QED BY <1>5, <1>6, <2>1, <2>2, <2>3, <2>4, Zenon
<1> HIDE DEF s, p, number, labels
<1>12. /\ msg(0) = [pk |-> t, pk_star |-> ts, ski |-> a, skip2 |-> b]
       /\ msg(1) = [pk |-> t, pk_star |-> ts, ski |-> b, skip2 |-> v]
  <2>1. <<a, b, v>>[0 + 1] = a /\ <<a, b, v>>[0 + 2] = b /\ <<a, b, v>>[1 + 1] = b /\ <<a, b, v>>[1 + 2] = v
    OBVIOUS
  <2> QED BY <1>11, <2>1 DEF KeyMsg2
<1>13. /\ part[0] = [pki |-> a, pkip2 |-> b] /\ part[1] = [pki |-> b, pkip2 |-> v]
       /\ part[2] = [pki |-> v, pkip2 |-> a]
  <2>1. p.sk[3] = v /\ p.sk[1] = a
    BY <1>11
  <2> HIDE DEF msg
  <2> QED BY <1>12, <2>1 DEF Parties
<1>14. PrevOf(0) = 2 /\ PrevOf(1) = 0 /\ PrevOf(2) = 1 /\ NextOf(0) = 1 /\ NextOf(1) = 2 /\ NextOf(2) = 0
  BY DEF PrevOf, NextOf
<1>15. ASSUME NEW j \in Parties PROVE PartsFit(part[j], part[PrevOf(j)], part[NextOf(j)], p.pk)
  <2>1. ((a + b) + v) % Order = t /\ p.pk = t
    BY <1>6, <1>7, <1>11, ThirdPart
  <2>2. (b + v) + a = (a + b) + v /\ (v + a) + b = (a + b) + v
    <3>1. a \in Int /\ b \in Int /\ v \in Int
      BY <1>7, OrderIs
    <3> QED BY <3>1
  <2> HIDE DEF part
  <2>3. CASE j = 0
    BY <1>13, <1>14, <2>1, <2>3 DEF PartsFit
  <2>4. CASE j = 1
    BY <1>13, <1>14, <2>1, <2>2, <2>4 DEF PartsFit
  <2>5. CASE j = 2
    BY <1>13, <1>14, <2>1, <2>2, <2>5 DEF PartsFit
  <2> QED BY <2>3, <2>4, <2>5 DEF Parties
<1>16. Unmask(p.pk, s.gadget) = number /\ Unmask(p.pk_star, s.star) = number
  <2>1. Over(Minus(t, g.beta), al) = z /\ Over(Minus(ts, h.beta), as) = z
    BY <1>3, <1>4, <1>7, Unmasked
  <2>2. s.gadget = g /\ s.star = h /\ p.pk = t /\ p.pk_star = ts
    BY <1>8, <1>11
  <2> QED BY <1>3, <1>4, <2>1, <2>2, Zenon DEF Unmask
<1>17. Held(pair) = number
  <2>1. /\ p.sk[3] = v /\ p.sk[1] = a /\ p.delta_2 = f /\ p.delta_0 = d /\ s.gadget.alpha = al
        /\ s.shift[0 + 1] = d /\ s.shift[0 + 2] = e /\ s.shift[1 + 1] = e /\ s.shift[1 + 2] = f
        /\ msg(0).ski = a /\ msg(0).skip2 = b /\ msg(1).ski = b /\ msg(1).skip2 = v
    BY <1>3, <1>8, <1>11, <1>12
  <2>2. /\ pair[0] = KeyShare(number, a, b, al, d, e)
        /\ pair[1] = KeyShare(number, b, v, al, e, f)
        /\ pair[2] = KeyShare(number, v, a, al, f, d)
    <3>1. 0 \in Parties /\ 1 \in Parties /\ 2 \in Parties /\ 0 # 2 /\ 1 # 2
      BY DEF Parties
    <3> HIDE DEF msg
    <3> QED BY <2>1, <3>1, Zenon
  <2> HIDE DEF pair
  <2>3. /\ pair[0].prev = Minus(Over(a, al), d) /\ pair[0].next = Minus(Over(b, al), e)
        /\ pair[1].prev = Minus(Over(b, al), e) /\ pair[1].next = Minus(Over(v, al), f)
        /\ pair[2].prev = Minus(Over(v, al), f) /\ pair[2].next = Minus(Over(a, al), d)
    BY <2>2 DEF KeyShare
  <2>4. \A j \in Parties : pair[j].next = pair[NextOf(j)].prev
    <3>1. pair[0].next = pair[1].prev /\ pair[1].next = pair[2].prev /\ pair[2].next = pair[0].prev
      BY <2>3, Zenon
    <3>2. \A j \in Parties : j = 0 \/ j = 1 \/ j = 2
      BY DEF Parties
    <3> QED BY <1>14, <3>1, <3>2, Zenon
  <2>5. ((Minus(Over(a, al), d) + Minus(Over(b, al), e)) + Minus(Over(v, al), f)) % Order = z
    <3>1. PICK y \in Field : y = g.beta
      BY <1>3
    <3>2. t = (al * z + y) % Order /\ f = Minus(Over(y, al), (d + e) % Order)
      BY <1>5, <1>7, <3>1, Zenon
    <3>3. t \in Field /\ f \in Field /\ v \in Field /\ z \in Field /\ v = Minus(t, (a + b) % Order)
      BY <1>4, <1>6, <1>7, Zenon
    <3> QED BY <3>2, <3>3, PartsHold, SMTT(30)
  <2>6. Held(pair) = (pair[0].prev + pair[1].prev + pair[2].prev) % Order
    BY <2>4, Zenon DEF Held
  <2> QED BY <1>4, <2>3, <2>5, <2>6, Zenon
<1> HIDE DEF part, pair
<1> QED BY <1>9, <1>15, <1>16, <1>17, Zenon DEF s, p, part, number, pair

=============================================================================
