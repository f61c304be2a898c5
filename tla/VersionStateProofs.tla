------------------------- MODULE VersionStateProofs -------------------------
(***************************************************************************)
(* Lemmas about the version state of a key, for any contents and any bound *)
(* on version IDs: what an append and a removal leave.                     *)
(***************************************************************************)
EXTENDS VersionState, SequenceTheorems, TLAPS

\* What cutting entry i out of a sequence leaves (append(v[:i], v[i+1:]...)).
LEMMA RemoveAtFacts ==
  ASSUME NEW S, NEW s \in Seq(S), NEW i \in 1..Len(s)
  PROVE  /\ RemoveAt(s, i) \in Seq(S)
         /\ Len(RemoveAt(s, i)) = Len(s) - 1
         /\ \A j \in 1..Len(s) - 1 :
              RemoveAt(s, i)[j] = IF j < i THEN s[j] ELSE s[j + 1]
<1> DEFINE front == SubSeq(s, 1, i - 1)
           back  == SubSeq(s, i + 1, Len(s))
<1>1. Len(s) \in Nat /\ i \in Nat
  BY LenProperties
<1>2. front \in Seq(S) /\ Len(front) = i - 1 /\ \A j \in 1..i - 1 : front[j] = s[j]
  BY <1>1
<1>3. /\ back \in Seq(S) /\ Len(back) = Len(s) - i
      /\ \A j \in 1..Len(s) - i : back[j] = s[i + j]
  BY <1>1
<1>4. RemoveAt(s, i) = front \o back
  BY DEF RemoveAt
<1> HIDE DEF front, back
<1>5. /\ front \o back \in Seq(S)
      /\ Len(front \o back) = Len(front) + Len(back)
      /\ \A j \in 1..Len(front) + Len(back) :
           (front \o back)[j] = IF j <= Len(front) THEN front[j] ELSE back[j - Len(front)]
  BY <1>2, <1>3, ConcatProperties
<1>6. Len(front) + Len(back) = Len(s) - 1
  BY <1>1, <1>2, <1>3
<1>7. ASSUME NEW j \in 1..Len(s) - 1
      PROVE  RemoveAt(s, i)[j] = IF j < i THEN s[j] ELSE s[j + 1]
  <2>1. CASE j < i
    BY <1>1, <1>2, <1>4, <1>5, <1>6, <2>1
  <2>2. CASE ~ (j < i)
    <3>1. j - Len(front) \in 1..Len(s) - i
      BY <1>1, <1>2, <2>2
    <3>2. (front \o back)[j] = back[j - Len(front)]
      BY <1>1, <1>2, <1>5, <1>6, <2>2
    <3>3. back[j - Len(front)] = s[i + (j - Len(front))]
      BY <1>3, <3>1
    <3>4. i + (j - Len(front)) = j + 1
      BY <1>1, <1>2
    <3> QED
      BY <1>4, <2>2, <3>2, <3>3, <3>4
  <2> QED
    BY <2>1, <2>2
<1> QED
  BY <1>4, <1>5, <1>6, <1>7

\* The key that is not there is a well-formed, ordered version state.
LEMMA NewVersionStateFacts ==
  /\ newVersionState \in VersionStates
  /\ Ordered(newVersionState)
  /\ ~ HasKey(newVersionState)
BY MaxIDAssumption DEF newVersionState, VersionStates, Ordered, HasKey

\* The entries of a version state and their IDs.
LEMMA EntryFacts ==
  ASSUME NEW vs \in VersionStates
  PROVE  /\ vs.versions \in Seq(ObjectMeta) /\ Len(vs.versions) \in Nat
         /\ vs.nextID \in 1..MaxID + 1
         /\ \A i \in 1..Len(vs.versions) : vs.versions[i].id \in Nat
<1>1. vs.versions \in Seq(ObjectMeta) /\ vs.nextID \in 1..MaxID + 1
  BY DEF VersionStates
<1>2. Len(vs.versions) \in Nat
  BY <1>1, LenProperties
<1>3. \A i \in 1..Len(vs.versions) : vs.versions[i] \in ObjectMeta
  BY <1>1, ElementOfSeq
<1>4. \A m \in ObjectMeta : m.id \in Nat
  BY MaxIDAssumption DEF ObjectMeta
<1> QED
  BY <1>1, <1>2, <1>3, <1>4

\* Appending under the next ID keeps a version state well-formed and ordered,
\* advances the counter, and every older ID names the entry it named before
\* (PutObject and the delete-marker branch of DeleteObject).
LEMMA AppendVersionFacts ==
  ASSUME NEW vs \in VersionStates, vs.nextID <= MaxID, Ordered(vs),
         NEW sha \in Shas \cup {NoSha}
  PROVE  /\ AppendVersion(vs, sha) \in VersionStates
         /\ Ordered(AppendVersion(vs, sha))
         /\ AppendVersion(vs, sha).nextID = vs.nextID + 1
         /\ \A i \in 1..Len(AppendVersion(vs, sha).versions) :
              AppendVersion(vs, sha).versions[i].id < vs.nextID =>
                \E n \in 1..Len(vs.versions) :
                   vs.versions[n] = AppendVersion(vs, sha).versions[i]
<1> DEFINE m   == [id |-> vs.nextID, sha |-> sha]
           new == Append(vs.versions, m)
<1>1. /\ vs.versions \in Seq(ObjectMeta) /\ vs.nextID \in 1..MaxID
      /\ Len(vs.versions) \in Nat
  BY EntryFacts, MaxIDAssumption
<1>2. m \in ObjectMeta
  BY <1>1 DEF ObjectMeta
<1>3. /\ new \in Seq(ObjectMeta) /\ Len(new) = Len(vs.versions) + 1
      /\ \A i \in 1..Len(vs.versions) : new[i] = vs.versions[i]
      /\ new[Len(vs.versions) + 1] = m
  BY <1>1, <1>2, AppendProperties
<1>4. /\ AppendVersion(vs, sha).versions = new
      /\ AppendVersion(vs, sha).current = Len(vs.versions) + 1
      /\ AppendVersion(vs, sha).nextID = vs.nextID + 1
      /\ AppendVersion(vs, sha) \in VersionStates
  BY <1>1, <1>3, MaxIDAssumption DEF AppendVersion, VersionStates
<1>5. m.id = vs.nextID
  OBVIOUS
<1>6. \A i \in 1..Len(vs.versions) : vs.versions[i].id \in Nat
  BY EntryFacts
<1> HIDE DEF m, new
<1>7. \A i \in 1..Len(new) : new[i].id < vs.nextID + 1
  <2> SUFFICES ASSUME NEW i \in 1..Len(new) PROVE new[i].id < vs.nextID + 1
    OBVIOUS
  <2>1. CASE i = Len(vs.versions) + 1
    BY <1>1, <1>3, <1>5, <2>1
  <2>2. CASE i \in 1..Len(vs.versions)
    <3>1. new[i].id = vs.versions[i].id /\ vs.versions[i].id \in Nat
      BY <1>3, <1>6, <2>2
    <3>2. vs.versions[i].id < vs.nextID
      BY <2>2 DEF Ordered
    <3> QED
      BY <1>1, <3>1, <3>2
  <2> QED
    BY <1>1, <1>3, <2>1, <2>2
<1>8. \A i, j \in 1..Len(new) : i < j => new[i].id < new[j].id
  BY <1>1, <1>3, <1>5, <1>6, SMTT(30) DEF Ordered
<1>9. Ordered(AppendVersion(vs, sha))
  BY <1>1, <1>3, <1>4, <1>7, <1>8 DEF Ordered
<1>10. \A i \in 1..Len(new) :
          new[i].id < vs.nextID => \E n \in 1..Len(vs.versions) : vs.versions[n] = new[i]
  <2> SUFFICES ASSUME NEW i \in 1..Len(new), new[i].id < vs.nextID
               PROVE  \E n \in 1..Len(vs.versions) : vs.versions[n] = new[i]
    OBVIOUS
  <2>1. i # Len(vs.versions) + 1
    BY <1>1, <1>3, <1>5
  <2>2. i \in 1..Len(vs.versions)
    BY <1>1, <1>3, <2>1
  <2> QED
    BY <1>3, <2>2
<1> QED
  BY <1>4, <1>9, <1>10

\* Cutting a version out keeps a version state well-formed and ordered, keeps
\* or resets the counter, and leaves only entries that were there before
\* (the permanent branch of DeleteObject).
LEMMA RemoveVersionFacts ==
  ASSUME NEW vs \in VersionStates, Ordered(vs), NEW i \in 1..Len(vs.versions)
  PROVE  /\ RemoveVersion(vs, i) \in VersionStates
         /\ Ordered(RemoveVersion(vs, i))
         /\ HasKey(RemoveVersion(vs, i)) =>
              /\ RemoveVersion(vs, i).nextID = vs.nextID
              /\ \A j \in 1..Len(RemoveVersion(vs, i).versions) :
                   \E n \in 1..Len(vs.versions) :
                      vs.versions[n] = RemoveVersion(vs, i).versions[j]
<1> DEFINE rest == RemoveAt(vs.versions, i)
<1>1. /\ vs.versions \in Seq(ObjectMeta) /\ vs.nextID \in 1..MaxID + 1
      /\ Len(vs.versions) \in Nat
  BY EntryFacts
<1>2. /\ rest \in Seq(ObjectMeta)
      /\ Len(rest) = Len(vs.versions) - 1
      /\ \A j \in 1..Len(vs.versions) - 1 :
           rest[j] = IF j < i THEN vs.versions[j] ELSE vs.versions[j + 1]
  BY <1>1, RemoveAtFacts
<1>3. CASE rest = <<>>
  <2>1. RemoveVersion(vs, i) = newVersionState
    BY <1>3 DEF RemoveVersion
  <2> QED
    BY <2>1, NewVersionStateFacts
<1>4. CASE rest # <<>>
  <2>1. RemoveVersion(vs, i) = [vs EXCEPT !.versions = rest, !.current = Len(rest)]
    BY <1>4 DEF RemoveVersion
  <2> HIDE DEF rest
  <2>2. /\ RemoveVersion(vs, i).versions = rest
        /\ RemoveVersion(vs, i).current = Len(rest)
        /\ RemoveVersion(vs, i).nextID = vs.nextID
        /\ RemoveVersion(vs, i) \in VersionStates
    <3>1. Len(rest) \in Nat
      BY <1>2, LenProperties
    <3> QED
      BY <1>2, <2>1, <3>1 DEF VersionStates
  <2>3. \A j \in 1..Len(rest) :
           /\ rest[j] = IF j < i THEN vs.versions[j] ELSE vs.versions[j + 1]
           /\ j \in 1..Len(vs.versions) /\ j + 1 \in 1..Len(vs.versions)
    BY <1>1, <1>2
  <2>5. Ordered(RemoveVersion(vs, i))
    <3>1. \A j \in 1..Len(rest) : rest[j].id < vs.nextID
      BY <2>3 DEF Ordered
    <3>2. \A j, n \in 1..Len(rest) : j < n => rest[j].id < rest[n].id
      <4> SUFFICES ASSUME NEW j \in 1..Len(rest), NEW n \in 1..Len(rest), j < n
                   PROVE  rest[j].id < rest[n].id
        OBVIOUS
      <4> DEFINE J == IF j < i THEN j ELSE j + 1
                 N == IF n < i THEN n ELSE n + 1
      <4>1. J \in 1..Len(vs.versions) /\ N \in 1..Len(vs.versions) /\ J < N
        BY <1>1, <2>3
      <4>2. rest[j] = vs.versions[J] /\ rest[n] = vs.versions[N]
        BY <2>3
      <4> QED
        BY <4>1, <4>2 DEF Ordered
    <3> QED
      BY <2>2, <3>1, <3>2 DEF Ordered
  <2>6. \A j \in 1..Len(rest) :
           \E n \in 1..Len(vs.versions) : vs.versions[n] = rest[j]
    BY <2>3
  <2> QED
    BY <2>2, <2>5, <2>6
<1> QED
  BY <1>3, <1>4
=============================================================================
