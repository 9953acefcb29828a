------------------------------ MODULE Memory_proofs ------------------------------
(***************************************************************************)
(* Theorems about Memory, for any writers, keys, packs and policies.       *)
(***************************************************************************)
EXTENDS Memory, SequenceTheorems, WellFoundedInduction, TLAPS

(* Where a writer has read the record it replaces.                         *)
Putting == {"write", "replace"}

(* What is written next after existing.                                    *)
Follows(existing, record) ==
    IF existing = Absent THEN record.version = 1
    ELSE /\ record.version = existing.version + 1
         /\ record.created = existing.created

TypesOK ==
    /\ file \in [Keys -> Record \cup {Absent}]
    /\ tmp \in [Keys -> Record \cup {Absent}]
    /\ writes \in 0..WriteBound
    /\ wpc \in [Writers -> {"idle", "asked", "get", "write", "replace"}]
    /\ wkey \in [Writers -> Keys \cup {Absent}]
    /\ wsens \in [Writers -> Sensitivity]
    /\ rec \in [Writers -> Record \cup {Absent}]

(* A writer under way has a key, and one that was confirmed is counted.    *)
WriterOK(w) ==
    /\ wpc[w] # "idle" => wkey[w] \in Keys
    /\ wpc[w] \in {"get"} \cup Putting => writes > 0
    /\ wpc[w] \in Putting => rec[w] \in Record

(* A writer that nothing overtakes holds what follows the file, and what   *)
(* it is about to rename is its own record.                                *)
NotOvertaken(w) ==
    wpc[w] \in Putting =>
        /\ Alone(w)
        /\ Follows(file[wkey[w]], rec[w])
        /\ wpc[w] = "replace" => tmp[wkey[w]] = rec[w]

Inv ==
    /\ TypesOK
    /\ \A w \in Writers : WriterOK(w)
    /\ ~race => \A w \in Writers : NotOvertaken(w)

-----------------------------------------------------------------------------
LEMMA AbsentFacts == Absent \notin Record /\ Absent \notin Keys /\ WriteBound \in Nat
  BY MemoryAssumption

(* The next record is a record, and it follows the one before it.          *)
LEMMA NextRecordOK ==
    ASSUME NEW existing \in Record \cup {Absent}, NEW s \in Sensitivity,
           writes \in 1..WriteBound
    PROVE  NextRecord(existing, s) \in Record /\ Follows(existing, NextRecord(existing, s))
  BY AbsentFacts DEF NextRecord, Record, Follows

LEMMA InitInv == Init => Inv
  BY AbsentFacts
     DEF Init, Inv, TypesOK, WriterOK, NotOvertaken, Putting, Sensitivity

(* A step that leaves the writers and the files alone.                     *)
LEMMA LoadInv ==
    ASSUME Inv, UNCHANGED <<race, file, tmp, writer>>
    PROVE  Inv'
  BY DEF Inv, TypesOK, WriterOK, NotOvertaken, Alone, writer

LEMMA AsksInv ==
    ASSUME Inv, NEW w \in Writers, NEW k \in Keys, NEW s \in Sensitivity, Asks(w, k, s)
    PROVE  Inv'
  BY DEF Inv, TypesOK, WriterOK, NotOvertaken, Alone, Putting, Asks, config

LEMMA ConfirmedInv ==
    ASSUME Inv, NEW w \in Writers, Confirmed(w)
    PROVE  Inv'
  BY AbsentFacts
     DEF Inv, TypesOK, WriterOK, NotOvertaken, Alone, Putting, Confirmed, config

LEMMA GetsInv ==
    ASSUME Inv, NEW w \in Writers, Gets(w)
    PROVE  Inv'
  <1> DEFINE r == NextRecord(file[wkey[w]], wsens[w])
  <1>1. r \in Record /\ Follows(file[wkey[w]], r)
    BY NextRecordOK, AbsentFacts DEF Inv, TypesOK, WriterOK, Gets
  <1> HIDE DEF r
  <1>2. /\ rec' = [rec EXCEPT ![w] = r]
        /\ wpc' = [wpc EXCEPT ![w] = "write"]
        /\ wpc[w] = "get"
        /\ race \/ Alone(w)
        /\ UNCHANGED <<race, file, tmp, writes, wkey, wsens>>
    BY DEF Gets, r, config
  <1>3. TypesOK' /\ \A v \in Writers : WriterOK(v)'
    BY <1>1, <1>2 DEF Inv, TypesOK, WriterOK, Putting
  <1>4. ASSUME ~race', NEW v \in Writers PROVE NotOvertaken(v)'
    <2>1. CASE v = w
      BY <1>1, <1>2, <1>4, <2>1 DEF Inv, TypesOK, NotOvertaken, Alone, Putting
    <2>2. CASE v # w
      BY <1>2, <1>4, <2>2 DEF Inv, TypesOK, NotOvertaken, Alone, Putting
    <2> QED
      BY <2>1, <2>2
  <1> QED
    BY <1>3, <1>4 DEF Inv

LEMMA PutWritesInv ==
    ASSUME Inv, NEW w \in Writers, PutWrites(w)
    PROVE  Inv'
  <1>1. TypesOK' /\ \A v \in Writers : WriterOK(v)'
    BY DEF Inv, TypesOK, WriterOK, Putting, PutWrites
  <1>2. ASSUME ~race', NEW v \in Writers PROVE NotOvertaken(v)'
    <2>1. CASE v = w
      BY <1>2, <2>1
         DEF Inv, TypesOK, WriterOK, NotOvertaken, Alone, Putting, PutWrites, config
    <2>2. CASE v # w
      BY <1>2, <2>2 DEF Inv, TypesOK, NotOvertaken, Alone, Putting, PutWrites, config
    <2> QED
      BY <2>1, <2>2
  <1> QED
    BY <1>1, <1>2 DEF Inv

LEMMA PutReplacesInv ==
    ASSUME Inv, NEW w \in Writers, PutReplaces(w)
    PROVE  Inv'
  <1>1. TypesOK'
    BY DEF Inv, TypesOK, WriterOK, PutReplaces, Ends, Sensitivity
  <1>2. \A v \in Writers : WriterOK(v)'
    BY DEF Inv, TypesOK, WriterOK, PutReplaces, Ends, Putting
  <1>3. ASSUME ~race', NEW v \in Writers PROVE NotOvertaken(v)'
    <2>1. wpc'[v] \notin Putting
      BY <1>3 DEF Inv, TypesOK, NotOvertaken, Alone, Putting, PutReplaces, Ends, config
    <2> QED
      BY <2>1 DEF NotOvertaken
  <1> QED
    BY <1>1, <1>2, <1>3 DEF Inv

LEMMA WriteStopsInv ==
    ASSUME Inv, NEW w \in Writers, WriteStops(w)
    PROVE  Inv'
  <1>1. TypesOK'
    BY DEF Inv, TypesOK, WriteStops, Ends, Sensitivity
  <1>2. \A v \in Writers : WriterOK(v)'
    BY DEF Inv, TypesOK, WriterOK, WriteStops, Ends, Putting
  <1>3. ASSUME ~race', NEW v \in Writers PROVE NotOvertaken(v)'
    BY <1>3 DEF Inv, TypesOK, NotOvertaken, Alone, Putting, WriteStops, Ends, config
  <1> QED
    BY <1>1, <1>2, <1>3 DEF Inv

LEMMA NextInv == Inv /\ [Next]_vars => Inv'
  <1> SUFFICES ASSUME Inv, [Next]_vars PROVE Inv'
    OBVIOUS
  <1>1. ASSUME NEW w \in Writers, Write(w) PROVE Inv'
    BY <1>1, AsksInv, ConfirmedInv, GetsInv, PutWritesInv, PutReplacesInv,
       WriteStopsInv DEF Write
  <1>2. CASE Load
    BY <1>2, LoadInv DEF Load, LoadBegins, LoadReads, LoadFilters, LoadFails, config
  <1>3. CASE UNCHANGED vars
    BY <1>3, LoadInv DEF vars, config
  <1> QED
    BY <1>1, <1>2, <1>3 DEF Next

LEMMA Invariance == Spec => []Inv
  BY InitInv, NextInv, PTL DEF Spec

(* With any number of writers, a write that none overtakes between its get *)
(* and its put raises its key's version by one and keeps created_at.       *)
THEOREM VersionsRise == Spec => VersionsIncrease
  <1>1. Inv /\ [Next]_vars
          => [~race => \A k \in Keys : file'[k] # file[k] =>
                 IF file[k] = Absent
                 THEN file'[k].version = 1
                 ELSE /\ file'[k].version = file[k].version + 1
                      /\ file'[k].created = file[k].created]_vars
    <2> SUFFICES ASSUME Inv, [Next]_vars, ~race, NEW k \in Keys, file'[k] # file[k]
                 PROVE  Follows(file[k], file'[k])
      BY DEF Follows
    <2>1. PICK w \in Writers : PutReplaces(w)
      BY DEF Next, Write, Load, Asks, Confirmed, Gets, PutWrites, WriteStops,
             LoadBegins, LoadReads, LoadFilters, LoadFails, vars
    <2>2. k = wkey[w] /\ file'[k] = rec[w]
      BY <2>1 DEF Inv, TypesOK, WriterOK, NotOvertaken, Putting, PutReplaces
    <2> QED
      BY <2>1, <2>2 DEF Inv, NotOvertaken, Putting, PutReplaces
  <1> QED
    BY <1>1, Invariance, PTL DEF Spec, VersionsIncrease

-----------------------------------------------------------------------------
(* Induction over the natural numbers, in a form without predicates as     *)
(* parameters: a set with 0 that is closed under the successor holds them  *)
(* all, since there is no smallest number outside it.                      *)
LEMMA NatLess == IsWellFoundedOn({ss \in Nat \X Nat : ss[1] < ss[2]}, Nat)
  BY NatLessThanWellFounded DEF OpToRel

LEMMA SetInduction ==
    ASSUME NEW S, 0 \in S, \A n \in Nat : n \in S => n + 1 \in S
    PROVE  Nat \subseteq S
  <1> SUFFICES ASSUME Nat \ S # {} PROVE FALSE
    OBVIOUS
  <1> DEFINE R == {ss \in Nat \X Nat : ss[1] < ss[2]}
             T == Nat \ S
  <1>1. IsWellFoundedOn(R, Nat)
    BY NatLess
  <1>2. PICK n \in T : \A m \in T : ~ (<<m, n>> \in R)
    <2> HIDE DEF R
    <2> QED BY <1>1, WFMin
  <1>3. n # 0 /\ n - 1 \in Nat /\ n - 1 < n
    OBVIOUS
  <1>4. n - 1 \in S
    BY <1>2, <1>3
  <1>5. (n - 1) + 1 \in S
    BY <1>3, <1>4
  <1> QED
    BY <1>3, <1>5

(* A function is defined by its value at 0 and a step from each value to   *)
(* the next.                                                               *)
Steps(g, n, c, d) == g[0] = c /\ \A i \in 1..n : g[i] = d[<<g[i - 1], i>>]

LEMMA RecursionExists ==
    ASSUME NEW n \in Nat, NEW D, NEW c \in D, NEW d \in [D \X (1..n) -> D]
    PROVE  \E g \in [0..n -> D] : Steps(g, n, c, d)
  <1> DEFINE Defined(m) == m <= n => \E g \in [0..m -> D] : Steps(g, m, c, d)
             S == {m \in Nat : Defined(m)}
  <1>1. 0 \in S
    <2> DEFINE g == [i \in 0..0 |-> c]
    <2>1. g \in [0..0 -> D] /\ Steps(g, 0, c, d)
      BY DEF Steps
    <2> QED
      BY <2>1
  <1>2. ASSUME NEW m \in Nat, m \in S PROVE m + 1 \in S
    <2> SUFFICES ASSUME m + 1 <= n
                 PROVE  \E g \in [0..(m + 1) -> D] : Steps(g, m + 1, c, d)
      OBVIOUS
    <2>1. PICK g \in [0..m -> D] : Steps(g, m, c, d)
      BY <1>2
    <2> DEFINE h == [i \in 0..(m + 1) |-> IF i = m + 1 THEN d[<<g[m], m + 1>>] ELSE g[i]]
    <2>2. <<g[m], m + 1>> \in D \X (1..n)
      BY <2>1
    <2>3. h \in [0..(m + 1) -> D]
      BY <2>1, <2>2
    <2>4. Steps(h, m + 1, c, d)
      <3>1. h[0] = c
        BY <2>1 DEF Steps
      <3>2. ASSUME NEW i \in 1..(m + 1) PROVE h[i] = d[<<h[i - 1], i>>]
        <4>1. CASE i = m + 1
          <5>1. h[i] = d[<<g[m], m + 1>>] /\ h[m] = g[m] /\ i - 1 = m
            BY <4>1
          <5> QED
            BY <4>1, <5>1
        <4>2. CASE i # m + 1
          <5>1. i \in 1..m /\ i - 1 \in 0..m /\ i - 1 # m + 1 /\ i \in 0..(m + 1) /\ i - 1 \in 0..(m + 1)
            BY <4>2
          <5>2. h[i] = g[i] /\ h[i - 1] = g[i - 1]
            BY <4>2, <5>1
          <5> QED
            BY <2>1, <5>1, <5>2 DEF Steps
        <4> QED
          BY <4>1, <4>2
      <3> HIDE DEF h
      <3> QED
        BY <3>1, <3>2 DEF Steps
    <2> QED
      BY <2>3, <2>4
  <1>3. n \in S
    <2> HIDE DEF S
    <2> QED
      BY <1>1, <1>2, SetInduction
  <1> QED
    BY <1>3

-----------------------------------------------------------------------------
(* Kept, which the prefixes of its sequence define step by step.           *)
KeptUpto(s, S) ==
    CHOOSE upto : upto = [i \in 0..Len(s) |->
        IF i = 0 THEN <<>>
        ELSE IF s[i] \in S THEN Append(upto[i - 1], s[i]) ELSE upto[i - 1]]

Keeps(f, s, S) ==
    /\ f[0] = <<>>
    /\ \A i \in 1..Len(s) :
           f[i] = IF s[i] \in S THEN Append(f[i - 1], s[i]) ELSE f[i - 1]

LEMMA KeptUptoExists ==
    ASSUME NEW T, NEW s \in Seq(T), NEW S
    PROVE  /\ KeptUpto(s, S) \in [0..Len(s) -> Seq(T \cap S)]
           /\ Keeps(KeptUpto(s, S), s, S)
  <1> DEFINE D == Seq(T \cap S)
             n == Len(s)
             d == [p \in D \X (1..n) |->
                      IF s[p[2]] \in S THEN Append(p[1], s[p[2]]) ELSE p[1]]
  <1>1. n \in Nat /\ <<>> \in D
    OBVIOUS
  <1>2. d \in [D \X (1..n) -> D]
    <2> SUFFICES ASSUME NEW a \in D, NEW i \in 1..n
                 PROVE  (IF s[i] \in S THEN Append(a, s[i]) ELSE a) \in D
      OBVIOUS
    <2>1. s[i] \in T
      BY ElementOfSeq
    <2> QED
      BY <2>1, AppendProperties
  <1>3. PICK g \in [0..n -> D] : Steps(g, n, <<>>, d)
    <2> HIDE DEF d, D, n
    <2> QED
      BY <1>1, <1>2, RecursionExists
  <1>4. \A i \in 1..n : g[i] = IF s[i] \in S THEN Append(g[i - 1], s[i]) ELSE g[i - 1]
    <2> SUFFICES ASSUME NEW i \in 1..n
                 PROVE  g[i] = IF s[i] \in S THEN Append(g[i - 1], s[i]) ELSE g[i - 1]
      OBVIOUS
    <2>1. i - 1 \in 0..n /\ g[i - 1] \in D /\ <<g[i - 1], i>> \in D \X (1..n)
      BY <1>1
    <2>2. g[i] = d[<<g[i - 1], i>>]
      BY <1>3 DEF Steps
    <2> QED
      BY <2>1, <2>2
  <1>5. g = [i \in 0..n |-> IF i = 0 THEN <<>>
               ELSE IF s[i] \in S THEN Append(g[i - 1], s[i]) ELSE g[i - 1]]
    <2>1. g[0] = <<>>
      BY <1>3 DEF Steps
    <2>2. \A i \in 0..n : g[i] = IF i = 0 THEN <<>>
               ELSE IF s[i] \in S THEN Append(g[i - 1], s[i]) ELSE g[i - 1]
      <3> TAKE i \in 0..n
      <3>1. CASE i = 0
        BY <2>1, <3>1
      <3>2. CASE i # 0
        <4>1. i \in 1..n
          BY <1>1, <3>2
        <4> QED
          BY <1>4, <3>2, <4>1
      <3> QED
        BY <3>1, <3>2
    <2> QED
      BY <2>2
  <1>6. KeptUpto(s, S) = [i \in 0..n |-> IF i = 0 THEN <<>>
               ELSE IF s[i] \in S THEN Append(KeptUpto(s, S)[i - 1], s[i])
                    ELSE KeptUpto(s, S)[i - 1]]
    BY <1>5 DEF KeptUpto
  <1> DEFINE f == KeptUpto(s, S)
  <1>7. f[0] = <<>> /\ DOMAIN f = 0..n /\ f = [i \in 0..n |-> f[i]]
        /\ \A i \in 1..n : f[i] = IF s[i] \in S THEN Append(f[i - 1], s[i]) ELSE f[i - 1]
    <2> HIDE DEF n
    <2>1. 0 \in 0..n /\ \A i \in 1..n : i \in 0..n /\ i # 0
      BY <1>1
    <2> QED
      BY <1>6, <2>1
  <1> DEFINE Typed == {i \in Nat : i <= n => f[i] \in D}
  <1>8. 0 \in Typed
    BY <1>1, <1>7
  <1>9. ASSUME NEW i \in Nat, i \in Typed PROVE i + 1 \in Typed
    <2> SUFFICES ASSUME i + 1 <= n PROVE f[i + 1] \in D
      OBVIOUS
    <2>1. i + 1 \in 1..n /\ (i + 1) - 1 = i /\ f[i] \in D
      BY <1>9
    <2>2. f[i + 1] = IF s[i + 1] \in S THEN Append(f[i], s[i + 1]) ELSE f[i]
      BY <1>7, <2>1
    <2>3. s[i + 1] \in T
      BY <2>1, ElementOfSeq
    <2> QED
      BY <2>1, <2>2, <2>3, AppendProperties
  <1>10. Nat \subseteq Typed
    <2> HIDE DEF Typed
    <2> QED
      BY <1>8, <1>9, SetInduction
  <1>11. f \in [0..n -> D]
    <2>1. \A i \in 0..n : f[i] \in D
      BY <1>10
    <2> HIDE DEF f, n, D
    <2> QED
      BY <1>7, <2>1
  <1> QED
    BY <1>7, <1>11 DEF Keeps

LEMMA KeptIs == \A s, S : Kept(s, S) = KeptUpto(s, S)[Len(s)]
  BY DEF Kept, KeptUpto

LEMMA KeptSeq ==
    ASSUME NEW T, NEW s \in Seq(T), NEW S
    PROVE  Kept(s, S) \in Seq(T \cap S)
  <1>1. Len(s) \in 0..Len(s)
    OBVIOUS
  <1> QED
    BY <1>1, KeptIs, KeptUptoExists

LEMMA KeptEmpty == \A S : Kept(<<>>, S) = <<>>
  <1> SUFFICES ASSUME NEW S PROVE Kept(<<>>, S) = <<>>
    OBVIOUS
  <1>1. <<>> \in Seq({}) /\ Len(<<>>) = 0
    OBVIOUS
  <1>2. Keeps(KeptUpto(<<>>, S), <<>>, S)
    BY <1>1, KeptUptoExists
  <1> QED
    BY <1>1, <1>2, KeptIs DEF Keeps

LEMMA KeptAppend ==
    ASSUME NEW T, NEW s \in Seq(T), NEW x \in T, NEW S
    PROVE  /\ x \in S => Kept(Append(s, x), S) = Append(Kept(s, S), x)
           /\ x \notin S => Kept(Append(s, x), S) = Kept(s, S)
  <1> DEFINE n == Len(s)
             t == Append(s, x)
             f == KeptUpto(s, S)
             g == KeptUpto(t, S)
  <1>1. t \in Seq(T) /\ n \in Nat /\ Len(t) = n + 1 /\ t[n + 1] = x
        /\ \A i \in 1..n : t[i] = s[i]
    BY AppendProperties
  <1>2. f[0] = <<>> /\ \A i \in 1..n :
            f[i] = IF s[i] \in S THEN Append(f[i - 1], s[i]) ELSE f[i - 1]
    <2>1. Keeps(f, s, S)
      BY KeptUptoExists
    <2> HIDE DEF f
    <2> QED
      BY <2>1 DEF Keeps
  <1>3. g[0] = <<>> /\ \A i \in 1..(n + 1) :
            g[i] = IF t[i] \in S THEN Append(g[i - 1], t[i]) ELSE g[i - 1]
    <2> HIDE DEF t, n
    <2>1. Keeps(g, t, S)
      BY <1>1, KeptUptoExists
    <2> HIDE DEF g
    <2> QED
      BY <1>1, <2>1 DEF Keeps
  <1> DEFINE Same == {i \in Nat : i <= n => f[i] = g[i]}
  <1>4. 0 \in Same
    BY <1>2, <1>3
  <1>5. ASSUME NEW i \in Nat, i \in Same PROVE i + 1 \in Same
    <2> SUFFICES ASSUME i + 1 <= n PROVE f[i + 1] = g[i + 1]
      OBVIOUS
    <2> HIDE DEF f, g, t
    <2>1. /\ i + 1 \in 1..n /\ i + 1 \in 1..(n + 1) /\ (i + 1) - 1 = i
          /\ t[i + 1] = s[i + 1] /\ f[i] = g[i]
      BY <1>1, <1>5
    <2> QED
      BY <1>2, <1>3, <2>1
  <1>6. f[n] = g[n]
    <2>1. Nat \subseteq Same
      <3> HIDE DEF Same
      <3> QED
        BY <1>4, <1>5, SetInduction
    <2> QED
      BY <1>1, <2>1
  <1>7. g[n + 1] = IF x \in S THEN Append(g[n], x) ELSE g[n]
    <2> HIDE DEF g, t, n
    <2>1. n + 1 \in 1..(n + 1) /\ (n + 1) - 1 = n
      BY <1>1
    <2> QED
      BY <1>1, <1>3, <2>1
  <1> QED
    BY <1>1, <1>6, <1>7, KeptIs

-----------------------------------------------------------------------------
(* The keys of a resolvable pack.                                          *)
ResolvedUpto ==
    CHOOSE upto : upto = [i \in 0..Len(pack.includes) |->
        IF i = 0 THEN <<>> ELSE upto[i - 1] \o pack.includes[i]]

LEMMA ResolvedIsSeq ==
    ASSUME pack \in Pack, Resolvable
    PROVE  resolve_keys \in Seq(Keys)
  <1> DEFINE D == Seq(Keys)
             n == Len(pack.includes)
             d == [p \in D \X (1..n) |-> p[1] \o pack.includes[p[2]]]
             f == ResolvedUpto
  <1>1. n \in Nat /\ <<>> \in D /\ pack.keys \in D
    BY DEF Pack
  <1>2. \A i \in 1..n : pack.includes[i] \in D
    BY DEF Resolvable
  <1>3. d \in [D \X (1..n) -> D]
    <2> SUFFICES ASSUME NEW a \in D, NEW i \in 1..n PROVE a \o pack.includes[i] \in D
      OBVIOUS
    <2> QED
      BY <1>2, ConcatProperties
  <1>4. PICK g \in [0..n -> D] : Steps(g, n, <<>>, d)
    <2> HIDE DEF d, D, n
    <2> QED
      BY <1>1, <1>3, RecursionExists
  <1>5. g = [i \in 0..n |-> IF i = 0 THEN <<>> ELSE g[i - 1] \o pack.includes[i]]
    <2> SUFFICES ASSUME NEW i \in 0..n
                 PROVE  g[i] = IF i = 0 THEN <<>> ELSE g[i - 1] \o pack.includes[i]
      OBVIOUS
    <2>1. CASE i = 0
      BY <1>4, <2>1 DEF Steps
    <2>2. CASE i # 0
      <3>1. i \in 1..n /\ i - 1 \in 0..n
        BY <1>1, <2>2
      <3>2. g[i - 1] \in D /\ <<g[i - 1], i>> \in D \X (1..n)
        BY <3>1
      <3>3. g[i] = d[<<g[i - 1], i>>]
        BY <1>4, <3>1 DEF Steps
      <3> QED
        BY <2>2, <3>2, <3>3
    <2> QED
      BY <2>1, <2>2
  <1>6. f = [i \in 0..n |-> IF i = 0 THEN <<>> ELSE f[i - 1] \o pack.includes[i]]
    BY <1>5 DEF ResolvedUpto
  <1>7. f[0] = <<>> /\ \A i \in 1..n : f[i] = f[i - 1] \o pack.includes[i]
    <2> HIDE DEF n, f
    <2>1. 0 \in 0..n /\ \A i \in 1..n : i \in 0..n /\ i # 0
      BY <1>1
    <2> QED
      BY <1>6, <2>1
  <1> DEFINE Typed == {i \in Nat : i <= n => f[i] \in D}
  <1>8. 0 \in Typed
    BY <1>1, <1>7
  <1>9. ASSUME NEW i \in Nat, i \in Typed PROVE i + 1 \in Typed
    <2> SUFFICES ASSUME i + 1 <= n PROVE f[i + 1] \in D
      OBVIOUS
    <2>1. i + 1 \in 1..n /\ (i + 1) - 1 = i /\ f[i] \in D
      BY <1>9
    <2>2. f[i + 1] = f[i] \o pack.includes[i + 1]
      BY <1>7, <2>1
    <2> HIDE DEF f
    <2> QED
      BY <1>2, <2>1, <2>2, ConcatProperties
  <1>10. f[n] \in D
    <2>1. Nat \subseteq Typed
      <3> HIDE DEF Typed
      <3> QED
        BY <1>8, <1>9, SetInduction
    <2> QED
      BY <1>1, <2>1
  <1>11. resolve_keys = f[n] \o pack.keys
    BY DEF resolve_keys, ResolvedUpto
  <1> QED
    BY <1>1, <1>10, <1>11, ConcatProperties

-----------------------------------------------------------------------------
(* What the route may see of what was read, and of what is on disk.        *)
Allowed == {f \in Found : can_access(route, f.record.sensitivity)}

Stored == {k \in Keys : file[k] # Absent /\ can_access(route, file[k].sensitivity)}

Image(ks) == [i \in 1..Len(ks) |-> [key |-> ks[i], record |-> file[ks[i]]]]

(* What a load of the first n keys would give if no writer interfered.     *)
Loaded(n) == Image(Kept(SubSeq(resolve_keys, 1, n), Stored))

(* While the files are read, what was read so far and may be seen is what  *)
(* the first keys give, as long as no record changed.                      *)
ReadTypesOK ==
    /\ pack \in Packs /\ policy \in Policies /\ race \in Races
    /\ rpc \in {"idle", "reading", "done"} /\ route \in Routes
    /\ found \in Seq(Found) /\ missing \in Nat /\ records \in Seq(Found)
    /\ changed \in BOOLEAN

ReadInv ==
    /\ ReadTypesOK
    /\ rpc # "idle" =>
           /\ pack # Absent /\ Resolvable
           /\ Len(found) + missing <= Len(resolve_keys)
           /\ ~changed => Kept(found, Allowed) = Loaded(Len(found) + missing)
    /\ rpc = "done" =>
           /\ Len(found) + missing = Len(resolve_keys)
           /\ records = Kept(found, Allowed)

LEMMA PacksOK == \A p \in Packs : p # Absent => p \in Pack
  BY MemoryAssumption

LEMMA ImageEmpty == Image(<<>>) = <<>>
  BY DEF Image

LEMMA ImageAppend ==
    ASSUME NEW ks \in Seq(Keys), NEW k \in Keys
    PROVE  Image(Append(ks, k)) = Append(Image(ks), [key |-> k, record |-> file[k]])
  <1> DEFINE f == [key |-> k, record |-> file[k]]
             n == Len(ks)
             one(key) == [key |-> key, record |-> file[key]]
  <1>1. /\ Append(ks, k) \in Seq(Keys) /\ n \in Nat /\ Len(Append(ks, k)) = n + 1
        /\ Append(ks, k)[n + 1] = k /\ \A i \in 1..n : Append(ks, k)[i] = ks[i]
    BY AppendProperties
  <1>2. Image(ks) \in Seq({one(key) : key \in Keys}) /\ Len(Image(ks)) = n
        /\ \A i \in 1..n : Image(ks)[i] = one(ks[i])
    BY <1>1, ElementOfSeq DEF Image
  <1>3. /\ Append(Image(ks), f) \in Seq({one(key) : key \in Keys})
        /\ Len(Append(Image(ks), f)) = n + 1
        /\ Append(Image(ks), f)[n + 1] = f
        /\ \A i \in 1..n : Append(Image(ks), f)[i] = Image(ks)[i]
    <2>1. f \in {one(key) : key \in Keys}
      OBVIOUS
    <2> HIDE DEF f, one, n
    <2> QED
      BY <1>2, <2>1, AppendProperties
  <1>4. /\ Image(Append(ks, k)) \in Seq({one(key) : key \in Keys})
        /\ Len(Image(Append(ks, k))) = n + 1
        /\ \A i \in 1..(n + 1) : Image(Append(ks, k))[i] = one(Append(ks, k)[i])
    <2> HIDE DEF n
    <2> QED
      BY <1>1, ElementOfSeq DEF Image
  <1>5. \A i \in 1..(n + 1) : Image(Append(ks, k))[i] = Append(Image(ks), f)[i]
    <2> TAKE i \in 1..(n + 1)
    <2>1. CASE i = n + 1
      BY <1>1, <1>3, <1>4, <2>1
    <2>2. CASE i # n + 1
      <3>1. i \in 1..n
        BY <1>1, <2>2
      <3> QED
        BY <1>1, <1>2, <1>3, <1>4, <3>1
    <2> QED
      BY <2>1, <2>2
  <1> QED
    BY <1>3, <1>4, <1>5, SeqEqual

(* One more key, with or without a record.                                 *)
LEMMA LoadedGrows ==
    ASSUME resolve_keys \in Seq(Keys), NEW n \in Nat, n < Len(resolve_keys),
           NEW k, k = resolve_keys[n + 1]
    PROVE  /\ k \in Keys
           /\ k \in Stored =>
                  Loaded(n + 1) = Append(Loaded(n), [key |-> k, record |-> file[k]])
           /\ k \notin Stored => Loaded(n + 1) = Loaded(n)
  <1>1. n + 1 \in 1..Len(resolve_keys) /\ k \in Keys
    BY ElementOfSeq
  <1> DEFINE ks == SubSeq(resolve_keys, 1, n)
  <1>2. ks \in Seq(Keys) /\ SubSeq(resolve_keys, 1, n + 1) = Append(ks, k)
    <2>1. 1 \in 1..(Len(resolve_keys) + 1) /\ n + 1 \in 1..Len(resolve_keys)
          /\ 1 <= n + 1 /\ (n + 1) - 1 = n /\ n \in 0..Len(resolve_keys)
      BY <1>1
    <2> QED
      BY <2>1, SubSeqProperties, SubSeqRecursiveSecond
  <1>3. Kept(ks, Stored) \in Seq(Keys)
    <2> HIDE DEF ks
    <2>1. Keys \cap Stored = Stored /\ Stored \subseteq Keys
      BY DEF Stored
    <2>2. Kept(ks, Stored) \in Seq(Keys \cap Stored)
      BY <1>2, KeptSeq
    <2> QED
      BY <2>1, <2>2, SeqMonotonic
  <1>4. /\ k \in Stored => Kept(Append(ks, k), Stored) = Append(Kept(ks, Stored), k)
        /\ k \notin Stored => Kept(Append(ks, k), Stored) = Kept(ks, Stored)
    <2> HIDE DEF ks
    <2>1. ks \in Seq(Keys) /\ k \in Keys
      BY <1>1, <1>2
    <2> QED
      BY ONLY <2>1, KeptAppend
  <1> QED
    <2> HIDE DEF ks
    <2> QED
      BY <1>1, <1>2, <1>3, <1>4, ImageAppend DEF Loaded, ks

LEMMA InitRead == Init => ReadInv
  <1> SUFFICES ASSUME Init PROVE ReadInv
    OBVIOUS
  <1>1. ReadTypesOK
    BY EmptySeq DEF Init, ReadTypesOK
  <1> QED
    BY <1>1 DEF Init, ReadInv

(* resolve_keys and what may be seen only depend on the configuration, the *)
(* route and the files.                                                    *)
LEMMA ResolveSame ==
    ASSUME pack' = pack
    PROVE  resolve_keys' = resolve_keys /\ Resolvable' = Resolvable
  BY DEF resolve_keys, Resolvable

LEMMA AllowedSame ==
    ASSUME policy' = policy, route' = route
    PROVE  Allowed' = Allowed
  BY DEF Allowed, can_access

LEMMA LoadedSame ==
    ASSUME UNCHANGED <<pack, policy, route, file>>
    PROVE  \A n : Loaded(n)' = Loaded(n)
  <1>1. Stored' = Stored
    BY DEF Stored, can_access
  <1>2. \A ks : Image(ks)' = Image(ks)
    BY DEF Image
  <1> QED
    BY <1>1, <1>2, ResolveSame DEF Loaded

(* Whatever a writer does: when a record changes, so does changed.         *)
LEMMA WriteRead ==
    ASSUME ReadInv, UNCHANGED <<config, rpc, route, found, missing, records>>,
           changed' = TRUE \/ UNCHANGED <<file, changed>>
    PROVE  ReadInv'
  <1>1. resolve_keys' = resolve_keys /\ Resolvable' = Resolvable /\ Allowed' = Allowed
    BY ResolveSame, AllowedSame DEF config
  <1>2. Kept(found, Allowed)' = Kept(found, Allowed)
    BY <1>1 DEF Kept
  <1>3. CASE changed' = TRUE
    BY <1>1, <1>2, <1>3 DEF ReadInv, ReadTypesOK, config
  <1>4. CASE UNCHANGED <<file, changed>>
    <2>1. Loaded(Len(found) + missing)' = Loaded(Len(found) + missing)
      BY <1>4, LoadedSame DEF config
    <2> QED
      BY <1>1, <1>2, <1>4, <2>1 DEF ReadInv, ReadTypesOK, config
  <1> QED
    BY <1>3, <1>4

LEMMA BeginsRead ==
    ASSUME ReadInv, NEW r \in Routes, LoadBegins(r)
    PROVE  ReadInv'
  <1>1. UNCHANGED <<pack, policy, race, file>> /\ route' = r /\ found' = <<>>
        /\ missing' = 0 /\ records' = <<>> /\ changed' = FALSE
        /\ (rpc' = "idle" \/ (rpc' = "reading" /\ pack # Absent /\ Resolvable))
    BY DEF LoadBegins, config
  <1>2. resolve_keys' = resolve_keys /\ Resolvable' = Resolvable
    BY <1>1, ResolveSame
  <1>3. CASE rpc' = "idle"
    BY <1>1, <1>3, EmptySeq DEF ReadInv, ReadTypesOK
  <1>4. CASE rpc' = "reading" /\ pack # Absent /\ Resolvable
    <2>1. resolve_keys \in Seq(Keys)
      BY <1>4, PacksOK, ResolvedIsSeq DEF ReadInv, ReadTypesOK
    <2>2. Loaded(0)' = <<>>
      <3>1. SubSeq(resolve_keys', 1, 0) = <<>>
        BY SubSeqEmpty
      <3>2. Kept(<<>>, Stored') = <<>>
        BY KeptEmpty
      <3>3. Image(<<>>)' = <<>>
        BY DEF Image
      <3> QED
        BY <3>1, <3>2, <3>3 DEF Loaded
    <2>3. Kept(<<>>, Allowed') = <<>>
      BY KeptEmpty
    <2>4. ReadTypesOK'
      BY <1>1, <1>4, EmptySeq DEF ReadInv, ReadTypesOK
    <2>5. Len(found') + missing' = 0 /\ Len(resolve_keys) \in Nat
      BY <1>1, <2>1
    <2>6. Kept(found', Allowed') = Loaded(Len(found) + missing)'
      <3>1. Loaded(Len(found) + missing)' = Loaded(0)'
        BY <2>5 DEF Loaded
      <3> QED
        BY <1>1, <2>2, <2>3, <3>1
    <2> QED
      BY <1>1, <1>2, <1>4, <2>4, <2>5, <2>6 DEF ReadInv
  <1> QED
    BY <1>1, <1>3, <1>4

LEMMA ReadsRead ==
    ASSUME ReadInv, file \in [Keys -> Record \cup {Absent}], LoadReads
    PROVE  ReadInv'
  <1> DEFINE n == Len(found) + missing
             k == resolve_keys[n + 1]
             f == [key |-> k, record |-> file[k]]
  <1>1. /\ rpc = "reading" /\ n + 1 <= Len(resolve_keys)
        /\ UNCHANGED <<pack, policy, race, file, rpc, route, records, changed>>
        /\ file[k] = Absent => missing' = missing + 1 /\ found' = found
        /\ file[k] # Absent => found' = Append(found, f) /\ missing' = missing
    BY DEF LoadReads, Position, config
  <1>2. pack # Absent /\ Resolvable /\ resolve_keys \in Seq(Keys) /\ n \in Nat
        /\ found \in Seq(Found) /\ missing \in Nat
    BY <1>1, PacksOK, ResolvedIsSeq DEF ReadInv, ReadTypesOK
  <1>3. /\ k \in Keys
        /\ k \in Stored => Loaded(n + 1) = Append(Loaded(n), f)
        /\ k \notin Stored => Loaded(n + 1) = Loaded(n)
    <2> HIDE DEF n
    <2>1. Len(resolve_keys) \in Nat
      BY <1>2
    <2> QED
      BY <1>1, <1>2, <2>1, LoadedGrows
  <1>4. resolve_keys' = resolve_keys /\ Resolvable' = Resolvable /\ Allowed' = Allowed
        /\ \A m : Loaded(m)' = Loaded(m)
    BY <1>1, ResolveSame, AllowedSame, LoadedSame
  <1>5. file[k] # Absent => f \in Found
    BY <1>3 DEF Found
  <1>6. ReadTypesOK' /\ Len(found') + missing' = n + 1
    <2>1. CASE file[k] = Absent
      BY <1>1, <1>2, <2>1 DEF ReadInv, ReadTypesOK
    <2>2. CASE file[k] # Absent
      <3>1. found' = Append(found, f) /\ f \in Found /\ missing' = missing
        BY <1>1, <1>5, <2>2
      <3>2. found' \in Seq(Found) /\ Len(found') = Len(found) + 1
        <4> HIDE DEF f, k
        <4> QED
          BY <1>2, <3>1, AppendProperties
      <3>3. Len(found') + missing' = n + 1
        <4>1. Len(found) \in Nat
          BY <1>2
        <4> QED
          BY <1>2, <3>1, <3>2, <4>1
      <3>4. ReadTypesOK'
        BY <1>1, <3>1, <3>2 DEF ReadInv, ReadTypesOK
      <3> QED
        BY <3>3, <3>4
    <2> QED
      BY <2>1, <2>2
  <1>7. ASSUME ~changed
        PROVE  Kept(found', Allowed) = Loaded(n + 1)
    <2>1. Kept(found, Allowed) = Loaded(n)
      BY <1>1, <1>7 DEF ReadInv
    <2>2. CASE file[k] = Absent
      BY <1>1, <1>3, <2>1, <2>2 DEF Stored
    <2>3. CASE file[k] # Absent
      <3>1. f \in Allowed <=> k \in Stored
        BY <1>3, <1>5, <2>3 DEF Allowed, Stored
      <3>2. /\ f \in Allowed => Kept(found', Allowed) = Append(Kept(found, Allowed), f)
            /\ f \notin Allowed => Kept(found', Allowed) = Kept(found, Allowed)
        <4>1. found' = Append(found, f) /\ f \in Found
          BY <1>1, <1>5, <2>3
        <4> HIDE DEF f, k
        <4> QED
          BY <1>2, <4>1, KeptAppend
      <3> HIDE DEF f, k, n
      <3> QED
        BY <1>3, <2>1, <3>1, <3>2
    <2> QED
      BY <2>2, <2>3
  <1>8. Len(found') + missing' <= Len(resolve_keys)
    BY <1>1, <1>6
  <1>9. ~changed => Kept(found, Allowed)' = Loaded(Len(found) + missing)'
    <2>1. PICK m : m = n + 1
      OBVIOUS
    <2>2. Loaded(Len(found) + missing)' = Loaded(m)'
      BY <1>6, <2>1 DEF Loaded
    <2> QED
      BY <1>4, <1>7, <2>1, <2>2
  <1> QED
    BY <1>1, <1>2, <1>4, <1>6, <1>8, <1>9 DEF ReadInv

LEMMA FiltersRead ==
    ASSUME ReadInv, LoadFilters
    PROVE  ReadInv'
  <1>1. /\ rpc = "reading" /\ Len(found) + missing + 1 > Len(resolve_keys)
        /\ records' = Kept(found, Allowed) /\ rpc' = "done"
        /\ UNCHANGED <<pack, policy, race, file, route, found, missing, changed>>
    BY DEF LoadFilters, Position, Allowed, config
  <1>2. /\ pack # Absent /\ Resolvable /\ resolve_keys \in Seq(Keys)
        /\ Len(found) + missing = Len(resolve_keys)
    <2>1. pack # Absent /\ Resolvable /\ resolve_keys \in Seq(Keys)
      BY <1>1, PacksOK, ResolvedIsSeq DEF ReadInv, ReadTypesOK
    <2>2. Len(found) + missing \in Nat /\ Len(resolve_keys) \in Nat
      BY <2>1 DEF ReadInv, ReadTypesOK
    <2> QED
      BY <1>1, <2>1, <2>2 DEF ReadInv
  <1>3. resolve_keys' = resolve_keys /\ Resolvable' = Resolvable /\ Allowed' = Allowed
        /\ \A n : Loaded(n)' = Loaded(n)
    BY <1>1, ResolveSame, AllowedSame, LoadedSame
  <1>4. Kept(found, Allowed)' = Kept(found, Allowed)
        /\ Loaded(Len(found) + missing)' = Loaded(Len(found) + missing)
    BY <1>1, <1>3 DEF Kept
  <1>5. Kept(found, Allowed) \in Seq(Found)
    <2>1. Kept(found, Allowed) \in Seq(Found \cap Allowed)
      BY KeptSeq DEF ReadInv, ReadTypesOK
    <2> QED
      BY <2>1, SeqMonotonic
  <1>6. ReadTypesOK'
    BY <1>1, <1>5 DEF ReadInv, ReadTypesOK
  <1> QED
    BY <1>1, <1>2, <1>3, <1>4, <1>6 DEF ReadInv

LEMMA FailsRead ==
    ASSUME ReadInv, LoadFails
    PROVE  ReadInv'
  <1>1. rpc' = "idle" /\ ReadTypesOK'
    BY EmptySeq DEF LoadFails, config, ReadInv, ReadTypesOK
  <1> QED
    BY <1>1 DEF ReadInv

LEMMA NextRead == Inv /\ ReadInv /\ [Next]_vars => ReadInv'
  <1> SUFFICES ASSUME Inv, ReadInv, [Next]_vars PROVE ReadInv'
    OBVIOUS
  <1>1. ASSUME NEW w \in Writers, Write(w) PROVE ReadInv'
    <2>1. CASE PutReplaces(w)
      BY <2>1, WriteRead DEF PutReplaces
    <2>2. CASE ~PutReplaces(w)
      BY <1>1, <2>2, WriteRead
         DEF Write, Asks, Confirmed, Gets, PutWrites, WriteStops, reader
    <2> QED
      BY <2>1, <2>2
  <1>2. CASE Load
    <2>1. file \in [Keys -> Record \cup {Absent}]
      BY DEF Inv, TypesOK
    <2> QED
      BY <1>2, <2>1, BeginsRead, ReadsRead, FiltersRead, FailsRead DEF Load
  <1>3. CASE UNCHANGED vars
    BY <1>3, WriteRead DEF vars, reader
  <1> QED
    BY <1>1, <1>2, <1>3 DEF Next

LEMMA ReadInvariance == Spec => []ReadInv
  BY InitRead, NextRead, Invariance, PTL DEF Spec

(* Files, temporary files, what the writers hold and what a turn has read  *)
(* stay records of the keys, whoever writes meanwhile.                     *)
THEOREM TypeCorrect == Spec => []TypeOK
  <1>1. Inv /\ ReadInv => TypeOK
    BY DEF Inv, TypesOK, ReadInv, ReadTypesOK, TypeOK
  <1> QED
    BY <1>1, Invariance, ReadInvariance, PTL

(* For packs of any size and any number of writers, a turn is given what   *)
(* its route may see and, when no record changed, all of it.               *)
THEOREM LoadsAreAllowed == Spec => []LoadsWhatIsAllowed
  <1>1. ReadInv => LoadsWhatIsAllowed
    <2> SUFFICES ASSUME ReadInv, rpc = "done"
                 PROVE  /\ \A i \in 1..Len(records) :
                               /\ can_access(route, records[i].record.sensitivity)
                               /\ route \in policy.routes
                        /\ Len(found) + missing = Len(resolve_keys)
                        /\ ~changed => records = Image(Kept(resolve_keys, Stored))
      BY DEF LoadsWhatIsAllowed, Image, Stored
    <2>1. records = Kept(found, Allowed) /\ Len(found) + missing = Len(resolve_keys)
      BY DEF ReadInv
    <2>2. records \in Seq(Found \cap Allowed)
      BY <2>1, KeptSeq DEF ReadInv, ReadTypesOK
    <2>3. ASSUME NEW i \in 1..Len(records)
          PROVE  can_access(route, records[i].record.sensitivity) /\ route \in policy.routes
      <3>1. records[i] \in Allowed
        BY <2>2, ElementOfSeq
      <3> QED
        BY <3>1 DEF Allowed, can_access
    <2>4. ASSUME ~changed PROVE records = Image(Kept(resolve_keys, Stored))
      <3>1. resolve_keys \in Seq(Keys)
        BY PacksOK, ResolvedIsSeq DEF ReadInv, ReadTypesOK
      <3>2. SubSeq(resolve_keys, 1, Len(resolve_keys)) = resolve_keys
        BY <3>1, SubSeqFull
      <3>3. records = Loaded(Len(resolve_keys))
        BY <2>1, <2>4 DEF ReadInv
      <3> QED
        BY <3>2, <3>3 DEF Loaded
    <2> QED
      BY <2>1, <2>3, <2>4
  <1> QED
    BY <1>1, ReadInvariance, PTL
=============================================================================
