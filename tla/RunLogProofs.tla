----------------------------- MODULE RunLogProofs -----------------------------
(***************************************************************************)
(* Proofs about the diagnostic logs, for any number of runs that log and   *)
(* prune at a time, any names and any number of logs kept.                 *)
(***************************************************************************)
EXTENDS RunLog, Integers, FiniteSetTheorems, TLAPS

Before == {"parse", "create", "list", "prune", "startup"}
After == {"authorize", "operate", "terminal?", "interface", "ended"}
Events == {"startup", "docker-auth", "failure", "success", "transition", "torn"}

\* The types of the processes, the directory and the lists of it.
PruneTypeOK ==
    /\ pc \in [Runs -> Before \union After] /\ name \in [Runs -> Names \union {0}]
    /\ logs \in SUBSET Names /\ doomed \in [Runs -> Seq(Names)] /\ orderly \in BOOLEAN

\* The types of the arguments, the records and the outcome.
RecordTypeOK ==
    /\ route \in [Runs -> Routes] /\ records \in [Runs -> Seq(Events)]
    /\ warning \in [Runs -> {"none", "unpruned", "stopped"}] /\ success \in [Runs -> BOOLEAN]
    /\ exit \in [Runs -> {"running", "killed", "0", "1", "2", "75"}]

TypeOK == PruneTypeOK /\ RecordTypeOK

-----------------------------------------------------------------------------
(* What a run has still to remove.                                          *)

Doomed(r) == {doomed[r][i] : i \in 1..Len(doomed[r])}

\* The logs that earlier runs have left.
Earlier == {m \in logs : \A r \in Runs : name[r] # m}

\* A run has a log before it lists the directory, and a list only while it prunes.
StepInv ==
    \A r \in Runs :
        /\ pc[r] \in {"parse", "create"} => name[r] = 0
        /\ pc[r] \in {"parse", "create", "list"} => doomed[r] = <<>>
        /\ pc[r] = "prune" => doomed[r] # <<>>
        /\ pc[r] \in {"list", "prune"} => name[r] # 0
        /\ orderly /\ doomed[r] # <<>> => pc[r] = "prune"

\* The list is in descending order.
OrderInv ==
    \A r \in Runs : \A i, j \in 1..Len(doomed[r]) : i < j => doomed[r][i] > doomed[r][j]

\* Nobody lists its own log, or one without Keep later ones; and who lists a log lists every
\* earlier run's log that is older.
DoomedInv ==
    \A r \in Runs : \A n \in Doomed(r) :
        /\ n # name[r] /\ Cardinality(Newer(n, logs)) >= Keep
        /\ \A m \in Earlier : m < n => m \in Doomed(r)

\* z will get to m: nothing on its list before m is gone, nor anything that somebody else
\* lists between the two.
Reaches(z, m) ==
    /\ pc[z] = "prune" /\ m \in Doomed(z)
    /\ \A n \in Doomed(z) : n > m =>
          n \in logs /\ \A q \in Runs : \A k \in Doomed(q) : m < k /\ k < n => k \in logs

\* A log on somebody's list that is newer than m and gone.
Gone(m) == \E q \in Runs : \E k \in Doomed(q) : k > m /\ k \notin logs

\* Who has removed the last of them gets to m, and somebody gets to every log to remove.
ReachInv ==
    orderly => \A m \in Earlier :
        /\ Gone(m) => \E z \in Runs : Reaches(z, m)
        /\ Cardinality(Newer(m, logs)) >= Keep /\ (\E r \in Runs : name[r] # 0) =>
              \E z \in Runs : pc[z] = "list" \/ Reaches(z, m)

-----------------------------------------------------------------------------
(* What a run has written.                                                  *)

\* Of one log.
RecordsOf(r) ==
    \A i \in 1..Len(records[r]) :
        /\ i = 1 => records[r][i] \in {"startup", "torn"}
        /\ records[r][i] = "torn" => i = Len(records[r]) /\ warning[r] = "stopped"
        /\ records[r][i] = "success" => success[r]

\* A log that was not interrupted begins with the startup.
RecordInv ==
    \A r \in Runs :
        /\ RecordsOf(r)
        /\ pc[r] \in Before => records[r] = <<>>
        /\ pc[r] \in After \ {"ended"} /\ name[r] # 0 /\ warning[r] # "stopped" =>
              Len(records[r]) > 0

\* A command's log that was not interrupted ends with the verdict.
ExitInv ==
    \A r \in Runs :
        /\ exit[r] = "running" <=> pc[r] # "ended"
        /\ pc[r] \in {"terminal?", "interface"} => route[r] \notin Commands
        /\ route[r] \in Commands /\ exit[r] \in {"0", "1", "75"} /\ name[r] # 0
              /\ warning[r] # "stopped"
           => /\ Len(records[r]) > 0
              /\ records[r][Len(records[r])] = IF exit[r] = "0" THEN "success" ELSE "failure"

\* The inductive invariant.
IInv == /\ TypeOK /\ StepInv /\ OrderInv /\ DoomedInv /\ ReachInv
        /\ RecordInv /\ ExitInv

-----------------------------------------------------------------------------
(* Lemmas: sets of names, and lists of them.                                *)

\* Names of logs are positive numbers.
LEMMA NamesAreNumbers == Names \subseteq Nat /\ 0 \notin Names
  BY RunLogAssumption

\* There are finitely many of them, so that those in the directory can be counted.
LEMMA NamesAreFinite ==
  ASSUME NEW S \in SUBSET Names
  PROVE  IsFiniteSet(S) /\ Cardinality(S) \in Nat
  BY RunLogAssumption, FS_Subset, FS_CardinalityType

\* A newer log has fewer newer ones.
LEMMA NewerThanNewer ==
  ASSUME NEW S \in SUBSET Nat, NEW n \in Nat, NEW k \in Nat, n < k
  PROVE  Newer(k, S) \subseteq Newer(n, S) \ {k} /\ Newer(k, S) \subseteq Newer(n, S \ {k})
  <1>1. \A x \in Nat : x > k => x > n /\ x # k
    OBVIOUS
  <1> QED
    BY <1>1 DEF Newer

\* With more logs, or for an older one, there are no fewer newer ones.
LEMMA MoreNewer ==
  ASSUME NEW S \in SUBSET Names, NEW T \in SUBSET Names, NEW n, NEW k,
         Newer(n, S) \subseteq Newer(k, T), Cardinality(Newer(n, S)) >= Keep
  PROVE  Cardinality(Newer(k, T)) >= Keep
  <1>1. Newer(k, T) \in SUBSET Names /\ Newer(n, S) \in SUBSET Newer(k, T)
    BY DEF Newer
  <1>2. Newer(n, S) \in SUBSET Names
    BY <1>1
  <1>3. Cardinality(Newer(n, S)) <= Cardinality(Newer(k, T))
    BY <1>1, NamesAreFinite, FS_Subset
  <1> QED
    BY <1>1, <1>2, <1>3, NamesAreFinite, RunLogAssumption

\* Descending lists every member of a finite set once, the largest first.
LEMMA DescendingFacts ==
  ASSUME NEW S \in SUBSET Names
  PROVE  /\ Descending(S) \in Seq(S) /\ Len(Descending(S)) = Cardinality(S)
         /\ \A x \in S : \E i \in 1..Cardinality(S) : Descending(S)[i] = x
         /\ \A i, j \in 1..Cardinality(S) : i < j => Descending(S)[i] > Descending(S)[j]
  <1> DEFINE N == Cardinality(S)
             Rank(x) == Cardinality(Newer(x, S))
             f == [x \in S |-> Rank(x) + 1]
  <1>1. IsFiniteSet(S) /\ N \in Nat /\ S \subseteq Nat
    BY NamesAreFinite, NamesAreNumbers
  <1>2. \A x \in S : Rank(x) \in Nat
    BY NamesAreFinite DEF Newer
  <1>3. \A x, y \in S : x < y => Rank(y) < Rank(x)
    <2> SUFFICES ASSUME NEW x \in S, NEW y \in S, x < y PROVE Rank(y) < Rank(x)
      OBVIOUS
    <2>1. Newer(x, S) \in SUBSET Names /\ y \in Newer(x, S)
      BY DEF Newer
    <2>2. IsFiniteSet(Newer(x, S))
      BY <2>1, NamesAreFinite
    <2>3. IsFiniteSet(Newer(x, S) \ {y}) /\ Cardinality(Newer(x, S) \ {y}) = Rank(x) - 1
      BY <2>1, <2>2, FS_RemoveElement
    <2>4. Newer(y, S) \in SUBSET (Newer(x, S) \ {y})
      BY <1>1, NewerThanNewer
    <2>5. Rank(y) <= Cardinality(Newer(x, S) \ {y})
      BY <2>3, <2>4, FS_Subset
    <2> QED
      BY <1>2, <2>3, <2>5
  <1>4. \A x \in S : Rank(x) + 1 \in 1..N
    <2> SUFFICES ASSUME NEW x \in S PROVE Rank(x) + 1 <= N
      BY <1>2, <1>1
    <2>1. IsFiniteSet(S \ {x}) /\ Cardinality(S \ {x}) = N - 1
      BY <1>1, FS_RemoveElement
    <2>2. Newer(x, S) \in SUBSET (S \ {x})
      BY <1>1 DEF Newer
    <2>3. Rank(x) <= N - 1
      BY <2>1, <2>2, FS_Subset
    <2> QED
      BY <1>1, <1>2, <2>3
  <1> HIDE DEF Rank
  <1>5. \A x, y \in S : Rank(x) = Rank(y) => x = y
    BY <1>1, <1>2, <1>3
  <1>6. f \in Injection(S, 1..N)
    BY <1>2, <1>4, <1>5 DEF Injection, IsInjective
  <1>7. f \in Surjection(S, 1..N)
    <2>1. IsFiniteSet(1..N) /\ Cardinality(1..N) = N
      BY <1>1, FS_Interval
    <2> QED
      BY <1>6, <2>1, FS_Injection
  <1>8. \A i \in 1..N : \E x \in S : Rank(x) = i - 1
    <2> SUFFICES ASSUME NEW i \in 1..N PROVE \E x \in S : Rank(x) = i - 1
      OBVIOUS
    <2>1. \E x \in S : f[x] = i
      BY <1>7 DEF Surjection
    <2> QED
      BY <1>1, <1>2, <2>1
  <1> DEFINE D == [i \in 1..N |-> CHOOSE n \in S : Rank(n) = i - 1]
  <1>9. Descending(S) = D
    BY DEF Descending, Rank
  <1>10. \A i \in 1..N : D[i] \in S /\ Rank(D[i]) = i - 1
    BY <1>8
  <1>11. D \in Seq(S) /\ Len(D) = N
    BY <1>1, <1>10
  <1>12. \A x \in S : \E i \in 1..N : D[i] = x
    <2> SUFFICES ASSUME NEW x \in S PROVE D[Rank(x) + 1] = x
      BY <1>4
    <2>1. Rank(D[Rank(x) + 1]) = Rank(x) /\ D[Rank(x) + 1] \in S
      BY <1>2, <1>4, <1>10
    <2> QED
      BY <1>5, <2>1
  <1>13. ASSUME NEW i \in 1..N, NEW j \in 1..N, i < j PROVE D[i] > D[j]
    <2>1. /\ D[i] \in S /\ D[j] \in S /\ Rank(D[i]) = i - 1 /\ Rank(D[j]) = j - 1
      BY <1>10
    <2> HIDE DEF D
    <2>2. ~(Rank(D[j]) < Rank(D[i])) /\ Rank(D[i]) # Rank(D[j])
      BY <1>1, <1>13, <2>1
    <2>3. D[i] \in Nat /\ D[j] \in Nat /\ D[i] # D[j] /\ ~(D[i] < D[j])
      BY <1>1, <1>3, <2>1, <2>2
    <2> QED
      BY <2>3
  <1> QED
    BY <1>9, <1>11, <1>12, <1>13

\* The head of a descending list is its largest member, and the tail has the others.
LEMMA DoomedFacts ==
  ASSUME TypeOK, OrderInv, NEW r \in Runs, doomed[r] # <<>>
  PROVE  /\ Head(doomed[r]) \in Doomed(r) /\ Doomed(r) \subseteq Names
         /\ \A n \in Doomed(r) : n <= Head(doomed[r])
         /\ Len(doomed[r]) = 1 => Doomed(r) = {Head(doomed[r])}
         /\ Len(doomed[r]) # 1 => Tail(doomed[r]) # <<>>
         /\ Tail(doomed[r]) \in Seq(Names)
         /\ {Tail(doomed[r])[i] : i \in 1..Len(Tail(doomed[r]))} = Doomed(r) \ {Head(doomed[r])}
  <1> DEFINE d == doomed[r]
             t == Tail(doomed[r])
  <1>1. d \in Seq(Names) /\ Len(d) \in Nat \ {0} /\ Head(d) = d[1]
    BY DEF TypeOK, PruneTypeOK
  <1>2. t \in Seq(Names) /\ Len(t) = Len(d) - 1 /\ \A i \in 1..Len(t) : t[i] = d[i + 1]
    BY <1>1
  <1>3. /\ d[1] \in Nat
        /\ \A i \in 1..Len(d) : d[i] \in Names /\ d[i] \in Nat /\ d[i] <= d[1]
        /\ \A i \in 1..Len(d) : i # 1 => d[i] < d[1]
    <2>1. 1 \in 1..Len(d) /\ \A i \in 1..Len(d) : d[i] \in Names /\ (i = 1 \/ d[1] > d[i])
      BY <1>1 DEF OrderInv
    <2>2. \A x \in Names : x \in Nat
      BY NamesAreNumbers
    <2>3. d[1] \in Nat /\ \A i \in 1..Len(d) : d[i] \in Nat
      BY <2>1, <2>2
    <2>4. \A i \in 1..Len(d) : d[i] = d[1] \/ d[i] < d[1]
      BY <2>1, <2>3
    <2> QED
      BY <2>1, <2>3, <2>4
  <1>4. Doomed(r) = {d[i] : i \in 1..Len(d)}
    BY DEF Doomed
  <1> HIDE DEF d, t
  <1>5. d[1] \in Doomed(r) /\ Doomed(r) \subseteq Names
    BY <1>1, <1>3, <1>4
  <1>6. \A n \in Doomed(r) : n <= d[1]
    BY <1>3, <1>4
  <1>7. Len(d) = 1 => Doomed(r) = {d[1]}
    BY <1>1, <1>4
  <1>8. Len(d) # 1 => t # <<>>
    BY <1>1, <1>2
  <1>9. {t[i] : i \in 1..Len(t)} = Doomed(r) \ {d[1]}
    <2>1. ASSUME NEW i \in 1..Len(t) PROVE t[i] \in Doomed(r) \ {d[1]}
      <3>1. i + 1 \in 1..Len(d) /\ t[i] = d[i + 1] /\ i + 1 # 1
        BY <1>1, <1>2
      <3>2. d[1] > d[i + 1] /\ d[1] \in Nat /\ d[i + 1] \in Nat
        BY <1>3, <3>1
      <3> QED
        BY <1>4, <3>1, <3>2
    <2>2. ASSUME NEW n \in Doomed(r) \ {d[1]} PROVE \E i \in 1..Len(t) : t[i] = n
      <3>1. PICK i \in 1..Len(d) : d[i] = n
        BY <1>4
      <3>2. i - 1 \in 1..Len(t) /\ t[i - 1] = d[i]
        BY <1>1, <1>2, <2>2, <3>1
      <3> QED
        BY <3>1, <3>2
    <2> QED
      BY <2>1, <2>2
  <1> QED
    BY <1>1, <1>2, <1>5, <1>6, <1>7, <1>8, <1>9 DEF d, t

-----------------------------------------------------------------------------
(* Lemmas: the pruning.                                                     *)

PruneInv == TypeOK /\ StepInv /\ OrderInv /\ DoomedInv /\ ReachInv

\* A step that leaves the directory, the lists and who prunes alone.
LEMMA AsideKeeps ==
  ASSUME PruneInv, TypeOK', UNCHANGED <<name, logs, doomed>>,
         \A q \in Runs :
             /\ pc[q] # pc'[q] => pc[q] # "list" /\ (pc[q] # "prune" \/ ~orderly')
             /\ pc'[q] = "list" => pc[q] = "list"
             /\ pc'[q] = "prune" => pc[q] = "prune"
             /\ pc'[q] \in {"parse", "create"} => pc[q] \in {"parse", "create"},
         orderly' => orderly
  PROVE  PruneInv'
  <1> USE DEF PruneInv
  <1>1. \A q \in Runs : Doomed(q)' = Doomed(q)
    BY DEF Doomed
  <1>2. Earlier' = Earlier
    BY DEF Earlier
  <1>3. StepInv'
    BY DEF StepInv, TypeOK, PruneTypeOK
  <1>4. OrderInv'
    BY DEF OrderInv
  <1>5. DoomedInv'
    BY <1>1, <1>2 DEF DoomedInv
  <1>6. ReachInv'
    <2> SUFFICES ASSUME orderly', NEW m \in Earlier
                 PROVE  /\ Gone(m)' => \E z \in Runs : Reaches(z, m)'
                        /\ Cardinality(Newer(m, logs)) >= Keep /\ (\E r \in Runs : name[r] # 0) =>
                              \E z \in Runs : pc'[z] = "list" \/ Reaches(z, m)'
      BY <1>2 DEF ReachInv
    <2>1. Gone(m)' <=> Gone(m)
      BY <1>1 DEF Gone
    <2>2. \A z \in Runs : Reaches(z, m) => Reaches(z, m)'
      BY <1>1 DEF Reaches
    <2>3. \A z \in Runs : pc[z] = "list" => pc'[z] = "list"
      OBVIOUS
    <2> QED
      BY <2>1, <2>2, <2>3 DEF ReachInv
  <1> QED
    BY <1>3, <1>4, <1>5, <1>6

\* A new log is nobody's to remove, and its run is about to list the directory.
LEMMA CreateKeeps ==
  ASSUME PruneInv, NEW r \in Runs, Create(r)
  PROVE  PruneInv'
  <1> USE DEF PruneInv
  <1>1. TypeOK'
    <2>1. PruneTypeOK'
      BY DEF TypeOK, PruneTypeOK, Create, Goto, Before, After
    <2>2. RecordTypeOK'
      BY DEF TypeOK, RecordTypeOK, Create
    <2> QED
      BY <2>1, <2>2 DEF TypeOK
  <1>2. CASE UNCHANGED name
    <2>1. /\ pc[r] = "create" /\ pc' = [pc EXCEPT ![r] = "startup"]
          /\ UNCHANGED <<logs, doomed, orderly>>
      <3>1. pc[r] = "create" /\ name[r] = 0 /\ r \in DOMAIN name
        BY DEF Create, StepInv, TypeOK, PruneTypeOK
      <3> QED
        BY <1>2, <3>1, NamesAreNumbers DEF Create, Goto
    <2> QED
      BY <1>1, <1>2, <2>1, AsideKeeps DEF TypeOK, PruneTypeOK
  <1>3. CASE name' # name
    <2>1. PICK n \in Names \ logs :
             /\ n \notin {name[q] : q \in Runs}
             /\ name' = [name EXCEPT ![r] = n] /\ logs' = logs \union {n}
             /\ pc' = [pc EXCEPT ![r] = "list"]
      BY <1>3 DEF Create, Goto
    <2>2. pc[r] = "create" /\ name[r] = 0 /\ doomed[r] = <<>> /\ UNCHANGED <<doomed, orderly>>
      BY DEF Create, StepInv
    <2>3. \A q \in Runs : Doomed(q)' = Doomed(q)
      BY <2>2 DEF Doomed
    <2>4. Earlier' = Earlier
      BY <2>1, <2>2, NamesAreNumbers DEF Earlier, TypeOK, PruneTypeOK
    <2>5. StepInv'
      BY <2>1, <2>2, NamesAreNumbers DEF StepInv, TypeOK, PruneTypeOK
    <2>6. OrderInv'
      BY <2>2 DEF OrderInv
    <2>7. DoomedInv'
      <3> SUFFICES ASSUME NEW q \in Runs, NEW k \in Doomed(q)
                   PROVE  /\ k # name'[q] /\ Cardinality(Newer(k, logs')) >= Keep
                          /\ \A m \in Earlier : m < k => m \in Doomed(q)
        BY <2>3, <2>4 DEF DoomedInv
      <3>1. q # r
        BY <2>2 DEF Doomed
      <3>2. Newer(k, logs) \subseteq Newer(k, logs')
        BY <2>1 DEF Newer
      <3>3. Cardinality(Newer(k, logs')) >= Keep
        BY <1>1, <3>2, MoreNewer DEF DoomedInv, TypeOK, PruneTypeOK
      <3> QED
        BY <2>1, <3>1, <3>3 DEF DoomedInv, TypeOK, PruneTypeOK
    <2>8. ReachInv'
      <3> SUFFICES ASSUME orderly, NEW m \in Earlier
                   PROVE  /\ Gone(m)' => \E z \in Runs : Reaches(z, m)'
                          /\ \E z \in Runs : pc'[z] = "list" \/ Reaches(z, m)'
        BY <2>2, <2>4 DEF ReachInv
      <3>1. Gone(m)' => Gone(m)
        BY <2>1, <2>3 DEF Gone
      <3>2. \A z \in Runs : Reaches(z, m) => Reaches(z, m)'
        BY <2>1, <2>2, <2>3 DEF Reaches, TypeOK, PruneTypeOK
      <3>3. pc'[r] = "list"
        BY <2>1 DEF TypeOK, PruneTypeOK
      <3> QED
        BY <3>1, <3>2, <3>3 DEF ReachInv
    <2> QED
      BY <1>1, <2>5, <2>6, <2>7, <2>8
  <1> QED
    BY <1>2, <1>3

\* A run that lists the directory gets to every log to remove, or somebody else does who has
\* removed one of them.
LEMMA ListKeeps ==
  ASSUME PruneInv, NEW r \in Runs, List(r)
  PROVE  PruneInv'
  <1> USE DEF PruneInv
  <1>1. Excess(r) \in SUBSET Names /\ Excess(r) \in SUBSET logs
    BY DEF Excess, TypeOK, PruneTypeOK
  <1>2. CASE Unpruned(r) /\ orderly' = FALSE /\ UNCHANGED doomed
    <2>1. /\ UNCHANGED <<name, logs>> /\ pc[r] = "list" /\ pc' = [pc EXCEPT ![r] = "startup"]
          /\ warning' = [warning EXCEPT ![r] = "unpruned"]
      BY <1>2 DEF List, Unpruned, Goto
    <2>2. PruneTypeOK'
      BY <1>2, <2>1 DEF TypeOK, PruneTypeOK, Before
    <2>3. TypeOK'
      BY <2>1, <2>2 DEF TypeOK, RecordTypeOK, List
    <2>4. \A q \in Runs : Doomed(q)' = Doomed(q)
      BY <1>2 DEF Doomed
    <2>5. Earlier' = Earlier
      BY <2>1 DEF Earlier
    <2>6. StepInv'
      BY <1>2, <2>1 DEF StepInv, TypeOK, PruneTypeOK
    <2>7. OrderInv' /\ DoomedInv' /\ ReachInv'
      BY <1>2, <2>1, <2>4, <2>5 DEF OrderInv, DoomedInv, ReachInv
    <2> QED
      BY <2>3, <2>6, <2>7
  <1>3. CASE /\ doomed' = [doomed EXCEPT ![r] = Descending(Excess(r))]
             /\ Goto(r, IF Excess(r) = {} THEN "startup" ELSE "prune")
             /\ UNCHANGED <<warning, orderly>>
    <2>1. /\ UNCHANGED <<name, logs>> /\ pc[r] = "list" /\ name[r] # 0 /\ doomed[r] = <<>>
          /\ pc' = [pc EXCEPT ![r] = IF Excess(r) = {} THEN "startup" ELSE "prune"]
      BY <1>3 DEF List, Goto, StepInv
    <2> DEFINE D == Descending(Excess(r))
    <2>2. /\ D \in Seq(Excess(r)) /\ D \in Seq(Names) /\ Len(D) = Cardinality(Excess(r))
          /\ \A x \in Excess(r) : \E i \in 1..Len(D) : D[i] = x
          /\ \A i, j \in 1..Len(D) : i < j => D[i] > D[j]
      BY <1>1, DescendingFacts
    <2> HIDE DEF D
    <2>3. doomed'[r] = D /\ \A q \in Runs \ {r} : doomed'[q] = doomed[q]
      BY <1>3 DEF D, TypeOK, PruneTypeOK
    <2>4. Doomed(r) = {} /\ Doomed(r)' = Excess(r) /\ \A q \in Runs \ {r} : Doomed(q)' = Doomed(q)
      BY <2>1, <2>2, <2>3 DEF Doomed
    <2>5. Excess(r) = {} <=> D = <<>>
      BY <2>2
    <2>6. Earlier' = Earlier
      BY <2>1 DEF Earlier
    <2>7. TypeOK'
      <3>1. PruneTypeOK'
        BY <1>3, <2>1, <2>2 DEF TypeOK, PruneTypeOK, Before, D
      <3>2. RecordTypeOK'
        BY <1>3 DEF TypeOK, RecordTypeOK, List
      <3> QED
        BY <3>1, <3>2 DEF TypeOK
    <2>8. StepInv'
      BY <1>3, <2>1, <2>3, <2>5 DEF StepInv, TypeOK, PruneTypeOK
    <2>9. OrderInv'
      BY <2>2, <2>3 DEF OrderInv
    <2>10. DoomedInv'
      <3>1. ASSUME NEW n \in Excess(r)
            PROVE  /\ n # name[r] /\ Cardinality(Newer(n, logs)) >= Keep
                   /\ \A m \in Earlier : m < n => m \in Excess(r)
        <4>1. n # name[r] /\ Cardinality(Newer(n, logs)) >= Keep
          BY DEF Excess
        <4>2. ASSUME NEW m \in Earlier, m < n PROVE m \in Excess(r)
          <5>1. m \in logs /\ m # name[r] /\ m \in Nat /\ n \in Nat /\ logs \subseteq Nat
            BY <1>1, NamesAreNumbers DEF Earlier, TypeOK, PruneTypeOK
          <5>2. Newer(n, logs) \subseteq Newer(m, logs)
            BY <4>2, <5>1, NewerThanNewer
          <5>3. Cardinality(Newer(m, logs)) >= Keep
            BY <4>1, <5>2, MoreNewer DEF TypeOK, PruneTypeOK
          <5> QED
            BY <5>1, <5>3 DEF Excess
        <4> QED
          BY <4>1, <4>2
      <3> QED
        BY <2>1, <2>4, <2>6, <3>1 DEF DoomedInv
    <2>11. ReachInv'
      <3> SUFFICES ASSUME orderly, NEW m \in Earlier
                   PROVE  /\ Gone(m)' => \E z \in Runs : Reaches(z, m)'
                          /\ Cardinality(Newer(m, logs)) >= Keep =>
                                \E z \in Runs : pc'[z] = "list" \/ Reaches(z, m)'
        BY <1>3, <2>1, <2>6 DEF ReachInv
      <3>1. Gone(m)' => Gone(m)
        BY <1>1, <2>1, <2>4 DEF Gone
      <3>2. \A z \in Runs : Reaches(z, m) => Reaches(z, m)'
        BY <1>1, <2>1, <2>4 DEF Reaches, TypeOK, PruneTypeOK
      <3>3. Gone(m) => \E z \in Runs : Reaches(z, m)
        BY DEF ReachInv
      <3>4. ASSUME ~Gone(m), Cardinality(Newer(m, logs)) >= Keep PROVE Reaches(r, m)'
        <4>1. m \in Excess(r)
          BY <3>4 DEF Excess, Earlier
        <4>2. \A q \in Runs : \A k \in Doomed(q)' : k > m => k \in logs
          BY <1>1, <2>4, <3>4 DEF Gone
        <4>3. pc'[r] = "prune"
          BY <2>1, <4>1 DEF TypeOK, PruneTypeOK
        <4> QED
          BY <1>1, <2>1, <2>4, <4>1, <4>2, <4>3, NamesAreNumbers DEF Reaches
      <3> QED
        BY <3>1, <3>2, <3>3, <3>4
    <2> QED
      BY <2>7, <2>8, <2>9, <2>10, <2>11
  <1> QED
    BY <1>2, <1>3 DEF List

\* A run that removes a log gets to the older ones, unless somebody else is there before;
\* one that finds it gone has been overtaken by such a run.
LEMMA PruneKeeps ==
  ASSUME PruneInv, NEW r \in Runs, Prune(r)
  PROVE  PruneInv'
  <1> USE DEF PruneInv
  <1> DEFINE h == Head(doomed[r])
             t == Tail(doomed[r])
  <1>1. /\ pc[r] = "prune" /\ doomed[r] # <<>> /\ UNCHANGED name
    BY DEF Prune, StepInv
  <1>2. /\ h \in Doomed(r) /\ Doomed(r) \subseteq Names /\ \A n \in Doomed(r) : n <= h
        /\ Len(doomed[r]) = 1 => Doomed(r) = {h}
        /\ Len(doomed[r]) # 1 => t # <<>>
        /\ t \in Seq(Names) /\ {t[i] : i \in 1..Len(t)} = Doomed(r) \ {h}
    BY <1>1, DoomedFacts
  <1>3. \/ /\ h \in logs /\ logs' = logs \ {h} /\ doomed' = [doomed EXCEPT ![r] = t]
           /\ pc' = [pc EXCEPT ![r] = IF Len(doomed[r]) = 1 THEN "startup" ELSE "prune"]
           /\ UNCHANGED <<warning, orderly>>
        \/ /\ orderly' = (orderly /\ h \notin logs) /\ UNCHANGED logs
           /\ doomed' = [doomed EXCEPT ![r] = <<>>] /\ pc' = [pc EXCEPT ![r] = "startup"]
           /\ warning' = [warning EXCEPT ![r] = "unpruned"]
    BY DEF Prune, Unpruned, Goto
  <1>4. /\ \A i \in 1..Len(t) : t[i] = doomed[r][i + 1] /\ i + 1 \in 1..Len(doomed[r])
        /\ Len(doomed[r]) = 1 => t = <<>>
    <2>1. doomed[r] \in Seq(Names) /\ Len(doomed[r]) \in Nat \ {0}
      BY <1>1 DEF TypeOK, PruneTypeOK
    <2>2. \A i \in 1..Len(t) : t[i] = doomed[r][i + 1] /\ i + 1 \in 1..Len(doomed[r])
      BY <2>1
    <2>3. Len(doomed[r]) = 1 => t = <<>>
      <3>1. t \in Seq(Names) /\ Len(t) = Len(doomed[r]) - 1
        BY <2>1
      <3> HIDE DEF t
      <3> QED
        BY <3>1
    <2> QED
      BY <2>2, <2>3
  <1>5. logs \subseteq Nat /\ Doomed(r) \subseteq Nat /\ \A q \in Runs : Doomed(q) \subseteq Nat
    <2>1. \A q \in Runs : \A i \in 1..Len(doomed[q]) : doomed[q][i] \in Names
      BY DEF TypeOK, PruneTypeOK
    <2> QED
      BY <2>1, NamesAreNumbers DEF TypeOK, PruneTypeOK, Doomed
  <1> HIDE DEF h, t
  <1>6. TypeOK'
    <2>1. PruneTypeOK'
      <3>1. logs' \in SUBSET Names /\ orderly' \in BOOLEAN
        BY <1>3 DEF TypeOK, PruneTypeOK
      <3>2. doomed' \in [Runs -> Seq(Names)]
        <4>1. <<>> \in Seq(Names)
          OBVIOUS
        <4> QED
          BY <1>2, <1>3, <4>1 DEF TypeOK, PruneTypeOK
      <3>3. pc' \in [Runs -> Before \union After]
        BY <1>3 DEF TypeOK, PruneTypeOK, Before
      <3> QED
        BY <1>1, <3>1, <3>2, <3>3 DEF TypeOK, PruneTypeOK
    <2>2. RecordTypeOK'
      BY <1>3 DEF TypeOK, RecordTypeOK, Prune
    <2> QED
      BY <2>1, <2>2 DEF TypeOK
  <1>7. OrderInv'
    <2> SUFFICES ASSUME NEW q \in Runs, NEW i \in 1..Len(doomed'[q]), NEW j \in 1..Len(doomed'[q]),
                        i < j
                 PROVE  doomed'[q][i] > doomed'[q][j]
      BY DEF OrderInv
    <2>1. CASE doomed'[q] = doomed[q]
      BY <2>1 DEF OrderInv
    <2>2. CASE doomed'[q] = t /\ q = r
      <3>1. /\ doomed'[q][i] = doomed[r][i + 1] /\ i + 1 \in 1..Len(doomed[r])
            /\ doomed'[q][j] = doomed[r][j + 1] /\ j + 1 \in 1..Len(doomed[r]) /\ i + 1 < j + 1
        BY <1>4, <2>2
      <3> QED
        BY <3>1 DEF OrderInv
    <2> QED
      BY <1>3, <2>1, <2>2 DEF TypeOK, PruneTypeOK
  <1>8. CASE logs' # logs
    <2>1. /\ h \in logs /\ logs' = logs \ {h} /\ doomed' = [doomed EXCEPT ![r] = t]
          /\ pc' = [pc EXCEPT ![r] = IF Len(doomed[r]) = 1 THEN "startup" ELSE "prune"]
          /\ UNCHANGED orderly
      BY <1>3, <1>8
    <2>2. Doomed(r)' = Doomed(r) \ {h} /\ \A q \in Runs \ {r} : Doomed(q)' = Doomed(q)
      BY <1>2, <2>1 DEF Doomed, TypeOK, PruneTypeOK
    <2>3. Earlier' = Earlier \ {h}
      BY <1>1, <2>1 DEF Earlier
    <2>4. StepInv'
      BY <1>1, <1>2, <1>4, <2>1 DEF StepInv, TypeOK, PruneTypeOK
    <2>5. ASSUME NEW n \in Nat, Cardinality(Newer(n, logs)) >= Keep
          PROVE  Cardinality(Newer(n, logs')) >= Keep
      <3>1. CASE n < h
        <4>1. Newer(h, logs) \subseteq Newer(n, logs')
          BY <1>2, <1>5, <2>1, <3>1, NewerThanNewer
        <4>2. Cardinality(Newer(h, logs)) >= Keep
          BY <1>2 DEF DoomedInv
        <4> QED
          BY <1>6, <4>1, <4>2, MoreNewer DEF TypeOK, PruneTypeOK
      <3>2. CASE ~(n < h)
        <4>1. Newer(n, logs) \subseteq Newer(n, logs')
          BY <1>2, <1>5, <2>1, <3>2 DEF Newer
        <4> QED
          BY <1>6, <2>5, <4>1, MoreNewer DEF TypeOK, PruneTypeOK
      <3> QED
        BY <3>1, <3>2
    <2>6. DoomedInv'
      <3> SUFFICES ASSUME NEW q \in Runs, NEW n \in Doomed(q)'
                   PROVE  /\ n # name[q] /\ Cardinality(Newer(n, logs')) >= Keep
                          /\ \A m \in Earlier \ {h} : m < n => m \in Doomed(q)'
        BY <1>1, <2>3 DEF DoomedInv
      <3>1. n \in Doomed(q) /\ n \in Nat
        BY <1>5, <2>2
      <3>2. Cardinality(Newer(n, logs')) >= Keep
        BY <2>5, <3>1 DEF DoomedInv
      <3> QED
        BY <2>2, <3>1, <3>2 DEF DoomedInv
    <2>7. ReachInv'
      <3> SUFFICES ASSUME orderly, NEW m \in Earlier, m # h
                   PROVE  /\ Gone(m)' => \E z \in Runs : Reaches(z, m)'
                          /\ Cardinality(Newer(m, logs')) >= Keep /\ (\E q \in Runs : name[q] # 0) =>
                                \E z \in Runs : pc'[z] = "list" \/ Reaches(z, m)'
        BY <1>1, <2>1, <2>3 DEF ReachInv
      <3>1. m \in logs /\ m \in Nat /\ h \in Nat
        BY <1>2, <1>5 DEF Earlier
      <3>2. CASE h < m
        <4>1. Gone(m)' => Gone(m)
          BY <1>5, <2>1, <2>2, <3>1, <3>2 DEF Gone
        <4>2. \A z \in Runs : Reaches(z, m) => Reaches(z, m)'
          <5> SUFFICES ASSUME NEW z \in Runs, Reaches(z, m) PROVE Reaches(z, m)'
            OBVIOUS
          <5>1. z # r
            BY <1>2, <1>5, <3>1, <3>2 DEF Reaches
          <5>2. pc'[z] = "prune" /\ m \in Doomed(z)'
            BY <2>1, <2>2, <5>1 DEF Reaches, TypeOK, PruneTypeOK
          <5>3. \A n \in Doomed(z)' : n > m =>
                   n \in logs' /\ \A q \in Runs : \A k \in Doomed(q)' : m < k /\ k < n => k \in logs'
            BY <1>5, <2>1, <2>2, <3>1, <3>2 DEF Reaches
          <5> QED
            BY <5>2, <5>3 DEF Reaches
        <4>3. Newer(m, logs') \subseteq Newer(m, logs)
          BY <2>1 DEF Newer
        <4>4. Cardinality(Newer(m, logs')) >= Keep => Cardinality(Newer(m, logs)) >= Keep
          BY <1>6, <4>3, MoreNewer DEF TypeOK, PruneTypeOK
        <4>5. \A z \in Runs : pc[z] = "list" => pc'[z] = "list"
          BY <1>1, <2>1 DEF TypeOK, PruneTypeOK
        <4> QED
          BY <4>1, <4>2, <4>4, <4>5 DEF ReachInv
      <3>3. CASE m < h
        <4> SUFFICES \E z \in Runs : Reaches(z, m)'
          OBVIOUS
        <4>1. m \in Doomed(r)
          BY <1>2, <3>3 DEF DoomedInv
        <4>2. CASE \E q \in Runs : \E k \in Doomed(q) : m < k /\ k < h /\ k \notin logs
          <5>0. PICK q \in Runs : \E k \in Doomed(q) : m < k /\ k < h /\ k \notin logs
            BY <4>2
          <5>1. PICK k \in Doomed(q) : m < k /\ k < h /\ k \notin logs
            BY <5>0
          <5>2. Gone(m)
            BY <1>5, <3>1, <5>1 DEF Gone
          <5>3. PICK z \in Runs : Reaches(z, m)
            BY <5>2 DEF ReachInv
          <5>4. \A n \in Doomed(z) : n > m => n < k
            BY <1>5, <3>1, <5>1, <5>3 DEF Reaches
          <5>5. z # r
            BY <1>2, <1>5, <3>1, <3>3, <5>1, <5>4
          <5>6. pc'[z] = "prune" /\ m \in Doomed(z)' /\ Doomed(z)' = Doomed(z)
            BY <2>1, <2>2, <5>3, <5>5 DEF Reaches, TypeOK, PruneTypeOK
          <5>7. ASSUME NEW n \in Doomed(z), n > m
                PROVE  /\ n \in logs'
                       /\ \A p \in Runs : \A j \in Doomed(p)' : m < j /\ j < n => j \in logs'
            <6>1. n \in logs /\ n < k /\ n < h /\ n \in Nat
              BY <1>5, <3>1, <5>1, <5>3, <5>4, <5>7 DEF Reaches
            <6>2. n \in logs'
              BY <2>1, <6>1, <3>1
            <6>3. ASSUME NEW p \in Runs, NEW j \in Doomed(p)', m < j, j < n PROVE j \in logs'
              <7>1. j \in Doomed(p) /\ j \in Nat
                BY <1>5, <2>2
              <7>2. j \in logs /\ j < h
                BY <3>1, <5>3, <5>7, <6>1, <6>3, <7>1 DEF Reaches
              <7> QED
                BY <2>1, <3>1, <7>1, <7>2
            <6> QED
              BY <6>2, <6>3
          <5>8. Reaches(z, m)'
            BY <5>6, <5>7 DEF Reaches
          <5> QED
            BY <5>8
        <4>3. CASE \A q \in Runs : \A k \in Doomed(q) : m < k /\ k < h => k \in logs
          <5>1. Len(doomed[r]) # 1
            BY <1>2, <3>1, <3>3, <4>1
          <5>2. pc'[r] = "prune" /\ m \in Doomed(r)'
            BY <2>1, <2>2, <3>3, <3>1, <4>1, <5>1 DEF TypeOK, PruneTypeOK
          <5>3. ASSUME NEW n \in Doomed(r)', n > m
                PROVE  /\ n \in logs'
                       /\ \A p \in Runs : \A j \in Doomed(p)' : m < j /\ j < n => j \in logs'
            <6>1. n \in Doomed(r) /\ n < h /\ n \in Nat
              BY <1>2, <1>5, <2>2, <3>1
            <6>2. n \in logs'
              BY <2>1, <3>1, <4>3, <5>3, <6>1
            <6>3. ASSUME NEW p \in Runs, NEW j \in Doomed(p)', m < j, j < n PROVE j \in logs'
              <7>1. j \in Doomed(p) /\ j \in Nat
                BY <1>5, <2>2
              <7>2. j < h
                BY <3>1, <6>1, <6>3, <7>1
              <7>3. j \in logs
                BY <4>3, <6>3, <7>1, <7>2
              <7> QED
                BY <2>1, <3>1, <7>1, <7>2, <7>3
            <6> QED
              BY <6>2, <6>3
          <5>4. Reaches(r, m)'
            BY <5>2, <5>3 DEF Reaches
          <5> QED
            BY <5>4
        <4> QED
          BY <4>2, <4>3
      <3> QED
        BY <3>1, <3>2, <3>3
    <2> QED
      BY <1>6, <1>7, <2>4, <2>6, <2>7
  <1>9. CASE logs' = logs
    <2>1. /\ orderly' = (orderly /\ h \notin logs)
          /\ doomed' = [doomed EXCEPT ![r] = <<>>] /\ pc' = [pc EXCEPT ![r] = "startup"]
      BY <1>3, <1>9
    <2>2. Doomed(r)' = {} /\ \A q \in Runs \ {r} : Doomed(q)' = Doomed(q)
      BY <2>1 DEF Doomed, TypeOK, PruneTypeOK
    <2>3. Earlier' = Earlier
      BY <1>1, <1>9 DEF Earlier
    <2>4. StepInv'
      BY <1>1, <2>1 DEF StepInv, TypeOK, PruneTypeOK
    <2>5. DoomedInv'
      BY <1>1, <1>9, <2>2, <2>3 DEF DoomedInv
    <2>6. ReachInv'
      <3> SUFFICES ASSUME orderly, h \notin logs, NEW m \in Earlier
                   PROVE  /\ Gone(m)' => \E z \in Runs : Reaches(z, m)'
                          /\ Cardinality(Newer(m, logs)) >= Keep /\ (\E q \in Runs : name[q] # 0) =>
                                \E z \in Runs : pc'[z] = "list" \/ Reaches(z, m)'
        BY <1>1, <1>9, <2>1, <2>3 DEF ReachInv
      <3>1. Gone(m)' => Gone(m)
        BY <1>9, <2>2 DEF Gone
      <3>2. \A z \in Runs : Reaches(z, m) => Reaches(z, m)'
        <4> SUFFICES ASSUME NEW z \in Runs, Reaches(z, m) PROVE Reaches(z, m)'
          OBVIOUS
        <4>1. z # r
          <5>1. ASSUME z = r PROVE FALSE
            <6>1. h > m \/ h = m
              BY <1>2, <1>5, <5>1 DEF Reaches
            <6>2. h # m
              BY DEF Earlier
            <6> QED
              BY <1>2, <5>1, <6>1, <6>2 DEF Reaches
          <5> QED
            BY <5>1
        <4>2. pc'[z] = "prune" /\ Doomed(z)' = Doomed(z)
          BY <2>1, <2>2, <4>1 DEF Reaches, TypeOK, PruneTypeOK
        <4>3. \A q \in Runs : \A k \in Doomed(q)' : k \in Doomed(q)
          BY <2>2
        <4> QED
          BY <1>9, <4>2, <4>3 DEF Reaches
      <3>3. \A z \in Runs : pc[z] = "list" => pc'[z] = "list"
        BY <1>1, <2>1 DEF TypeOK, PruneTypeOK
      <3> QED
        BY <3>1, <3>2, <3>3 DEF ReachInv
    <2> QED
      BY <1>6, <1>7, <2>4, <2>5, <2>6
  <1> QED
    BY <1>8, <1>9

-----------------------------------------------------------------------------
(* Lemmas: the records.                                                     *)

\* Log appends the record, or a torn one and is then silent, or nothing; what was written
\* before stays, and what it says stays true.
LEMMA LogKeeps ==
  ASSUME TypeOK, NEW r \in Runs, NEW event \in Events \ {"torn"}, Log(r, event),
         RecordsOf(r), success'[r] \in BOOLEAN, success[r] => success'[r],
         event = "success" /\ name[r] # 0 => success'[r],
         records[r] = <<>> => event = "startup" \/ name[r] = 0 \/ warning[r] = "stopped"
  PROVE  /\ RecordsOf(r)'
         /\ records' \in [Runs -> Seq(Events)]
         /\ warning' \in [Runs -> {"none", "unpruned", "stopped"}]
         /\ \A q \in Runs \ {r} : records'[q] = records[q] /\ warning'[q] = warning[q]
         /\ name[r] # 0 /\ warning'[r] # "stopped" =>
               /\ Len(records'[r]) > 0 /\ records'[r][Len(records'[r])] = event
               /\ warning[r] # "stopped"
  <1>1. /\ records \in [Runs -> Seq(Events)]
        /\ warning \in [Runs -> {"none", "unpruned", "stopped"}]
    BY DEF TypeOK, RecordTypeOK
  <1>2. CASE /\ UNCHANGED records /\ warning'[r] \in {warning[r], "stopped"}
             /\ (name[r] = 0 \/ warning'[r] = "stopped")
             /\ \A q \in Runs \ {r} : warning'[q] = warning[q]
             /\ warning' \in [Runs -> {"none", "unpruned", "stopped"}]
    <2>1. records'[r] = records[r] /\ (warning[r] = "stopped" => warning'[r] = "stopped")
      BY <1>2
    <2>2. RecordsOf(r)'
      <3> SUFFICES ASSUME NEW i \in 1..Len(records[r])
                   PROVE  /\ i = 1 => records[r][i] \in {"startup", "torn"}
                          /\ records[r][i] = "torn" =>
                                i = Len(records[r]) /\ warning'[r] = "stopped"
                          /\ records[r][i] = "success" => success'[r]
        BY <2>1 DEF RecordsOf
      <3> QED
        BY <2>1 DEF RecordsOf
    <2> QED
      BY <1>1, <1>2, <2>2
  <1>3. CASE /\ records' = [records EXCEPT ![r] = Append(@, event)]
             /\ UNCHANGED warning /\ name[r] # 0 /\ warning[r] # "stopped"
    <2> DEFINE old == records[r]
    <2>1. /\ records' \in [Runs -> Seq(Events)] /\ records'[r] = Append(old, event)
          /\ \A q \in Runs \ {r} : records'[q] = records[q]
      BY <1>1, <1>3
    <2>2. /\ old \in Seq(Events) /\ Len(old) \in Nat /\ Len(records'[r]) = Len(old) + 1
          /\ records'[r][Len(old) + 1] = event
          /\ \A i \in 1..Len(old) : records'[r][i] = old[i]
      BY <1>1, <2>1
    <2>3. \A i \in 1..Len(old) : old[i] # "torn"
      BY <1>3 DEF RecordsOf
    <2>4. RecordsOf(r)'
      <3> SUFFICES ASSUME NEW i \in 1..Len(records'[r])
                   PROVE  /\ i = 1 => records'[r][i] \in {"startup", "torn"}
                          /\ records'[r][i] = "torn" =>
                                i = Len(records'[r]) /\ warning'[r] = "stopped"
                          /\ records'[r][i] = "success" => success'[r]
        BY DEF RecordsOf
      <3>1. CASE i \in 1..Len(old)
        BY <2>2, <2>3, <3>1 DEF RecordsOf
      <3>2. CASE i = Len(old) + 1
        <4>1. i = 1 => old = <<>>
          BY <2>2, <3>2
        <4> QED
          BY <1>3, <2>2, <3>2, <4>1
      <3> QED
        BY <2>2, <3>1, <3>2
    <2> QED
      BY <1>1, <1>3, <2>1, <2>2, <2>4
  <1>4. CASE /\ records' = [records EXCEPT ![r] = Append(@, "torn")]
             /\ warning' = [warning EXCEPT ![r] = "stopped"] /\ warning[r] # "stopped"
    <2> DEFINE old == records[r]
    <2>1. /\ records' \in [Runs -> Seq(Events)] /\ records'[r] = Append(old, "torn")
          /\ \A q \in Runs \ {r} : records'[q] = records[q] /\ warning'[q] = warning[q]
          /\ warning'[r] = "stopped" /\ warning' \in [Runs -> {"none", "unpruned", "stopped"}]
      BY <1>1, <1>4 DEF Events
    <2>2. /\ old \in Seq(Events) /\ Len(old) \in Nat /\ Len(records'[r]) = Len(old) + 1
          /\ records'[r][Len(old) + 1] = "torn"
          /\ \A i \in 1..Len(old) : records'[r][i] = old[i]
      BY <1>1, <2>1
    <2>3. \A i \in 1..Len(old) : old[i] # "torn"
      BY <1>4 DEF RecordsOf
    <2>4. RecordsOf(r)'
      <3> SUFFICES ASSUME NEW i \in 1..Len(records'[r])
                   PROVE  /\ i = 1 => records'[r][i] \in {"startup", "torn"}
                          /\ records'[r][i] = "torn" =>
                                i = Len(records'[r]) /\ warning'[r] = "stopped"
                          /\ records'[r][i] = "success" => success'[r]
        BY DEF RecordsOf
      <3>1. CASE i \in 1..Len(old)
        BY <2>2, <2>3, <3>1 DEF RecordsOf
      <3>2. CASE i = Len(old) + 1
        BY <2>1, <2>2, <3>2
      <3> QED
        BY <2>2, <3>1, <3>2
    <2> QED
      BY <2>1, <2>4
  <1> QED
    BY <1>1, <1>2, <1>3, <1>4 DEF Log

\* A step that leaves records, warnings and successes alone keeps what the records say.
LEMMA RecordsUnchanged ==
  ASSUME NEW q \in Runs, RecordsOf(q), records'[q] = records[q], success'[q] = success[q],
         warning'[q] = warning[q] \/ (warning[q] # "stopped" /\ records[q] = <<>>)
  PROVE  RecordsOf(q)'
  BY DEF RecordsOf

\* The steps up to the startup change no record.
LEMMA EarlyInv ==
  ASSUME IInv, NEW r \in Runs, Parse(r) \/ Create(r) \/ List(r) \/ Prune(r) \/ Kill(r), TypeOK'
  PROVE  RecordInv' /\ ExitInv'
  <1> USE DEF IInv, TypeOK
  <1>1. /\ UNCHANGED <<records, route, success>>
        /\ \A q \in Runs \ {r} : /\ pc'[q] = pc[q] /\ exit'[q] = exit[q] /\ name'[q] = name[q]
                                 /\ warning'[q] = warning[q]
    BY DEF Parse, Create, List, Prune, Kill, Unpruned, Exits, Goto, PruneTypeOK, RecordTypeOK
  <1>2. CASE Kill(r)
    <2>1. pc'[r] = "ended" /\ exit'[r] = "killed" /\ UNCHANGED <<name, warning>>
      BY <1>2 DEF Kill, Exits, Goto, PruneTypeOK, RecordTypeOK
    <2> QED
      BY <1>1, <2>1 DEF RecordInv, RecordsOf, ExitInv, Before, After
  <1>3. CASE Parse(r)
    <2>1. /\ pc[r] = "parse" /\ name'[r] = 0 /\ UNCHANGED <<name, warning>>
          /\ \/ pc'[r] = "create" /\ exit'[r] = exit[r]
             \/ pc'[r] = "ended" /\ exit'[r] \in {"0", "2"}
      BY <1>3 DEF Parse, Exits, Goto, PruneTypeOK, RecordTypeOK, StepInv
    <2> QED
      BY <1>1, <2>1 DEF RecordInv, RecordsOf, ExitInv, Before, After
  <1>4. CASE Create(r) \/ List(r) \/ Prune(r)
    <2>1. /\ pc[r] \in {"create", "list", "prune"} /\ pc'[r] \in {"list", "prune", "startup"}
          /\ exit'[r] = exit[r]
      BY <1>4 DEF Create, List, Prune, Unpruned, Goto, PruneTypeOK
    <2>2. records[r] = <<>>
      BY <2>1 DEF RecordInv, Before
    <2> QED
      BY <1>1, <2>1, <2>2 DEF RecordInv, RecordsOf, ExitInv, Before, After
  <1> QED
    BY <1>2, <1>3, <1>4

\* The steps from the startup on leave the directory alone.
LEMMA LateKeeps ==
  ASSUME IInv, TypeOK', NEW r \in Runs,
         \/ Parse(r) \/ Startup(r) \/ Authorize(r) \/ Operate(r) \/ CheckTTY(r)
         \/ Interact(r) \/ InterfaceEnds(r) \/ Kill(r)
  PROVE  PruneInv'
  <1> USE DEF IInv, TypeOK, PruneTypeOK
  <1>1. /\ UNCHANGED <<name, logs, doomed>> /\ \A q \in Runs \ {r} : pc'[q] = pc[q]
        /\ orderly' => orderly
    BY DEF Parse, Startup, Authorize, Operate, CheckTTY, Interact, InterfaceEnds, Kill, Exits, Goto
  <1>2. CASE Kill(r)
    <2>1. pc'[r] = "ended" /\ (pc[r] \in {"list", "prune"} => ~orderly')
      BY <1>2 DEF Kill, Exits, Goto
    <2>2. CASE pc[r] # "list"
      BY <1>1, <2>1, <2>2, AsideKeeps DEF PruneInv
    <2>3. CASE pc[r] = "list"
      <3>1. ~orderly' /\ \A q \in Runs : Doomed(q)' = Doomed(q)
        BY <1>1, <2>1, <2>3 DEF Doomed
      <3>2. Earlier' = Earlier
        BY <1>1 DEF Earlier
      <3>3. StepInv'
        BY <1>1, <2>1, <3>1 DEF StepInv
      <3>4. OrderInv' /\ DoomedInv' /\ ReachInv'
        BY <1>1, <3>1, <3>2 DEF OrderInv, DoomedInv, ReachInv
      <3> QED
        BY <3>3, <3>4 DEF PruneInv
    <2> QED
      BY <2>2, <2>3
  <1>3. CASE ~Kill(r)
    <2>1. /\ pc[r] \notin {"list", "prune"} /\ pc'[r] \notin {"list", "prune"}
          /\ pc'[r] \in {"parse", "create"} => pc[r] \in {"parse", "create"}
      BY <1>3 DEF Parse, Startup, Authorize, Operate, CheckTTY, Interact, InterfaceEnds, Exits, Goto
    <2> QED
      BY <1>1, <2>1, AsideKeeps DEF PruneInv
  <1> QED
    BY <1>2, <1>3

\* A step that logs, from the startup on.
LEMMA LoggingKeeps ==
  ASSUME IInv, NEW r \in Runs, NEW event \in Events \ {"torn"}, Log(r, event),
         pc[r] \in (After \ {"ended"}) \union {"startup"}, pc'[r] \in After,
         pc[r] = "startup" => event = "startup",
         \A q \in Runs \ {r} : pc'[q] = pc[q], UNCHANGED name,
         \/ UNCHANGED success /\ event # "success"
         \/ success' = [success EXCEPT ![r] = TRUE]
  PROVE  /\ records' \in [Runs -> Seq(Events)] /\ success' \in [Runs -> BOOLEAN]
         /\ warning' \in [Runs -> {"none", "unpruned", "stopped"}]
         /\ \A q \in Runs \ {r} : records'[q] = records[q] /\ warning'[q] = warning[q]
         /\ name[r] # 0 /\ warning'[r] # "stopped" =>
               Len(records'[r]) > 0 /\ records'[r][Len(records'[r])] = event
         /\ RecordInv'
  <1> USE DEF IInv, TypeOK
  <1>1. /\ success' \in [Runs -> BOOLEAN] /\ success'[r] \in BOOLEAN
        /\ success[r] => success'[r] /\ (event = "success" => success'[r])
        /\ \A q \in Runs \ {r} : success'[q] = success[q]
    BY DEF RecordTypeOK
  <1>2. records[r] = <<>> => event = "startup" \/ name[r] = 0 \/ warning[r] = "stopped"
    BY DEF RecordInv
  <1>3. RecordsOf(r)
    BY DEF RecordInv
  <1>4. /\ RecordsOf(r)'
        /\ records' \in [Runs -> Seq(Events)]
        /\ warning' \in [Runs -> {"none", "unpruned", "stopped"}]
        /\ \A q \in Runs \ {r} : records'[q] = records[q] /\ warning'[q] = warning[q]
        /\ name[r] # 0 /\ warning'[r] # "stopped" =>
              /\ Len(records'[r]) > 0 /\ records'[r][Len(records'[r])] = event
              /\ warning[r] # "stopped"
    BY <1>1, <1>2, <1>3, LogKeeps
  <1>5. \A q \in Runs \ {r} : RecordsOf(q)'
    <2> SUFFICES ASSUME NEW q \in Runs \ {r} PROVE RecordsOf(q)'
      OBVIOUS
    <2>1. RecordsOf(q)
      BY DEF RecordInv
    <2> QED
      BY <1>1, <1>4, <2>1, RecordsUnchanged
  <1>6. RecordInv'
    <2> SUFFICES ASSUME NEW q \in Runs
                 PROVE  /\ RecordsOf(q)'
                        /\ pc'[q] \in Before => records'[q] = <<>>
                        /\ pc'[q] \in After \ {"ended"} /\ name'[q] # 0 /\ warning'[q] # "stopped"
                             => Len(records'[q]) > 0
      BY DEF RecordInv
    <2>1. CASE q = r
      BY <1>4, <2>1 DEF Before, After
    <2>2. CASE q # r
      BY <1>4, <1>5, <2>2 DEF RecordInv
    <2> QED
      BY <2>1, <2>2
  <1> QED
    BY <1>1, <1>4, <1>6

\* The startup is recorded, or the log falls silent.
LEMMA StartupInv ==
  ASSUME IInv, NEW r \in Runs, Startup(r)
  PROVE  IInv'
  <1> USE DEF IInv, TypeOK
  <1>1. /\ UNCHANGED <<route, name, logs, doomed>> /\ pc[r] = "startup"
        /\ UNCHANGED orderly
    BY DEF Startup
  <1>2. CASE /\ Log(r, "startup") /\ UNCHANGED success
             /\ pc' = [pc EXCEPT ![r] = IF route[r] \in Commands THEN "authorize"
                                            ELSE "terminal?"]
             /\ UNCHANGED exit
    <2>1. /\ pc' \in [Runs -> Before \union After] /\ pc'[r] \in After
          /\ exit' \in [Runs -> {"running", "killed", "0", "1", "2", "75"}]
          /\ \A q \in Runs \ {r} : pc'[q] = pc[q] /\ exit'[q] = exit[q]
      BY <1>1, <1>2 DEF PruneTypeOK, RecordTypeOK, Before, After
    <2>2. "startup" \in Events \ {"torn"} /\ pc[r] \in (After \ {"ended"}) \union {"startup"}
      BY <1>1 DEF Events, After
    <2>3. /\ records' \in [Runs -> Seq(Events)] /\ success' \in [Runs -> BOOLEAN]
          /\ warning' \in [Runs -> {"none", "unpruned", "stopped"}]
          /\ \A q \in Runs \ {r} : records'[q] = records[q] /\ warning'[q] = warning[q]
          /\ name[r] # 0 /\ warning'[r] # "stopped" =>
                Len(records'[r]) > 0 /\ records'[r][Len(records'[r])] = "startup"
          /\ RecordInv'
      BY <1>1, <1>2, <2>1, <2>2, LoggingKeeps
    <2>4. TypeOK'
      BY <1>1, <2>1, <2>3 DEF PruneTypeOK, RecordTypeOK
    <2>5. ExitInv'
      <3>1. pc[r] # "ended" /\ exit[r] = "running"
        BY <1>1 DEF ExitInv
      <3>2. \A q \in Runs \ {r} : /\ route'[q] = route[q] /\ name'[q] = name[q]
                                  /\ pc'[q] = pc[q] /\ exit'[q] = exit[q]
                                  /\ records'[q] = records[q] /\ warning'[q] = warning[q]
        BY <1>1, <2>1, <2>3
      <3>3. /\ exit'[r] = "running" <=> pc'[r] # "ended"
            /\ pc'[r] \in {"terminal?", "interface"} => route'[r] \notin Commands
            /\ route'[r] \in Commands /\ exit'[r] \in {"0", "1", "75"} /\ name'[r] # 0
                  /\ warning'[r] # "stopped"
               => /\ Len(records'[r]) > 0
                  /\ records'[r][Len(records'[r])] =
                         IF exit'[r] = "0" THEN "success" ELSE "failure"
        BY <1>1, <1>2, <2>1, <2>3, <3>1 DEF ExitInv, PruneTypeOK, RecordTypeOK
      <3> QED
        BY <3>2, <3>3 DEF ExitInv
    <2> QED
      BY <2>3, <2>4, <2>5, LateKeeps DEF PruneInv
  <1> QED
    BY <1>2 DEF Startup, Exits, Goto

\* The login is recorded, or its failure ends the run.
LEMMA AuthorizeInv ==
  ASSUME IInv, NEW r \in Runs, Authorize(r)
  PROVE  IInv'
  <1> USE DEF IInv, TypeOK
  <1>1. /\ UNCHANGED <<route, name, logs, doomed>> /\ pc[r] = "authorize"
        /\ UNCHANGED orderly
    BY DEF Authorize
  <1>2. CASE /\ Log(r, "docker-auth") /\ UNCHANGED success
             /\ pc' = [pc EXCEPT ![r] = "operate"]
             /\ UNCHANGED exit
    <2>1. /\ pc' \in [Runs -> Before \union After] /\ pc'[r] \in After
          /\ exit' \in [Runs -> {"running", "killed", "0", "1", "2", "75"}]
          /\ \A q \in Runs \ {r} : pc'[q] = pc[q] /\ exit'[q] = exit[q]
      BY <1>1, <1>2 DEF PruneTypeOK, RecordTypeOK, Before, After
    <2>2. "docker-auth" \in Events \ {"torn"} /\ pc[r] \in (After \ {"ended"}) \union {"startup"}
      BY <1>1 DEF Events, After
    <2>3. /\ records' \in [Runs -> Seq(Events)] /\ success' \in [Runs -> BOOLEAN]
          /\ warning' \in [Runs -> {"none", "unpruned", "stopped"}]
          /\ \A q \in Runs \ {r} : records'[q] = records[q] /\ warning'[q] = warning[q]
          /\ name[r] # 0 /\ warning'[r] # "stopped" =>
                Len(records'[r]) > 0 /\ records'[r][Len(records'[r])] = "docker-auth"
          /\ RecordInv'
      BY <1>1, <1>2, <2>1, <2>2, LoggingKeeps
    <2>4. TypeOK'
      BY <1>1, <2>1, <2>3 DEF PruneTypeOK, RecordTypeOK
    <2>5. ExitInv'
      <3>1. pc[r] # "ended" /\ exit[r] = "running"
        BY <1>1 DEF ExitInv
      <3>2. \A q \in Runs \ {r} : /\ route'[q] = route[q] /\ name'[q] = name[q]
                                  /\ pc'[q] = pc[q] /\ exit'[q] = exit[q]
                                  /\ records'[q] = records[q] /\ warning'[q] = warning[q]
        BY <1>1, <2>1, <2>3
      <3>3. /\ exit'[r] = "running" <=> pc'[r] # "ended"
            /\ pc'[r] \in {"terminal?", "interface"} => route'[r] \notin Commands
            /\ route'[r] \in Commands /\ exit'[r] \in {"0", "1", "75"} /\ name'[r] # 0
                  /\ warning'[r] # "stopped"
               => /\ Len(records'[r]) > 0
                  /\ records'[r][Len(records'[r])] =
                         IF exit'[r] = "0" THEN "success" ELSE "failure"
        BY <1>1, <1>2, <2>1, <2>3, <3>1 DEF ExitInv, PruneTypeOK, RecordTypeOK
      <3> QED
        BY <3>2, <3>3 DEF ExitInv
    <2> QED
      BY <2>3, <2>4, <2>5, LateKeeps DEF PruneInv
  <1>3. CASE /\ Log(r, "failure") /\ UNCHANGED success
             /\ pc' = [pc EXCEPT ![r] = "ended"]
             /\ exit' = [exit EXCEPT ![r] = "1"]
    <2>1. /\ pc' \in [Runs -> Before \union After] /\ pc'[r] \in After
          /\ exit' \in [Runs -> {"running", "killed", "0", "1", "2", "75"}]
          /\ \A q \in Runs \ {r} : pc'[q] = pc[q] /\ exit'[q] = exit[q]
      BY <1>1, <1>3 DEF PruneTypeOK, RecordTypeOK, Before, After
    <2>2. "failure" \in Events \ {"torn"} /\ pc[r] \in (After \ {"ended"}) \union {"startup"}
      BY <1>1 DEF Events, After
    <2>3. /\ records' \in [Runs -> Seq(Events)] /\ success' \in [Runs -> BOOLEAN]
          /\ warning' \in [Runs -> {"none", "unpruned", "stopped"}]
          /\ \A q \in Runs \ {r} : records'[q] = records[q] /\ warning'[q] = warning[q]
          /\ name[r] # 0 /\ warning'[r] # "stopped" =>
                Len(records'[r]) > 0 /\ records'[r][Len(records'[r])] = "failure"
          /\ RecordInv'
      BY <1>1, <1>3, <2>1, <2>2, LoggingKeeps
    <2>4. TypeOK'
      BY <1>1, <2>1, <2>3 DEF PruneTypeOK, RecordTypeOK
    <2>5. ExitInv'
      <3>1. pc[r] # "ended" /\ exit[r] = "running"
        BY <1>1 DEF ExitInv
      <3>2. \A q \in Runs \ {r} : /\ route'[q] = route[q] /\ name'[q] = name[q]
                                  /\ pc'[q] = pc[q] /\ exit'[q] = exit[q]
                                  /\ records'[q] = records[q] /\ warning'[q] = warning[q]
        BY <1>1, <2>1, <2>3
      <3>3. /\ exit'[r] = "running" <=> pc'[r] # "ended"
            /\ pc'[r] \in {"terminal?", "interface"} => route'[r] \notin Commands
            /\ route'[r] \in Commands /\ exit'[r] \in {"0", "1", "75"} /\ name'[r] # 0
                  /\ warning'[r] # "stopped"
               => /\ Len(records'[r]) > 0
                  /\ records'[r][Len(records'[r])] =
                         IF exit'[r] = "0" THEN "success" ELSE "failure"
        BY <1>1, <1>3, <2>1, <2>3, <3>1 DEF ExitInv, PruneTypeOK, RecordTypeOK
      <3> QED
        BY <3>2, <3>3 DEF ExitInv
    <2> QED
      BY <2>3, <2>4, <2>5, LateKeeps DEF PruneInv
  <1> QED
    BY <1>2, <1>3 DEF Authorize, Exits, Goto

\* The verdict is the last record.
LEMMA OperateInv ==
  ASSUME IInv, NEW r \in Runs, Operate(r)
  PROVE  IInv'
  <1> USE DEF IInv, TypeOK
  <1>1. /\ UNCHANGED <<route, name, logs, doomed>> /\ pc[r] = "operate"
        /\ UNCHANGED orderly
    BY DEF Operate
  <1>2. CASE /\ Log(r, "success") /\ success' = [success EXCEPT ![r] = TRUE]
             /\ pc' = [pc EXCEPT ![r] = "ended"]
             /\ exit' = [exit EXCEPT ![r] = "0"]
    <2>1. /\ pc' \in [Runs -> Before \union After] /\ pc'[r] \in After
          /\ exit' \in [Runs -> {"running", "killed", "0", "1", "2", "75"}]
          /\ \A q \in Runs \ {r} : pc'[q] = pc[q] /\ exit'[q] = exit[q]
      BY <1>1, <1>2 DEF PruneTypeOK, RecordTypeOK, Before, After
    <2>2. "success" \in Events \ {"torn"} /\ pc[r] \in (After \ {"ended"}) \union {"startup"}
      BY <1>1 DEF Events, After
    <2>3. /\ records' \in [Runs -> Seq(Events)] /\ success' \in [Runs -> BOOLEAN]
          /\ warning' \in [Runs -> {"none", "unpruned", "stopped"}]
          /\ \A q \in Runs \ {r} : records'[q] = records[q] /\ warning'[q] = warning[q]
          /\ name[r] # 0 /\ warning'[r] # "stopped" =>
                Len(records'[r]) > 0 /\ records'[r][Len(records'[r])] = "success"
          /\ RecordInv'
      BY <1>1, <1>2, <2>1, <2>2, LoggingKeeps
    <2>4. TypeOK'
      BY <1>1, <2>1, <2>3 DEF PruneTypeOK, RecordTypeOK
    <2>5. ExitInv'
      <3>1. pc[r] # "ended" /\ exit[r] = "running"
        BY <1>1 DEF ExitInv
      <3>2. \A q \in Runs \ {r} : /\ route'[q] = route[q] /\ name'[q] = name[q]
                                  /\ pc'[q] = pc[q] /\ exit'[q] = exit[q]
                                  /\ records'[q] = records[q] /\ warning'[q] = warning[q]
        BY <1>1, <2>1, <2>3
      <3>3. /\ exit'[r] = "running" <=> pc'[r] # "ended"
            /\ pc'[r] \in {"terminal?", "interface"} => route'[r] \notin Commands
            /\ route'[r] \in Commands /\ exit'[r] \in {"0", "1", "75"} /\ name'[r] # 0
                  /\ warning'[r] # "stopped"
               => /\ Len(records'[r]) > 0
                  /\ records'[r][Len(records'[r])] =
                         IF exit'[r] = "0" THEN "success" ELSE "failure"
        BY <1>1, <1>2, <2>1, <2>3, <3>1 DEF ExitInv, PruneTypeOK, RecordTypeOK
      <3> QED
        BY <3>2, <3>3 DEF ExitInv
    <2> QED
      BY <2>3, <2>4, <2>5, LateKeeps DEF PruneInv
  <1>3. CASE /\ Log(r, "failure") /\ UNCHANGED success
             /\ pc' = [pc EXCEPT ![r] = "ended"]
             /\ exit' = [exit EXCEPT ![r] = "1"]
    <2>1. /\ pc' \in [Runs -> Before \union After] /\ pc'[r] \in After
          /\ exit' \in [Runs -> {"running", "killed", "0", "1", "2", "75"}]
          /\ \A q \in Runs \ {r} : pc'[q] = pc[q] /\ exit'[q] = exit[q]
      BY <1>1, <1>3 DEF PruneTypeOK, RecordTypeOK, Before, After
    <2>2. "failure" \in Events \ {"torn"} /\ pc[r] \in (After \ {"ended"}) \union {"startup"}
      BY <1>1 DEF Events, After
    <2>3. /\ records' \in [Runs -> Seq(Events)] /\ success' \in [Runs -> BOOLEAN]
          /\ warning' \in [Runs -> {"none", "unpruned", "stopped"}]
          /\ \A q \in Runs \ {r} : records'[q] = records[q] /\ warning'[q] = warning[q]
          /\ name[r] # 0 /\ warning'[r] # "stopped" =>
                Len(records'[r]) > 0 /\ records'[r][Len(records'[r])] = "failure"
          /\ RecordInv'
      BY <1>1, <1>3, <2>1, <2>2, LoggingKeeps
    <2>4. TypeOK'
      BY <1>1, <2>1, <2>3 DEF PruneTypeOK, RecordTypeOK
    <2>5. ExitInv'
      <3>1. pc[r] # "ended" /\ exit[r] = "running"
        BY <1>1 DEF ExitInv
      <3>2. \A q \in Runs \ {r} : /\ route'[q] = route[q] /\ name'[q] = name[q]
                                  /\ pc'[q] = pc[q] /\ exit'[q] = exit[q]
                                  /\ records'[q] = records[q] /\ warning'[q] = warning[q]
        BY <1>1, <2>1, <2>3
      <3>3. /\ exit'[r] = "running" <=> pc'[r] # "ended"
            /\ pc'[r] \in {"terminal?", "interface"} => route'[r] \notin Commands
            /\ route'[r] \in Commands /\ exit'[r] \in {"0", "1", "75"} /\ name'[r] # 0
                  /\ warning'[r] # "stopped"
               => /\ Len(records'[r]) > 0
                  /\ records'[r][Len(records'[r])] =
                         IF exit'[r] = "0" THEN "success" ELSE "failure"
        BY <1>1, <1>3, <2>1, <2>3, <3>1 DEF ExitInv, PruneTypeOK, RecordTypeOK
      <3> QED
        BY <3>2, <3>3 DEF ExitInv
    <2> QED
      BY <2>3, <2>4, <2>5, LateKeeps DEF PruneInv
  <1>4. CASE /\ Log(r, "failure") /\ UNCHANGED success
             /\ pc' = [pc EXCEPT ![r] = "ended"]
             /\ exit' = [exit EXCEPT ![r] = "75"]
    <2>1. /\ pc' \in [Runs -> Before \union After] /\ pc'[r] \in After
          /\ exit' \in [Runs -> {"running", "killed", "0", "1", "2", "75"}]
          /\ \A q \in Runs \ {r} : pc'[q] = pc[q] /\ exit'[q] = exit[q]
      BY <1>1, <1>4 DEF PruneTypeOK, RecordTypeOK, Before, After
    <2>2. "failure" \in Events \ {"torn"} /\ pc[r] \in (After \ {"ended"}) \union {"startup"}
      BY <1>1 DEF Events, After
    <2>3. /\ records' \in [Runs -> Seq(Events)] /\ success' \in [Runs -> BOOLEAN]
          /\ warning' \in [Runs -> {"none", "unpruned", "stopped"}]
          /\ \A q \in Runs \ {r} : records'[q] = records[q] /\ warning'[q] = warning[q]
          /\ name[r] # 0 /\ warning'[r] # "stopped" =>
                Len(records'[r]) > 0 /\ records'[r][Len(records'[r])] = "failure"
          /\ RecordInv'
      BY <1>1, <1>4, <2>1, <2>2, LoggingKeeps
    <2>4. TypeOK'
      BY <1>1, <2>1, <2>3 DEF PruneTypeOK, RecordTypeOK
    <2>5. ExitInv'
      <3>1. pc[r] # "ended" /\ exit[r] = "running"
        BY <1>1 DEF ExitInv
      <3>2. \A q \in Runs \ {r} : /\ route'[q] = route[q] /\ name'[q] = name[q]
                                  /\ pc'[q] = pc[q] /\ exit'[q] = exit[q]
                                  /\ records'[q] = records[q] /\ warning'[q] = warning[q]
        BY <1>1, <2>1, <2>3
      <3>3. /\ exit'[r] = "running" <=> pc'[r] # "ended"
            /\ pc'[r] \in {"terminal?", "interface"} => route'[r] \notin Commands
            /\ route'[r] \in Commands /\ exit'[r] \in {"0", "1", "75"} /\ name'[r] # 0
                  /\ warning'[r] # "stopped"
               => /\ Len(records'[r]) > 0
                  /\ records'[r][Len(records'[r])] =
                         IF exit'[r] = "0" THEN "success" ELSE "failure"
        BY <1>1, <1>4, <2>1, <2>3, <3>1 DEF ExitInv, PruneTypeOK, RecordTypeOK
      <3> QED
        BY <3>2, <3>3 DEF ExitInv
    <2> QED
      BY <2>3, <2>4, <2>5, LateKeeps DEF PruneInv
  <1> QED
    BY <1>2, <1>3, <1>4 DEF Operate, Exits, Goto

\* The user interface opens, or there is no terminal.
LEMMA CheckTTYInv ==
  ASSUME IInv, NEW r \in Runs, CheckTTY(r)
  PROVE  IInv'
  <1> USE DEF IInv, TypeOK
  <1>1. /\ UNCHANGED <<route, name, logs, doomed>> /\ pc[r] = "terminal?"
        /\ UNCHANGED orderly
    BY DEF CheckTTY
  <1>2. CASE /\ UNCHANGED <<records, warning, success>>
             /\ (\/ pc' = [pc EXCEPT ![r] = "interface"] /\ UNCHANGED exit
                 \/ pc' = [pc EXCEPT ![r] = "ended"] /\ exit' = [exit EXCEPT ![r] = "2"])
    <2>1. /\ pc' \in [Runs -> Before \union After] /\ pc'[r] \in After
          /\ exit' \in [Runs -> {"running", "killed", "0", "1", "2", "75"}]
          /\ \A q \in Runs \ {r} : pc'[q] = pc[q] /\ exit'[q] = exit[q]
      BY <1>1, <1>2 DEF PruneTypeOK, RecordTypeOK, Before, After
    <2>2. TypeOK'
      BY <1>1, <1>2, <2>1 DEF PruneTypeOK, RecordTypeOK
    <2>3. \A q \in Runs : RecordsOf(q)'
      BY <1>1, <1>2 DEF RecordInv, RecordsOf
    <2>4. RecordInv'
      BY <1>1, <1>2, <2>1, <2>3 DEF RecordInv, Before, After
    <2>5. ExitInv'
      BY <1>1, <1>2, <2>1 DEF ExitInv, PruneTypeOK, RecordTypeOK
    <2> QED
      BY <2>2, <2>4, <2>5, LateKeeps DEF PruneInv
  <1> QED
    BY <1>2 DEF CheckTTY, Exits, Goto

\* The user interface records what happens in it.
LEMMA InteractInv ==
  ASSUME IInv, NEW r \in Runs, Interact(r)
  PROVE  IInv'
  <1> USE DEF IInv, TypeOK
  <1>1. /\ UNCHANGED <<route, name, logs, doomed>> /\ pc[r] = "interface"
        /\ UNCHANGED orderly
    BY DEF Interact
  <1>2. CASE /\ Log(r, "transition") /\ UNCHANGED success
             /\ UNCHANGED pc
             /\ UNCHANGED exit
    <2>1. /\ pc' \in [Runs -> Before \union After] /\ pc'[r] \in After
          /\ exit' \in [Runs -> {"running", "killed", "0", "1", "2", "75"}]
          /\ \A q \in Runs \ {r} : pc'[q] = pc[q] /\ exit'[q] = exit[q]
      BY <1>1, <1>2 DEF PruneTypeOK, RecordTypeOK, Before, After
    <2>2. "transition" \in Events \ {"torn"} /\ pc[r] \in (After \ {"ended"}) \union {"startup"}
      BY <1>1 DEF Events, After
    <2>3. /\ records' \in [Runs -> Seq(Events)] /\ success' \in [Runs -> BOOLEAN]
          /\ warning' \in [Runs -> {"none", "unpruned", "stopped"}]
          /\ \A q \in Runs \ {r} : records'[q] = records[q] /\ warning'[q] = warning[q]
          /\ name[r] # 0 /\ warning'[r] # "stopped" =>
                Len(records'[r]) > 0 /\ records'[r][Len(records'[r])] = "transition"
          /\ RecordInv'
      BY <1>1, <1>2, <2>1, <2>2, LoggingKeeps
    <2>4. TypeOK'
      BY <1>1, <2>1, <2>3 DEF PruneTypeOK, RecordTypeOK
    <2>5. ExitInv'
      <3>1. pc[r] # "ended" /\ exit[r] = "running"
        BY <1>1 DEF ExitInv
      <3>2. \A q \in Runs \ {r} : /\ route'[q] = route[q] /\ name'[q] = name[q]
                                  /\ pc'[q] = pc[q] /\ exit'[q] = exit[q]
                                  /\ records'[q] = records[q] /\ warning'[q] = warning[q]
        BY <1>1, <2>1, <2>3
      <3>3. /\ exit'[r] = "running" <=> pc'[r] # "ended"
            /\ pc'[r] \in {"terminal?", "interface"} => route'[r] \notin Commands
            /\ route'[r] \in Commands /\ exit'[r] \in {"0", "1", "75"} /\ name'[r] # 0
                  /\ warning'[r] # "stopped"
               => /\ Len(records'[r]) > 0
                  /\ records'[r][Len(records'[r])] =
                         IF exit'[r] = "0" THEN "success" ELSE "failure"
        BY <1>1, <1>2, <2>1, <2>3, <3>1 DEF ExitInv, PruneTypeOK, RecordTypeOK
      <3> QED
        BY <3>2, <3>3 DEF ExitInv
    <2> QED
      BY <2>3, <2>4, <2>5, LateKeeps DEF PruneInv
  <1>3. CASE /\ Log(r, "success") /\ success' = [success EXCEPT ![r] = TRUE]
             /\ UNCHANGED pc
             /\ UNCHANGED exit
    <2>1. /\ pc' \in [Runs -> Before \union After] /\ pc'[r] \in After
          /\ exit' \in [Runs -> {"running", "killed", "0", "1", "2", "75"}]
          /\ \A q \in Runs \ {r} : pc'[q] = pc[q] /\ exit'[q] = exit[q]
      BY <1>1, <1>3 DEF PruneTypeOK, RecordTypeOK, Before, After
    <2>2. "success" \in Events \ {"torn"} /\ pc[r] \in (After \ {"ended"}) \union {"startup"}
      BY <1>1 DEF Events, After
    <2>3. /\ records' \in [Runs -> Seq(Events)] /\ success' \in [Runs -> BOOLEAN]
          /\ warning' \in [Runs -> {"none", "unpruned", "stopped"}]
          /\ \A q \in Runs \ {r} : records'[q] = records[q] /\ warning'[q] = warning[q]
          /\ name[r] # 0 /\ warning'[r] # "stopped" =>
                Len(records'[r]) > 0 /\ records'[r][Len(records'[r])] = "success"
          /\ RecordInv'
      BY <1>1, <1>3, <2>1, <2>2, LoggingKeeps
    <2>4. TypeOK'
      BY <1>1, <2>1, <2>3 DEF PruneTypeOK, RecordTypeOK
    <2>5. ExitInv'
      <3>1. pc[r] # "ended" /\ exit[r] = "running"
        BY <1>1 DEF ExitInv
      <3>2. \A q \in Runs \ {r} : /\ route'[q] = route[q] /\ name'[q] = name[q]
                                  /\ pc'[q] = pc[q] /\ exit'[q] = exit[q]
                                  /\ records'[q] = records[q] /\ warning'[q] = warning[q]
        BY <1>1, <2>1, <2>3
      <3>3. /\ exit'[r] = "running" <=> pc'[r] # "ended"
            /\ pc'[r] \in {"terminal?", "interface"} => route'[r] \notin Commands
            /\ route'[r] \in Commands /\ exit'[r] \in {"0", "1", "75"} /\ name'[r] # 0
                  /\ warning'[r] # "stopped"
               => /\ Len(records'[r]) > 0
                  /\ records'[r][Len(records'[r])] =
                         IF exit'[r] = "0" THEN "success" ELSE "failure"
        BY <1>1, <1>3, <2>1, <2>3, <3>1 DEF ExitInv, PruneTypeOK, RecordTypeOK
      <3> QED
        BY <3>2, <3>3 DEF ExitInv
    <2> QED
      BY <2>3, <2>4, <2>5, LateKeeps DEF PruneInv
  <1> QED
    BY <1>2, <1>3 DEF Interact, Exits, Goto

\* The user interface ends; its failure is recorded.
LEMMA InterfaceEndsInv ==
  ASSUME IInv, NEW r \in Runs, InterfaceEnds(r)
  PROVE  IInv'
  <1> USE DEF IInv, TypeOK
  <1>1. /\ UNCHANGED <<route, name, logs, doomed>> /\ pc[r] = "interface"
        /\ UNCHANGED orderly
    BY DEF InterfaceEnds
  <1>2. CASE /\ Log(r, "failure") /\ UNCHANGED success
             /\ pc' = [pc EXCEPT ![r] = "ended"]
             /\ exit' = [exit EXCEPT ![r] = "1"]
    <2>1. /\ pc' \in [Runs -> Before \union After] /\ pc'[r] \in After
          /\ exit' \in [Runs -> {"running", "killed", "0", "1", "2", "75"}]
          /\ \A q \in Runs \ {r} : pc'[q] = pc[q] /\ exit'[q] = exit[q]
      BY <1>1, <1>2 DEF PruneTypeOK, RecordTypeOK, Before, After
    <2>2. "failure" \in Events \ {"torn"} /\ pc[r] \in (After \ {"ended"}) \union {"startup"}
      BY <1>1 DEF Events, After
    <2>3. /\ records' \in [Runs -> Seq(Events)] /\ success' \in [Runs -> BOOLEAN]
          /\ warning' \in [Runs -> {"none", "unpruned", "stopped"}]
          /\ \A q \in Runs \ {r} : records'[q] = records[q] /\ warning'[q] = warning[q]
          /\ name[r] # 0 /\ warning'[r] # "stopped" =>
                Len(records'[r]) > 0 /\ records'[r][Len(records'[r])] = "failure"
          /\ RecordInv'
      BY <1>1, <1>2, <2>1, <2>2, LoggingKeeps
    <2>4. TypeOK'
      BY <1>1, <2>1, <2>3 DEF PruneTypeOK, RecordTypeOK
    <2>5. ExitInv'
      <3>1. pc[r] # "ended" /\ exit[r] = "running"
        BY <1>1 DEF ExitInv
      <3>2. \A q \in Runs \ {r} : /\ route'[q] = route[q] /\ name'[q] = name[q]
                                  /\ pc'[q] = pc[q] /\ exit'[q] = exit[q]
                                  /\ records'[q] = records[q] /\ warning'[q] = warning[q]
        BY <1>1, <2>1, <2>3
      <3>3. /\ exit'[r] = "running" <=> pc'[r] # "ended"
            /\ pc'[r] \in {"terminal?", "interface"} => route'[r] \notin Commands
            /\ route'[r] \in Commands /\ exit'[r] \in {"0", "1", "75"} /\ name'[r] # 0
                  /\ warning'[r] # "stopped"
               => /\ Len(records'[r]) > 0
                  /\ records'[r][Len(records'[r])] =
                         IF exit'[r] = "0" THEN "success" ELSE "failure"
        BY <1>1, <1>2, <2>1, <2>3, <3>1 DEF ExitInv, PruneTypeOK, RecordTypeOK
      <3> QED
        BY <3>2, <3>3 DEF ExitInv
    <2> QED
      BY <2>3, <2>4, <2>5, LateKeeps DEF PruneInv
  <1>3. CASE /\ UNCHANGED <<records, warning, success>>
             /\ (pc' = [pc EXCEPT ![r] = "ended"] /\ exit' = [exit EXCEPT ![r] = "0"])
    <2>1. /\ pc' \in [Runs -> Before \union After] /\ pc'[r] \in After
          /\ exit' \in [Runs -> {"running", "killed", "0", "1", "2", "75"}]
          /\ \A q \in Runs \ {r} : pc'[q] = pc[q] /\ exit'[q] = exit[q]
      BY <1>1, <1>3 DEF PruneTypeOK, RecordTypeOK, Before, After
    <2>2. TypeOK'
      BY <1>1, <1>3, <2>1 DEF PruneTypeOK, RecordTypeOK
    <2>3. \A q \in Runs : RecordsOf(q)'
      BY <1>1, <1>3 DEF RecordInv, RecordsOf
    <2>4. RecordInv'
      BY <1>1, <1>3, <2>1, <2>3 DEF RecordInv, Before, After
    <2>5. ExitInv'
      BY <1>1, <1>3, <2>1 DEF ExitInv, PruneTypeOK, RecordTypeOK
    <2> QED
      BY <2>2, <2>4, <2>5, LateKeeps DEF PruneInv
  <1> QED
    BY <1>2, <1>3 DEF InterfaceEnds, Exits, Goto

\* A run goes on from its arguments, or ends there.
LEMMA ParseInv ==
  ASSUME IInv, NEW r \in Runs, Parse(r)
  PROVE  IInv'
  <1> USE DEF IInv
  <1>1. TypeOK'
    BY DEF TypeOK, PruneTypeOK, RecordTypeOK, Parse, Exits, Goto, Before, After
  <1> QED
    BY <1>1, EarlyInv, LateKeeps DEF PruneInv, TypeOK

\* A killed run leaves what it has done.
LEMMA KillInv ==
  ASSUME IInv, NEW r \in Runs, Kill(r)
  PROVE  IInv'
  <1> USE DEF IInv
  <1>1. TypeOK'
    BY DEF TypeOK, PruneTypeOK, RecordTypeOK, Kill, Exits, Goto, Before, After
  <1> QED
    BY <1>1, EarlyInv, LateKeeps DEF PruneInv, TypeOK

-----------------------------------------------------------------------------
(* The theorems.                                                            *)

\* The initial states satisfy the inductive invariant.
LEMMA InitInv == Init => IInv
  <1> SUFFICES ASSUME Init PROVE IInv
    OBVIOUS
  <1> USE DEF Init
  <1>1. TypeOK
    <2>1. <<>> \in Seq(Names) /\ <<>> \in Seq(Events)
      OBVIOUS
    <2> QED
      BY <2>1 DEF TypeOK, PruneTypeOK, RecordTypeOK, Before
  <1>2. \A r \in Runs : Doomed(r) = {}
    BY DEF Doomed
  <1>3. StepInv
    BY DEF StepInv
  <1>4. OrderInv /\ DoomedInv
    BY <1>2 DEF OrderInv, DoomedInv
  <1>5. ReachInv
    BY <1>2 DEF ReachInv, Gone
  <1>6. RecordInv /\ ExitInv
    BY DEF RecordInv, RecordsOf, ExitInv, After
  <1> QED
    BY <1>1, <1>3, <1>4, <1>5, <1>6 DEF IInv

\* Every step keeps the inductive invariant.
LEMMA NextInv == IInv /\ [Next]_vars => IInv'
  <1> SUFFICES ASSUME IInv, [Next]_vars PROVE IInv'
    OBVIOUS
  <1>1. ASSUME NEW r \in Runs, Create(r) \/ List(r) \/ Prune(r) PROVE IInv'
    <2>1. PruneInv'
      BY <1>1, CreateKeeps, ListKeeps, PruneKeeps DEF IInv, PruneInv
    <2> QED
      BY <1>1, <2>1, EarlyInv DEF IInv, PruneInv
  <1>2. CASE UNCHANGED vars
    <2>1. TypeOK'
      BY <1>2 DEF vars, IInv, TypeOK, PruneTypeOK, RecordTypeOK
    <2>2. StepInv' /\ OrderInv'
      BY <1>2 DEF vars, IInv, StepInv, OrderInv
    <2>3. DoomedInv' /\ ReachInv'
      <3>1. /\ logs' = logs /\ Earlier' = Earlier /\ \A r \in Runs : Doomed(r)' = Doomed(r)
            /\ orderly' = orderly /\ name' = name /\ pc' = pc
        BY <1>2 DEF vars, Earlier, Doomed
      <3>2. \A m : Gone(m)' <=> Gone(m)
        BY <3>1 DEF Gone
      <3>3. \A m : \A z \in Runs : Reaches(z, m)' <=> Reaches(z, m)
        BY <3>1 DEF Reaches
      <3> QED
        BY <3>1, <3>2, <3>3 DEF IInv, DoomedInv, ReachInv
    <2>4. RecordInv' /\ ExitInv'
      BY <1>2 DEF vars, IInv, RecordInv, RecordsOf, ExitInv
    <2> QED
      BY <2>1, <2>2, <2>3, <2>4 DEF IInv
  <1> QED
    BY <1>1, <1>2, ParseInv, StartupInv, AuthorizeInv, OperateInv, CheckTTYInv, InteractInv,
       InterfaceEndsInv, KillInv DEF Next

\* The invariant holds in every reachable state of any number of runs.
THEOREM Invariance == Spec => []IInv
  BY InitInv, NextInv, PTL DEF Spec

\* Every variable keeps its type.
THEOREM TypeCorrect == Spec => []TypeOK
  <1>1. IInv => TypeOK
    BY DEF IInv
  <1> QED
    BY <1>1, Invariance, PTL

\* retain in runlog.go removes a log only while Keep later ones are in the directory, and
\* never the log of its own run, although other runs change the directory behind its list.
THEOREM OnlyOldLogsArePruned == Spec => PrunesOnlyOldLogs
  <1> DEFINE A == \A n \in logs \ logs' :
                     /\ Cardinality(Newer(n, logs)) >= Keep
                     /\ \A r \in Runs : name[r] = n => pc'[r] = pc[r]
  <1>1. IInv /\ [Next]_vars => [A]_vars
    <2> SUFFICES ASSUME IInv, Next, NEW n \in logs \ logs'
                 PROVE  /\ Cardinality(Newer(n, logs)) >= Keep
                        /\ \A r \in Runs : name[r] = n => pc'[r] = pc[r]
      OBVIOUS
    <2>1. PICK r \in Runs : /\ Prune(r) /\ n = Head(doomed[r])
      BY DEF Next, Parse, Create, List, Prune, Startup, Authorize, Operate, CheckTTY, Interact,
             InterfaceEnds, Kill
    <2>2. n \in Doomed(r)
      <3>1. doomed[r] \in Seq(Names) /\ doomed[r] # <<>>
        BY <2>1 DEF IInv, TypeOK, PruneTypeOK, StepInv, Prune
      <3>2. 1 \in 1..Len(doomed[r]) /\ Head(doomed[r]) = doomed[r][1]
        BY <3>1
      <3> QED
        BY <2>1, <3>2 DEF Doomed
    <2>3. n # name[r] /\ Cardinality(Newer(n, logs)) >= Keep
      BY <2>2 DEF IInv, DoomedInv
    <2>4. \A q \in Runs \ {r} : pc'[q] = pc[q]
      BY <2>1 DEF Prune, Unpruned, Goto, IInv, TypeOK, PruneTypeOK
    <2> QED
      BY <2>3, <2>4
  <1> QED
    BY <1>1, Invariance, PTL DEF Spec, PrunesOnlyOldLogs

\* However many runs prune at a time, one of them goes on to the last log there is to remove.
THEOREM DirectoryIsBounded == Spec => []LogsBounded
  <1>1. IInv => LogsBounded
    <2> SUFFICES ASSUME IInv, orderly, \E r \in Runs : name[r] # 0,
                        \A r \in Runs : pc[r] \notin {"list", "prune"},
                        NEW n \in logs, Cardinality(Newer(n, logs)) >= Keep,
                        \A r \in Runs : name[r] # n
                 PROVE  FALSE
      BY DEF LogsBounded
    <2>1. n \in Earlier
      BY DEF Earlier
    <2>2. PICK z \in Runs : pc[z] = "list" \/ Reaches(z, n)
      BY <2>1 DEF IInv, ReachInv
    <2> QED
      BY <2>2 DEF Reaches
  <1> QED
    BY <1>1, Invariance, PTL

\* The log that main.go leaves tells what the run did.
THEOREM TheLogIsTrue == Spec => []LogTellsTheRun
  <1>1. IInv => LogTellsTheRun
    <2> SUFFICES ASSUME IInv, NEW r \in Runs
                 PROVE  /\ records[r] # <<>> => records[r][1] \in {"startup", "torn"}
                        /\ \A i \in DOMAIN records[r] :
                              /\ records[r][i] = "torn" => i = Len(records[r])
                              /\ records[r][i] = "success" => success[r]
                        /\ route[r] \in Commands /\ exit[r] \in {"0", "1", "75"} /\ name[r] # 0
                              /\ warning[r] # "stopped"
                           => records[r][Len(records[r])] =
                                 IF exit[r] = "0" THEN "success" ELSE "failure"
      BY DEF LogTellsTheRun
    <2>1. /\ records[r] \in Seq(Events) /\ DOMAIN records[r] = 1..Len(records[r])
          /\ records[r] # <<>> => 1 \in 1..Len(records[r])
      BY DEF IInv, TypeOK, RecordTypeOK
    <2>2. RecordsOf(r)
      BY DEF IInv, RecordInv
    <2>3. /\ records[r] # <<>> => records[r][1] \in {"startup", "torn"}
          /\ \A i \in DOMAIN records[r] :
                /\ records[r][i] = "torn" => i = Len(records[r])
                /\ records[r][i] = "success" => success[r]
      BY <2>1, <2>2 DEF RecordsOf
    <2> QED
      BY <2>3 DEF IInv, ExitInv
  <1> QED
    BY <1>1, Invariance, PTL
=============================================================================
