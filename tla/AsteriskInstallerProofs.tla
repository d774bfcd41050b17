----------------------- MODULE AsteriskInstallerProofs -------------------------
(***************************************************************************)
(* Proofs about the optional Asterisk set-up, for any number of            *)
(* installations one after the other and files of any length.              *)
(***************************************************************************)
EXTENDS AsteriskInstaller, Integers, WellFoundedInduction, TLAPS

\* The types of the run, of the host and of what is remembered of it.
RunTypeOK ==
    /\ pc \in Steps \union Undo \union {"idle"}
    /\ ours \in BOOLEAN /\ undone \in BOOLEAN /\ left \in SUBSET Paths
    /\ result \in {"none", "installed", "failed", "killed"}
    /\ stage \in Steps \union {"none", "snapshot"}
    /\ runs \in 0..MaxRuns
HostTypeOK == host \in Hosts
SnapTypeOK == snap \in Hosts /\ before \in Hosts

\* A service is enabled or runs only where the package is installed.
PackageInv == host.enabled \/ host.active => host.package

\* From the snapshot on the run knows the host as it was, whatever it asked for; the first
\* step changes nothing.
SnapInv ==
    /\ pc # "idle" => snap = before
    /\ pc = "package" => host = before /\ ~host.package /\ ~ours

\* Past the package the run has installed it or has found it.
OursInv ==
    pc \notin {"idle", "package"} =>
        /\ ours <=> ~snap.package
        /\ host.package /\ (snap.enabled \/ snap.active => snap.package)
        /\ snap.enabled => host.enabled

\* The steps of the rollback that come after each of them.
After(step) ==
    CASE step = "undoBundle" -> {"undoConfigs", "undoActive", "undoEnabled", "undoPackage"}
      [] step = "undoConfigs" -> {"undoActive", "undoEnabled", "undoPackage"}
      [] step = "undoActive" -> {"undoEnabled", "undoPackage"}
      [] step = "undoEnabled" -> {"undoPackage"}

\* What has been undone so far is as it was.
UndoInv ==
    undone =>
        /\ pc \in After("undoBundle") => host.bundle = snap.bundle
        /\ pc = "undoConfigs" => \A p \in Paths \ left : host.configs[p] = snap.configs[p]
        /\ pc \in After("undoConfigs") => host.configs = snap.configs
        /\ pc \in After("undoActive") => (host.active => snap.active)
        /\ pc \in After("undoEnabled") => host.enabled = snap.enabled

\* Nobody but a run that failed has rolled back.
StageInv ==
    /\ pc = "undoConfigs" => left # {}
    /\ pc = "undoBundle" => left = Paths
    /\ pc # "idle" => result = "none"

\* The inductive invariants: of the types, and of what the rollback relies on.
TypeInv == RunTypeOK /\ HostTypeOK /\ SnapTypeOK
UndoneInv == /\ PackageInv /\ SnapInv /\ OursInv /\ UndoInv /\ StageInv
             /\ RollbackRestoresHost
IInv == TypeInv /\ UndoneInv

\* The lines of a text that the writes, whole or cut short, and the operator can leave: a
\* section's body follows its begin marker, the end marker follows the body.
Shape(text) ==
    /\ \A i, j \in DOMAIN text : text[i] = "begin" /\ text[j] = "begin" => i = j
    /\ \A i \in DOMAIN text : text[i] = "body" => i > 1 /\ text[i - 1] = "begin"
    /\ \A i \in DOMAIN text : text[i] = "end" => i > 1 /\ text[i - 1] = "body"

\* Every text there is, or that the rollback may write, is well shaped.
ShapeInv == \A p \in Paths : Shape(host.configs[p].text) /\ Shape(snap.configs[p].text)

\* The steps up to the one that writes file p.
Unwritten(p) ==
    IF p = "manager" THEN {"package", "manager"} ELSE {"package", "manager", "extensions"}

\* A file there was is as it was until it is written, and then it is configured.
FilesInv ==
    \A p \in Paths :
        /\ pc \in Unwritten(p) /\ before.configs[p].exists => host.configs[p] = before.configs[p]
        /\ pc \in Steps \ Unwritten(p) => Configured(p)

\* What the steps that are done have left; a run that goes on has no result.
DoneInv ==
    /\ pc \in Steps \ {"package"} => host.package
    /\ pc \in {"enable", "restart", "verify"} => host.bundle = "managed"
    /\ pc \in {"restart", "verify"} => host.enabled
    /\ pc # "idle" => result = "none"

\* The inductive invariant of a successful run, which needs no query to be answered.
WrittenInv == ShapeInv /\ FilesInv /\ DoneInv /\ SuccessMeansConfigured

\* What ReplaceManagedSection keeps: the first P lines, up to a begin marker if there is one,
\* and the last S lines, which follow an end marker.
Kept(text, m, P, S) ==
    /\ Len(m) = P + 3 + S
    /\ m[P + 1] = "begin" /\ m[P + 2] = "body" /\ m[P + 3] = "end"
    /\ \A i \in 1..P : m[i] = text[i] /\ text[i] # "begin"
    /\ \A i \in (Len(text) - S + 1)..Len(text) : m[i - Len(text) + P + 3 + S] = text[i]
    /\ \A i \in (P + 4)..(P + 3 + S) : m[i] = text[i + Len(text) - P - 3 - S]
    /\ P + S <= Len(text)
    /\ P = Len(text) \/ text[P + 1] = "begin"
    /\ \A i \in (P + 1)..(Len(text) - S - 1) : text[i] # "end"
    /\ S # 0 => text[Len(text) - S] = "end" /\ Len(text) - S > P + 1

-----------------------------------------------------------------------------
(* Lemmas: the texts.                                                       *)

\* The first such line is a position of the text, or there is none.
LEMMA IndexFacts ==
  ASSUME NEW text \in Seq(Lines), NEW i \in Nat \ {0}, NEW line
  PROVE  \/ Index(text, i, line) = 0 /\ \A j \in i..Len(text) : text[j] # line
         \/ /\ Index(text, i, line) \in i..Len(text) /\ text[Index(text, i, line)] = line
            /\ \A j \in i..Len(text) : text[j] = line => Index(text, i, line) <= j
  <1> DEFINE found == {j \in i..Len(text) : text[j] = line}
  <1>1. found \in SUBSET Nat /\ Len(text) \in Nat
    OBVIOUS
  <1>2. CASE found = {}
    BY <1>1, <1>2 DEF Index
  <1>3. CASE found # {}
    <2>1. \E j \in found : \A k \in found : j <= k
      <3> DEFINE less == OpToRel(<, Nat)
      <3>1. IsWellFoundedOn(less, Nat)
        BY NatLessThanWellFounded
      <3>2. \A j, k \in Nat : k < j => <<k, j>> \in less
        BY DEF OpToRel
      <3> HIDE DEF less
      <3>3. PICK j \in found : \A k \in found : ~(<<k, j>> \in less)
        BY <1>1, <1>3, <3>1, WFMin
      <3>4. \A k \in found : ~(k < j)
        BY <1>1, <3>2, <3>3
      <3> QED
        BY <1>1, <3>4
    <2>2. Index(text, i, line) \in found /\ \A k \in found : Index(text, i, line) <= k
      BY <1>1, <1>3, <2>1 DEF Index
    <2> QED
      BY <2>2
  <1> QED
    BY <1>2, <1>3

\* ReplaceManagedSection makes a text of lines.
LEMMA ManagedType ==
  ASSUME NEW text \in Seq(Lines)
  PROVE  Managed(text) \in Seq(Lines)
  <1> DEFINE begin == Index(text, 1, "begin")
             end == Index(text, begin, "end")
             prefix == IF begin = 0 THEN text ELSE SubSeq(text, 1, begin - 1)
             suffix == IF begin = 0 \/ end = 0 THEN <<>> ELSE SubSeq(text, end + 1, Len(text))
             section == <<"begin", "body", "end">>
  <1>1. begin = 0 \/ begin \in 1..Len(text)
    BY IndexFacts
  <1>2. begin # 0 => end = 0 \/ end \in begin..Len(text)
    BY <1>1, IndexFacts
  <1>3. section \in Seq(Lines) /\ <<>> \in Seq(Lines)
    BY DEF Lines
  <1> HIDE DEF begin, end
  <1>4. prefix \in Seq(Lines)
    BY <1>1
  <1>5. suffix \in Seq(Lines)
    BY <1>1, <1>2, <1>3
  <1> HIDE DEF prefix, suffix, section
  <1>6. prefix \o section \o suffix \in Seq(Lines)
    BY <1>3, <1>4, <1>5
  <1> QED
    BY <1>6 DEF Managed, begin, end, prefix, suffix, section

\* So does a write that was cut short.
LEMMA CutType ==
  ASSUME NEW text \in Seq(Lines), NEW c \in Cut(text)
  PROVE  c \in Configs
  <1>1. PICK n \in 0..(Len(text) - 1) : c = Written(SubSeq(text, 1, n))
    BY DEF Cut
  <1>2. SubSeq(text, 1, n) \in Seq(Lines)
    OBVIOUS
  <1> QED
    BY <1>1, <1>2 DEF Written, Configs

\* ReplaceManagedSection keeps what stands before and after the old section.
LEMMA ManagedKeeps ==
  ASSUME NEW text \in Seq(Lines)
  PROVE  \E P, S \in Nat : Kept(text, Managed(text), P, S)
  <1> DEFINE begin == Index(text, 1, "begin")
             end == Index(text, begin, "end")
             section == <<"begin", "body", "end">>
             n == Len(text)
  <1>1. n \in Nat
    OBVIOUS
  <1>2. CASE begin = 0
    <2>1. \A i \in 1..n : text[i] # "begin"
      BY <1>2, IndexFacts
    <2>2. Managed(text) = text \o section \o <<>>
      BY <1>2 DEF Managed
    <2>3. Managed(text) = text \o section
      BY <2>2
    <2>4. Kept(text, Managed(text), n, 0)
      <3> DEFINE m == text \o section
      <3>1. Len(m) = n + 3 /\ m[n + 1] = "begin" /\ m[n + 2] = "body" /\ m[n + 3] = "end"
        BY DEF Lines
      <3>2. \A i \in 1..n : m[i] = text[i]
        OBVIOUS
      <3> HIDE DEF m
      <3> QED
        BY <1>1, <2>1, <2>3, <3>1, <3>2 DEF Kept, m
    <2> QED
      BY <1>1, <2>4
  <1>3. CASE begin # 0
    <2>1. /\ begin \in 1..n /\ text[begin] = "begin"
          /\ \A i \in 1..n : text[i] = "begin" => begin <= i
      BY <1>3, IndexFacts
    <2> DEFINE P == begin - 1
               prefix == SubSeq(text, 1, P)
    <2>2. P \in Nat /\ P + 1 = begin /\ P < n
      BY <1>1, <2>1
    <2>3. prefix \in Seq(Lines) /\ Len(prefix) = P /\ \A i \in 1..P : prefix[i] = text[i]
      BY <1>1, <2>1
    <2>4. \A i \in 1..P : text[i] # "begin"
      BY <1>1, <2>1
    <2>5. CASE end = 0
      <3>1. \A i \in begin..n : text[i] # "end"
        BY <2>1, <2>5, IndexFacts
      <3>2. Managed(text) = prefix \o section \o <<>>
        BY <1>3, <2>5 DEF Managed
      <3> HIDE DEF begin, prefix, P
      <3>3. Managed(text) = prefix \o section
        BY <2>3, <3>2
      <3> DEFINE m == prefix \o section
      <3>4. Len(m) = P + 3 /\ m[P + 1] = "begin" /\ m[P + 2] = "body" /\ m[P + 3] = "end"
        BY <2>2, <2>3 DEF Lines
      <3>5. \A i \in 1..P : m[i] = text[i]
        BY <2>2, <2>3
      <3> HIDE DEF m
      <3>6. Kept(text, m, P, 0)
        BY <1>1, <2>1, <2>2, <2>4, <3>1, <3>4, <3>5 DEF Kept
      <3> QED
        BY <2>2, <3>3, <3>6 DEF m
    <2>6. CASE end # 0
      <3>1. /\ end \in begin..n /\ text[end] = "end"
            /\ \A i \in begin..n : text[i] = "end" => end <= i
        BY <2>1, <2>6, IndexFacts
      <3> DEFINE S == n - end
                 suffix == SubSeq(text, end + 1, n)
      <3>2. Managed(text) = prefix \o section \o suffix
        BY <1>3, <2>6 DEF Managed
      <3>3. end # begin
        BY <2>1, <3>1
      <3> HIDE DEF begin, prefix, P, end
      <3>4. /\ S \in Nat /\ n - S = end /\ end > P + 1 /\ P + S <= n
            /\ \A i \in (P + 1)..(end - 1) : text[i] # "end"
        BY <1>1, <2>1, <2>2, <3>1, <3>3
      <3>5. suffix \in Seq(Lines) /\ Len(suffix) = S /\ \A i \in 1..S : suffix[i] = text[end + i]
        BY <1>1, <2>1, <3>1
      <3> HIDE DEF suffix, S
      <3> DEFINE k == prefix \o section
                 m == k \o suffix
      <3>6. /\ k \in Seq(Lines) /\ Len(k) = P + 3 /\ \A i \in 1..P : k[i] = text[i]
            /\ k[P + 1] = "begin" /\ k[P + 2] = "body" /\ k[P + 3] = "end"
        BY <2>2, <2>3 DEF Lines
      <3> HIDE DEF k
      <3>7. Len(m) = P + 3 + S /\ (\A i \in 1..(P + 3) : m[i] = k[i])
            /\ \A i \in 1..S : m[P + 3 + i] = suffix[i]
        BY <2>2, <3>4, <3>5, <3>6
      <3> HIDE DEF m
      <3>8. \A i \in 1..S : m[P + 3 + i] = text[end + i]
        BY <3>5, <3>7
      <3>9. m[P + 1] = "begin" /\ m[P + 2] = "body" /\ m[P + 3] = "end"
            /\ \A i \in 1..P : m[i] = text[i]
        BY <2>2, <3>6, <3>7
      <3>10. ASSUME NEW i \in (end + 1)..n
             PROVE  m[i - n + P + 3 + S] = text[i]
        <4>1. i - end \in 1..S /\ P + 3 + (i - end) = i - n + P + 3 + S /\ end + (i - end) = i
          BY <1>1, <2>2, <3>1, <3>4
        <4> QED
          BY <3>8, <4>1
      <3>11. ASSUME NEW i \in (P + 4)..(P + 3 + S)
             PROVE  m[i] = text[i + n - P - 3 - S]
        <4>1. i - P - 3 \in 1..S /\ P + 3 + (i - P - 3) = i
              /\ end + (i - P - 3) = i + n - P - 3 - S
          BY <1>1, <2>2, <3>1, <3>4
        <4> QED
          BY <3>8, <4>1
      <3>12. n - S + 1 = end + 1 /\ n - S - 1 = end - 1
        BY <1>1, <3>1, <3>4
      <3>13. Kept(text, m, P, S)
        BY <1>1, <2>1, <2>2, <2>4, <3>1, <3>4, <3>7, <3>9, <3>10, <3>11, <3>12 DEF Kept
      <3> QED
        BY <2>2, <3>2, <3>4, <3>13 DEF m, k
    <2> QED
      BY <2>5, <2>6
  <1> QED
    BY <1>2, <1>3

\* In a well-shaped text only the section stands between what is kept.
LEMMA KeptLines ==
  ASSUME NEW text \in Seq(Lines), Shape(text), NEW m, NEW P \in Nat, NEW S \in Nat,
         Kept(text, m, P, S)
  PROVE  \A i \in 1..P \union (Len(text) - S + 1)..Len(text) :
             text[i] \in {"local", "external"} /\ ~InManaged(text, i)
  <1> DEFINE n == Len(text)
  <1>1. n \in Nat /\ DOMAIN text = 1..n /\ \A i \in 1..n : text[i] \in Lines
    OBVIOUS
  <1>2. /\ P + S <= n /\ (P = n \/ text[P + 1] = "begin") /\ \A i \in 1..P : text[i] # "begin"
        /\ S # 0 => text[n - S] = "end" /\ n - S > P + 1
    BY DEF Kept
  <1> HIDE DEF n
  <1>3. ASSUME NEW i \in 1..P
        PROVE  text[i] \in {"local", "external"} /\ ~InManaged(text, i)
    <2>1. i \in 1..n /\ (i > 1 => i - 1 \in 1..P /\ i - 1 \in 1..n)
      <3>1. i \in Nat /\ n \in Nat /\ P <= n /\ 1 <= i /\ i <= P
        BY <1>1, <1>2
      <3> QED
        BY <3>1
    <2>2. text[i] # "body"
      BY <1>1, <1>2, <2>1 DEF Shape
    <2>3. text[i] # "end"
      <3>1. SUFFICES ASSUME text[i] = "end" PROVE FALSE
        OBVIOUS
      <3>2. i > 1 /\ text[i - 1] = "body"
        BY <1>1, <2>1, <3>1 DEF Shape
      <3>3. i - 1 > 1 /\ text[(i - 1) - 1] = "begin"
        BY <1>1, <2>1, <3>2 DEF Shape
      <3>4. (i - 1) - 1 \in 1..P
        BY <3>3
      <3> QED
        BY <1>2, <3>3, <3>4
    <2>4. ~InManaged(text, i)
      <3>1. \A b \in 1..i : text[b] # "begin"
        BY <1>2
      <3> QED
        BY <3>1 DEF InManaged
    <2> QED
      BY <1>1, <1>2, <2>1, <2>2, <2>3, <2>4 DEF Lines
  <1>4. ASSUME NEW i \in (n - S + 1)..n
        PROVE  text[i] \in {"local", "external"} /\ ~InManaged(text, i)
    <2> DEFINE e == n - S
    <2>1. S # 0
      BY <1>1
    <2>2. /\ text[e] = "end" /\ e > P + 1 /\ text[P + 1] = "begin"
          /\ e \in 1..n /\ P + 1 \in 1..n /\ i \in 1..n /\ i > e /\ e \in Nat
      <3>1. text[e] = "end" /\ e > P + 1 /\ e \in Int /\ e <= n /\ i > e /\ i \in Int /\ i <= n
        BY <1>1, <1>2, <2>1
      <3> HIDE DEF e
      <3>2. P # n
        BY <1>1, <3>1
      <3> QED
        BY <1>1, <1>2, <3>1, <3>2
    <2> HIDE DEF e
    <2>3. \A b \in 1..n : text[b] = "begin" => b = P + 1
      BY <1>1, <2>2 DEF Shape
    <2>4. \A c \in 1..n : text[c] = "body" => c = P + 2
      <3>1. SUFFICES ASSUME NEW c \in 1..n, text[c] = "body" PROVE c = P + 2
        OBVIOUS
      <3>2. c > 1 /\ text[c - 1] = "begin"
        BY <1>1, <3>1 DEF Shape
      <3>3. c - 1 \in 1..n
        BY <1>1, <3>2
      <3> QED
        BY <2>3, <3>2, <3>3
    <2>5. \A c \in 1..n : text[c] = "end" => c = P + 3
      <3>1. SUFFICES ASSUME NEW c \in 1..n, text[c] = "end" PROVE c = P + 3
        OBVIOUS
      <3>2. c > 1 /\ text[c - 1] = "body"
        BY <1>1, <3>1 DEF Shape
      <3>3. c - 1 \in 1..n
        BY <1>1, <3>2
      <3> QED
        BY <2>4, <3>2, <3>3
    <2>6. e = P + 3
      BY <2>2, <2>5
    <2>7. text[i] \in {"local", "external"}
      BY <1>1, <2>2, <2>3, <2>4, <2>5, <2>6 DEF Lines
    <2>8. ~InManaged(text, i)
      <3>1. SUFFICES ASSUME NEW b \in 1..i, text[b] = "begin", \A c \in b..(i - 1) : text[c] # "end"
                     PROVE  FALSE
        BY DEF InManaged
      <3>2. b = P + 1
        BY <1>1, <2>2, <2>3, <3>1
      <3>3. e \in b..(i - 1)
        BY <2>2, <3>2
      <3> QED
        BY <2>2, <3>1, <3>3
    <2> QED
      BY <2>7, <2>8
  <1> QED
    BY <1>3, <1>4 DEF n

\* And what is dropped is managed.
LEMMA DroppedLines ==
  ASSUME NEW text \in Seq(Lines), NEW m, NEW P \in Nat, NEW S \in Nat, Kept(text, m, P, S),
         NEW i \in (P + 1)..(Len(text) - S)
  PROVE  InManaged(text, i)
  <1>1. Len(text) \in Nat
    OBVIOUS
  <1>2. P + 1 \in 1..i /\ P # Len(text)
    BY <1>1
  <1>3. text[P + 1] = "begin"
    BY <1>2 DEF Kept
  <1>4. \A c \in (P + 1)..(i - 1) : text[c] # "end"
    BY <1>1 DEF Kept
  <1> QED
    BY <1>2, <1>3, <1>4 DEF InManaged

\* The lines of the new text: the section, and around it what was kept.
LEMMA NewLines ==
  ASSUME NEW text \in Seq(Lines), Shape(text), NEW m \in Seq(Lines), NEW P \in Nat, NEW S \in Nat,
         Kept(text, m, P, S)
  PROVE  \A i \in 1..P \union (P + 4)..(P + 3 + S) :
             m[i] \in {"local", "external"} /\ ~InManaged(m, i)
  <1> DEFINE n == Len(text)
  <1>1. n \in Nat /\ P + S <= n /\ Len(m) = P + 3 + S
    BY DEF Kept
  <1>2. ASSUME NEW i \in 1..P
        PROVE  m[i] \in {"local", "external"}
    <2>1. m[i] = text[i]
      BY DEF Kept
    <2>2. text[i] \in {"local", "external"}
      BY KeptLines
    <2> QED
      BY <2>1, <2>2
  <1>3. ASSUME NEW i \in (P + 4)..(P + 3 + S)
        PROVE  m[i] \in {"local", "external"}
    <2>1. m[i] = text[i + n - P - 3 - S]
      BY DEF Kept
    <2>2. i + n - P - 3 - S \in (n - S + 1)..n
      BY <1>1
    <2> QED
      BY <2>1, <2>2, KeptLines
  <1>4. \A b \in 1..(P + 3 + S) : m[b] = "begin" => b = P + 1
    <2>1. \A b \in 1..(P + 3 + S) :
              b \in 1..P \/ b \in (P + 4)..(P + 3 + S) \/ b = P + 1 \/ b = P + 2 \/ b = P + 3
      OBVIOUS
    <2>2. m[P + 2] = "body" /\ m[P + 3] = "end"
      BY DEF Kept
    <2> QED
      BY <1>2, <1>3, <2>1, <2>2
  <1>5. ASSUME NEW i \in 1..P \union (P + 4)..(P + 3 + S)
        PROVE  ~InManaged(m, i)
    <2>1. SUFFICES ASSUME NEW b \in 1..i, m[b] = "begin", \A c \in b..(i - 1) : m[c] # "end"
                   PROVE  FALSE
      BY DEF InManaged
    <2>2. b = P + 1
      BY <1>4, <2>1
    <2>3. i \in (P + 4)..(P + 3 + S)
      BY <2>1, <2>2
    <2>4. P + 3 \in b..(i - 1) /\ m[P + 3] = "end"
      BY <2>2, <2>3 DEF Kept
    <2> QED
      BY <2>1, <2>4
  <1> QED
    BY <1>2, <1>3, <1>5

\* The new text holds one section.
LEMMA ManagedIsWhole ==
  ASSUME NEW text \in Seq(Lines), Shape(text)
  PROVE  OneSection(Managed(text)) /\ Shape(Managed(text))
  <1> DEFINE m == Managed(text)
  <1>1. PICK P, S \in Nat : Kept(text, m, P, S)
    BY ManagedKeeps
  <1>2. m \in Seq(Lines)
    BY ManagedType
  <1> HIDE DEF m
  <1>3. \A i \in 1..P \union (P + 4)..(P + 3 + S) : m[i] \in {"local", "external"}
    BY <1>1, <1>2, NewLines
  <1>4. /\ Len(m) = P + 3 + S /\ DOMAIN m = 1..(P + 3 + S)
        /\ m[P + 1] = "begin" /\ m[P + 2] = "body" /\ m[P + 3] = "end"
    BY <1>1, <1>2 DEF Kept
  <1>5. \A i \in 1..(P + 3 + S) : i \in 1..P \/ i \in (P + 4)..(P + 3 + S)
                                  \/ i = P + 1 \/ i = P + 2 \/ i = P + 3
    OBVIOUS
  <1>6. OneSection(m)
    <2>1. P + 1 \in 1..(Len(m) - 2) /\ (P + 1) + 1 = P + 2 /\ (P + 1) + 2 = P + 3
      BY <1>4
    <2>2. \A i \in DOMAIN m \ (P + 1)..((P + 1) + 2) : m[i] \in {"local", "external"}
      BY <1>3, <1>4, <1>5
    <2> QED
      BY <1>4, <2>1, <2>2 DEF OneSection
  <1>7. Shape(m)
    <2>1. /\ \A i \in DOMAIN m : m[i] = "begin" => i = P + 1
          /\ \A i \in DOMAIN m : m[i] = "body" => i = P + 2
          /\ \A i \in DOMAIN m : m[i] = "end" => i = P + 3
      BY <1>3, <1>4, <1>5
    <2>2. P + 2 > 1 /\ P + 3 > 1 /\ (P + 2) - 1 = P + 1 /\ (P + 3) - 1 = P + 2
      OBVIOUS
    <2> QED
      BY <1>4, <2>1, <2>2 DEF Shape
  <1> QED
    BY <1>6, <1>7 DEF m

\* The operator's lines stay, in their order.
LEMMA ManagedKeepsOwn ==
  ASSUME NEW text \in Seq(Lines), Shape(text)
  PROVE  SameOwnLines(text, Managed(text))
  <1> DEFINE m == Managed(text)
             n == Len(text)
  <1>1. PICK P, S \in Nat : Kept(text, m, P, S)
    BY ManagedKeeps
  <1>2. m \in Seq(Lines) /\ n \in Nat
    BY ManagedType
  <1> HIDE DEF m
  <1>3. P + S <= n /\ Len(m) = P + 3 + S /\ DOMAIN m = 1..(P + 3 + S) /\ DOMAIN text = 1..n
    BY <1>1, <1>2 DEF Kept
  <1>4. Own(text) = 1..P \union (n - S + 1)..n
    <2>1. \A i \in 1..P \union (n - S + 1)..n : i \in Own(text)
      <3>1. ASSUME NEW i \in 1..P \union (n - S + 1)..n PROVE i \in 1..n
        BY <1>2, <1>3
      <3>2. \A i \in 1..P \union (n - S + 1)..n :
                text[i] \in {"local", "external"} /\ ~InManaged(text, i)
        BY <1>1, <1>2, KeptLines
      <3> QED
        BY <1>3, <3>1, <3>2 DEF Own
    <2>2. ASSUME NEW i \in Own(text) PROVE i \in 1..P \union (n - S + 1)..n
      <3>1. i \in 1..n /\ ~InManaged(text, i)
        BY <1>3 DEF Own
      <3>2. i \notin (P + 1)..(n - S)
        BY <1>1, <3>1, DroppedLines
      <3> QED
        BY <1>2, <1>3, <3>1, <3>2
    <2> QED
      BY <2>1, <2>2
  <1>5. Own(m) = 1..P \union (P + 4)..(P + 3 + S)
    <2>1. \A i \in 1..P \union (P + 4)..(P + 3 + S) : i \in Own(m)
      BY <1>1, <1>2, <1>3, NewLines DEF Own
    <2>2. ASSUME NEW i \in Own(m) PROVE i \in 1..P \union (P + 4)..(P + 3 + S)
      <3>1. i \in 1..(P + 3 + S) /\ m[i] \in {"local", "external"}
        BY <1>3 DEF Own
      <3>2. i # P + 1 /\ i # P + 2 /\ i # P + 3
        BY <1>1, <3>1 DEF Kept
      <3> QED
        BY <3>1, <3>2
    <2> QED
      BY <2>1, <2>2
  <1> DEFINE f == [i \in Own(text) |-> IF i <= P THEN i ELSE i - n + P + 3 + S]
  <1>6. f \in [Own(text) -> Own(m)]
    BY <1>2, <1>3, <1>4, <1>5
  <1>7. \A i, j \in Own(text) : i < j => f[i] < f[j]
    BY <1>2, <1>3, <1>4
  <1>8. ASSUME NEW k \in Own(m) PROVE \E i \in Own(text) : f[i] = k
    <2>1. CASE k \in 1..P
      BY <1>4, <2>1
    <2>2. CASE k \in (P + 4)..(P + 3 + S)
      <3>1. /\ k + n - P - 3 - S \in (n - S + 1)..n /\ ~(k + n - P - 3 - S <= P)
            /\ (k + n - P - 3 - S) - n + P + 3 + S = k
        BY <1>2, <1>3, <2>2
      <3> QED
        BY <1>4, <3>1
    <2> QED
      BY <1>5, <2>1, <2>2
  <1>9. ASSUME NEW i \in Own(text) PROVE m[f[i]] = text[i]
    <2>1. CASE i \in 1..P
      BY <1>1, <1>4, <2>1 DEF Kept
    <2>2. CASE i \in (n - S + 1)..n
      <3>1. ~(i <= P)
        BY <1>2, <1>3, <2>2
      <3> QED
        BY <1>1, <1>4, <2>2, <3>1 DEF Kept
    <2> QED
      BY <1>4, <2>1, <2>2
  <1> HIDE DEF f
  <1>10. SameOwnLines(text, m)
    BY <1>6, <1>7, <1>8, <1>9 DEF SameOwnLines
  <1> QED
    BY <1>10 DEF m

\* A file that passes validateExistingManagerConfig binds the AMI to no other address once
\* the section is replaced.
LEMMA ManagedIsLocal ==
  ASSUME NEW text \in Seq(Lines), Shape(text),
         \A i \in DOMAIN text : text[i] = "external" => InManaged(text, i)
  PROVE  \A i \in DOMAIN Managed(text) : Managed(text)[i] # "external"
  <1> DEFINE m == Managed(text)
             n == Len(text)
  <1>1. PICK P, S \in Nat : Kept(text, m, P, S)
    BY ManagedKeeps
  <1>2. m \in Seq(Lines) /\ n \in Nat /\ DOMAIN text = 1..n
    BY ManagedType
  <1> HIDE DEF m
  <1>3. \A i \in 1..P \union (n - S + 1)..n : i \in 1..n => text[i] # "external"
    BY <1>1, <1>2, KeptLines
  <1>4. DOMAIN m = 1..(P + 3 + S) /\ P + S <= n
    <2>1. Len(m) = P + 3 + S /\ P + S <= n
      BY <1>1 DEF Kept
    <2> QED
      BY <1>2, <2>1
  <1>5. ASSUME NEW i \in 1..P PROVE m[i] # "external"
    <2>1. m[i] = text[i]
      BY <1>1 DEF Kept
    <2>2. i \in 1..n
      BY <1>2, <1>4
    <2> QED
      BY <1>3, <2>1, <2>2
  <1>6. ASSUME NEW i \in (P + 4)..(P + 3 + S) PROVE m[i] # "external"
    <2>1. m[i] = text[i + n - P - 3 - S]
      BY <1>1 DEF Kept
    <2>2. i + n - P - 3 - S \in (n - S + 1)..n /\ i + n - P - 3 - S \in 1..n
      BY <1>2, <1>4
    <2> QED
      BY <1>3, <2>1, <2>2
  <1>7. m[P + 1] # "external" /\ m[P + 2] # "external" /\ m[P + 3] # "external"
    BY <1>1 DEF Kept
  <1>8. \A i \in 1..(P + 3 + S) : i \in 1..P \/ i \in (P + 4)..(P + 3 + S)
                                  \/ i = P + 1 \/ i = P + 2 \/ i = P + 3
    OBVIOUS
  <1> QED
    BY <1>4, <1>5, <1>6, <1>7, <1>8 DEF m

\* A text that is cut short stays well shaped, and so does one the operator adds to.
LEMMA ShapeCut ==
  ASSUME NEW text \in Seq(Lines), Shape(text), NEW c \in Cut(text)
  PROVE  Shape(c.text)
  <1>1. PICK n \in 0..(Len(text) - 1) : c = Written(SubSeq(text, 1, n))
    BY DEF Cut
  <1> DEFINE cut == SubSeq(text, 1, n)
  <1>2. c.text = cut
    BY <1>1 DEF Written
  <1>3. /\ DOMAIN cut = 1..n /\ 1..n \subseteq DOMAIN text
        /\ \A i \in 1..n : cut[i] = text[i] /\ (i > 1 => i - 1 \in 1..n)
    OBVIOUS
  <1> HIDE DEF cut
  <1>4. Shape(cut)
    BY <1>3 DEF Shape
  <1> QED
    BY <1>2, <1>4

\* As above.
LEMMA ShapeAppend ==
  ASSUME NEW text \in Seq(Lines), Shape(text), NEW line \in {"local", "external"}
  PROVE  Shape(Append(text, line))
  <1> DEFINE new == Append(text, line)
             n == Len(text)
  <1>1. /\ n \in Nat /\ DOMAIN text = 1..n /\ DOMAIN new = 1..(n + 1) /\ new[n + 1] = line
        /\ \A i \in 1..n : new[i] = text[i]
    OBVIOUS
  <1> HIDE DEF new
  <1>2. \A i \in 1..(n + 1) : new[i] \in {"begin", "body", "end"} => i \in 1..n
    BY <1>1
  <1>3. \A i \in 1..n : i > 1 => i - 1 \in 1..n
    BY <1>1
  <1>4. Shape(new)
    BY <1>1, <1>2, <1>3 DEF Shape
  <1> QED
    BY <1>4 DEF new

-----------------------------------------------------------------------------
(* Lemmas: the steps.                                                       *)

USE DEF Then, Fails, Undone, UndoneOther

\* Lines written to a configuration file make a host.
LEMMA ConfigWritten ==
  ASSUME HostTypeOK, NEW p \in Paths, NEW c \in Configs
  PROVE  [host EXCEPT !.configs[p] = c] \in Hosts
  BY DEF HostTypeOK, Hosts

\* The managed section in a configuration file, or a part of it.
LEMMA ManagedWritten ==
  ASSUME HostTypeOK, NEW p \in Paths
  PROVE  /\ Written(Managed(host.configs[p].text)) \in Configs
         /\ \A c \in Cut(Managed(host.configs[p].text)) : c \in Configs
  <1>1. host.configs[p].text \in Seq(Lines)
    BY DEF HostTypeOK, Hosts, Configs
  <1>2. Managed(host.configs[p].text) \in Seq(Lines)
    BY <1>1, ManagedType
  <1> QED
    BY <1>2, CutType DEF Written, Configs

\* The package brings its configuration files.
LEMMA UnpackedType ==
  ASSUME HostTypeOK, NEW own \in {"local", "external"}
  PROVE  /\ Unpacked(host, own) \in Hosts
         /\ Unpacked(host, own).package
         /\ Unpacked(host, own).bundle = host.bundle
  <1>1. Written(<<own>>) \in Configs
    <2>1. <<own>> \in Seq(Lines)
      BY DEF Lines
    <2> QED
      BY <2>1 DEF Written, Configs
  <1>2. [p \in Paths |-> IF host.configs[p].exists THEN host.configs[p]
                         ELSE Written(<<own>>)] \in [Paths -> Configs]
    BY <1>1 DEF HostTypeOK, Hosts
  <1> QED
    BY <1>2 DEF Unpacked, HostTypeOK, Hosts, Loaded

\* Every step keeps the types.
LEMMA TypeStep ==
  ASSUME TypeInv, [Next]_vars
  PROVE  TypeInv'
  <1> USE DEF TypeInv
  <1>1. CASE UNCHANGED vars
    BY <1>1 DEF vars, RunTypeOK, HostTypeOK, SnapTypeOK
  <1>2. CASE Snapshot
    <2>1. RunTypeOK'
      <3>1. runs' \in 0..MaxRuns
        <4>1. runs \in 0..MaxRuns
          BY DEF RunTypeOK
        <4>2. runs < MaxRuns /\ runs' = runs + 1
          BY <1>2 DEF Snapshot
        <4> HIDE DEF TypeInv
        <4> QED
          BY <4>1, <4>2, BoundsAssumption
      <3>2. pc' \in Steps \union Undo \union {"idle"}
        BY <1>2 DEF Snapshot, Steps
      <3> QED
        BY <1>2, <3>1, <3>2 DEF Snapshot, RunTypeOK
    <2>2. HostTypeOK' /\ before' \in Hosts
      BY <1>2 DEF Snapshot, HostTypeOK
    <2>3. snap' \in Hosts
      <3>1. CASE UNCHANGED snap
        BY <3>1 DEF SnapTypeOK
      <3>2. CASE \E package \in Answers(host.package), enabled \in Answers(host.enabled),
                    active \in Answers(host.active) :
                     snap' = [host EXCEPT !.package = package, !.enabled = enabled,
                                          !.active = active]
        <4>1. \A fact \in BOOLEAN : Answers(fact) \subseteq BOOLEAN
          BY DEF Answers
        <4> QED
          BY <3>2, <4>1 DEF HostTypeOK, Hosts
      <3> QED
        BY <1>2, <3>1, <3>2 DEF Snapshot
    <2> QED
      BY <2>1, <2>2, <2>3 DEF SnapTypeOK
  <1>3. CASE InstallPackage
    <2>1. RunTypeOK' /\ SnapTypeOK'
      BY <1>3 DEF InstallPackage, RunTypeOK, SnapTypeOK, Steps
    <2>2. HostTypeOK'
      BY <1>3, UnpackedType DEF InstallPackage, HostTypeOK
    <2> QED
      BY <2>1, <2>2
  <1>4. ASSUME NEW p \in Paths, NEW next \in {"extensions", "bundle"}, WriteConfig(p, next)
        PROVE  TypeInv'
    <2>1. RunTypeOK' /\ SnapTypeOK'
      BY <1>4 DEF WriteConfig, RunTypeOK, SnapTypeOK, Steps, Paths, Undo
    <2>2. host' \in Hosts
      <3>1. CASE host' = [host EXCEPT !.configs[p] = Written(Managed(@.text))]
        <4>1. host' = [host EXCEPT !.configs[p] = Written(Managed(host.configs[p].text))]
          BY <3>1 DEF HostTypeOK, Hosts
        <4> QED
          BY <4>1, ManagedWritten, ConfigWritten
      <3>2. CASE CutShort(p, Managed(host.configs[p].text))
        BY <3>2, ManagedWritten, ConfigWritten DEF CutShort
      <3>3. CASE UNCHANGED host
        BY <3>3 DEF HostTypeOK
      <3> QED
        BY <1>4, <3>1, <3>2, <3>3 DEF WriteConfig
    <2> QED
      BY <2>1, <2>2 DEF HostTypeOK
  <1>5. CASE CreateBundle \/ Enable \/ Restart \/ VerifyAMI
    <2>1. RunTypeOK' /\ SnapTypeOK'
      BY <1>5 DEF CreateBundle, Enable, Restart, VerifyAMI, RunTypeOK, SnapTypeOK, Steps, Undo
    <2>2. HostTypeOK'
      BY <1>5 DEF CreateBundle, Enable, Restart, VerifyAMI, HostTypeOK, Hosts, Bundles, Loaded
    <2> QED
      BY <2>1, <2>2
  <1>6. CASE RestoreBundle \/ RestoreActive \/ RestoreEnabled \/ RestorePackage
    <2>1. RunTypeOK' /\ SnapTypeOK'
      BY <1>6 DEF RestoreBundle, RestoreActive, RestoreEnabled, RestorePackage, RunTypeOK,
                  SnapTypeOK, Undo
    <2>2. HostTypeOK'
      BY <1>6 DEF RestoreBundle, RestoreActive, RestoreEnabled, RestorePackage, HostTypeOK,
                  SnapTypeOK, Hosts, Bundles, Loaded
    <2> QED
      BY <2>1, <2>2
  <1>7. CASE RestoreConfig
    <2>1. RunTypeOK' /\ SnapTypeOK'
      BY <1>7 DEF RestoreConfig, RunTypeOK, SnapTypeOK, Undo
    <2>2. host' \in Hosts
      <3>1. PICK p \in Paths : \/ host' = [host EXCEPT !.configs[p] = snap.configs[p]]
                               \/ UNCHANGED host
                               \/ CutShort(p, snap.configs[p].text)
        BY <1>7 DEF RestoreConfig, RunTypeOK
      <3>2. snap.configs[p] \in Configs /\ snap.configs[p].text \in Seq(Lines)
        BY DEF SnapTypeOK, Hosts, Configs
      <3> QED
        BY <3>1, <3>2, CutType, ConfigWritten DEF CutShort, HostTypeOK
    <2> QED
      BY <2>1, <2>2 DEF HostTypeOK
  <1>8. CASE Kill
    <2>1. RunTypeOK' /\ SnapTypeOK'
      BY <1>8 DEF Kill, RunTypeOK, SnapTypeOK
    <2>2. HostTypeOK'
      BY <1>8, ManagedWritten, ConfigWritten DEF Kill, CutShort, HostTypeOK
    <2> QED
      BY <2>1, <2>2
  <1>9. CASE Edit
    <2>1. RunTypeOK' /\ SnapTypeOK'
      BY <1>9 DEF Edit, RunTypeOK, SnapTypeOK
    <2>2. host' \in Hosts
      <3>1. PICK line \in {"local", "external"} :
                host' = [host EXCEPT !.configs["manager"].text = Append(@, line)]
        BY <1>9 DEF Edit
      <3>2. Append(host.configs["manager"].text, line) \in Seq(Lines)
        BY DEF HostTypeOK, Hosts, Configs, Paths, Lines
      <3> QED
        BY <3>1, <3>2 DEF HostTypeOK, Hosts, Configs, Paths
    <2> QED
      BY <2>1, <2>2 DEF HostTypeOK
  <1> QED
    BY <1>1, <1>2, <1>3, <1>4, <1>5, <1>6, <1>7, <1>8, <1>9 DEF Next, Paths

\* The snapshot is the host.
LEMMA SnapshotUndo ==
  ASSUME TypeInv, TypeInv', UndoneInv, ~QueriesFail, Snapshot
  PROVE  UndoneInv'
  <1>1. host' = host /\ ~ours' /\ undone' /\ before' = host
    BY DEF Snapshot
  <1>2. \/ pc' = "idle" /\ stage' = "snapshot" /\ result' = "failed" /\ snap' = snap
        \/ snap' = host /\ result' = "none" /\ pc' = IF host.package THEN "manager" ELSE "package"
    <2>1. \A fact : Answers(fact) = {fact}
      BY DEF Answers
    <2>2. [host EXCEPT !.package = host.package, !.enabled = host.enabled,
                       !.active = host.active] = host
      BY DEF TypeInv, HostTypeOK, Hosts
    <2> QED
      BY <2>1, <2>2 DEF Snapshot
  <1>3. host.enabled \/ host.active => host.package
    BY DEF UndoneInv, PackageInv
  <1>4. host.package \in BOOLEAN
    BY DEF TypeInv, HostTypeOK, Hosts
  <1>5. PackageInv'
    BY <1>1, <1>3 DEF PackageInv
  <1>6. SnapInv'
    BY <1>1, <1>2 DEF SnapInv
  <1>7. OursInv'
    BY <1>1, <1>2, <1>3, <1>4 DEF OursInv
  <1>8. UndoInv' /\ StageInv'
    BY <1>2 DEF UndoInv, StageInv, After
  <1>9. RollbackRestoresHost'
    BY <1>1, <1>2 DEF RollbackRestoresHost, RolledBack
  <1> QED
    BY <1>5, <1>6, <1>7, <1>8, <1>9 DEF UndoneInv

\* Who installs the package has found none.
LEMMA InstallPackageUndo ==
  ASSUME TypeInv, TypeInv', UndoneInv, ~QueriesFail, InstallPackage
  PROVE  UndoneInv'
  <1> USE DEF TypeInv, UndoneInv, InstallPackage
  <1>1. PackageInv'
    <2>1. UNCHANGED host \/ host'.package
      BY UnpackedType
    <2> QED
      BY <2>1 DEF PackageInv
  <1>2. SnapInv'
    BY UnpackedType DEF SnapInv, HostTypeOK, SnapTypeOK, Hosts, Unpacked, Loaded
  <1>3. OursInv'
    <2>1. CASE pc' = "idle"
      BY <2>1 DEF OursInv
    <2>2. CASE pc' = "manager" /\ ours' = TRUE /\ host'.package
      <3>1. ~snap.package /\ ~snap.enabled /\ ~snap.active
        BY DEF SnapInv, PackageInv
      <3> QED
        BY <2>2, <3>1 DEF OursInv
    <2> QED
      BY <2>1, <2>2, UnpackedType
  <1>4. UndoInv'
    BY UnpackedType DEF UndoInv, OursInv, StageInv, After, RunTypeOK, HostTypeOK, SnapTypeOK,
       Hosts, Unpacked, Loaded
  <1>5. StageInv'
    BY UnpackedType DEF StageInv, RunTypeOK, Paths, Unpacked, Loaded
  <1>6. RollbackRestoresHost'
    BY UnpackedType DEF RollbackRestoresHost, RolledBack, UndoInv, OursInv, SnapInv, StageInv,
       After,
       RunTypeOK, HostTypeOK, SnapTypeOK, Hosts, Unpacked, Loaded
  <1> QED
    BY <1>1, <1>2, <1>3, <1>4, <1>5, <1>6

\* A configuration file is in the snapshot.
LEMMA WriteConfigUndo ==
  ASSUME TypeInv, TypeInv', UndoneInv, ~QueriesFail, NEW p \in Paths, NEW next \in {"extensions",
         "bundle"}, WriteConfig(p, next)
  PROVE  UndoneInv'
  <1> USE DEF TypeInv, UndoneInv, WriteConfig
  <1>1. PackageInv'
    BY DEF PackageInv, OursInv, HostTypeOK, SnapTypeOK, Hosts, CutShort, Cut, Paths
  <1>2. SnapInv'
    BY DEF SnapInv, HostTypeOK, SnapTypeOK, Hosts, CutShort, Cut, Paths
  <1>3. OursInv'
    BY DEF OursInv, SnapInv, PackageInv, RunTypeOK, HostTypeOK, SnapTypeOK, Hosts, CutShort, Cut,
       Paths
  <1>4. UndoInv'
    BY DEF UndoInv, OursInv, StageInv, After, RunTypeOK, HostTypeOK, SnapTypeOK, Hosts, CutShort,
       Cut, Paths
  <1>5. StageInv'
    BY DEF StageInv, RunTypeOK, Paths, CutShort, Cut
  <1>6. RollbackRestoresHost'
    BY DEF RollbackRestoresHost, RolledBack, UndoInv, OursInv, SnapInv, StageInv, After,
       RunTypeOK, HostTypeOK, SnapTypeOK, Hosts, CutShort, Cut, Paths
  <1> QED
    BY <1>1, <1>2, <1>3, <1>4, <1>5, <1>6

\* So is the bundle.
LEMMA CreateBundleUndo ==
  ASSUME TypeInv, TypeInv', UndoneInv, ~QueriesFail, CreateBundle
  PROVE  UndoneInv'
  <1> USE DEF TypeInv, UndoneInv, CreateBundle
  <1>1. PackageInv'
    BY DEF PackageInv, OursInv, HostTypeOK, SnapTypeOK, Hosts
  <1>2. SnapInv'
    BY DEF SnapInv, HostTypeOK, SnapTypeOK, Hosts
  <1>3. OursInv'
    BY DEF OursInv, SnapInv, PackageInv, RunTypeOK, HostTypeOK, SnapTypeOK, Hosts
  <1>4. UndoInv'
    BY DEF UndoInv, OursInv, StageInv, After, RunTypeOK, HostTypeOK, SnapTypeOK, Hosts
  <1>5. StageInv'
    BY DEF StageInv, RunTypeOK, Paths
  <1>6. RollbackRestoresHost'
    BY DEF RollbackRestoresHost, RolledBack, UndoInv, OursInv, SnapInv, StageInv, After,
       RunTypeOK, HostTypeOK, SnapTypeOK, Hosts
  <1> QED
    BY <1>1, <1>2, <1>3, <1>4, <1>5, <1>6

\* And the service.
LEMMA EnableUndo ==
  ASSUME TypeInv, TypeInv', UndoneInv, ~QueriesFail, Enable
  PROVE  UndoneInv'
  <1> USE DEF TypeInv, UndoneInv, Enable
  <1>1. PackageInv'
    BY DEF PackageInv, OursInv, HostTypeOK, SnapTypeOK, Hosts
  <1>2. SnapInv'
    BY DEF SnapInv, HostTypeOK, SnapTypeOK, Hosts
  <1>3. OursInv'
    BY DEF OursInv, SnapInv, PackageInv, RunTypeOK, HostTypeOK, SnapTypeOK, Hosts
  <1>4. UndoInv'
    BY DEF UndoInv, OursInv, StageInv, After, RunTypeOK, HostTypeOK, SnapTypeOK, Hosts
  <1>5. StageInv'
    BY DEF StageInv, RunTypeOK, Paths
  <1>6. RollbackRestoresHost'
    BY DEF RollbackRestoresHost, RolledBack, UndoInv, OursInv, SnapInv, StageInv, After,
       RunTypeOK, HostTypeOK, SnapTypeOK, Hosts
  <1> QED
    BY <1>1, <1>2, <1>3, <1>4, <1>5, <1>6

\* A service that runs has its package.
LEMMA RestartUndo ==
  ASSUME TypeInv, TypeInv', UndoneInv, ~QueriesFail, Restart
  PROVE  UndoneInv'
  <1> USE DEF TypeInv, UndoneInv, Restart
  <1>1. PackageInv'
    BY DEF PackageInv, OursInv, HostTypeOK, SnapTypeOK, Hosts
  <1>2. SnapInv'
    BY DEF SnapInv, HostTypeOK, SnapTypeOK, Hosts
  <1>3. OursInv'
    BY DEF OursInv, SnapInv, PackageInv, RunTypeOK, HostTypeOK, SnapTypeOK, Hosts
  <1>4. UndoInv'
    BY DEF UndoInv, OursInv, StageInv, After, RunTypeOK, HostTypeOK, SnapTypeOK, Hosts
  <1>5. StageInv'
    BY DEF StageInv, RunTypeOK, Paths
  <1>6. RollbackRestoresHost'
    BY DEF RollbackRestoresHost, RolledBack, UndoInv, OursInv, SnapInv, StageInv, After,
       RunTypeOK, HostTypeOK, SnapTypeOK, Hosts
  <1> QED
    BY <1>1, <1>2, <1>3, <1>4, <1>5, <1>6

\* A failed verification is undone like a failed step.
LEMMA VerifyAMIUndo ==
  ASSUME TypeInv, TypeInv', UndoneInv, ~QueriesFail, VerifyAMI
  PROVE  UndoneInv'
  <1> USE DEF TypeInv, UndoneInv, VerifyAMI
  <1>1. PackageInv'
    BY DEF PackageInv, OursInv, HostTypeOK, SnapTypeOK, Hosts
  <1>2. SnapInv'
    BY DEF SnapInv, HostTypeOK, SnapTypeOK, Hosts
  <1>3. OursInv'
    BY DEF OursInv, SnapInv, PackageInv, RunTypeOK, HostTypeOK, SnapTypeOK, Hosts
  <1>4. UndoInv'
    BY DEF UndoInv, OursInv, StageInv, After, RunTypeOK, HostTypeOK, SnapTypeOK, Hosts
  <1>5. StageInv'
    BY DEF StageInv, RunTypeOK, Paths
  <1>6. RollbackRestoresHost'
    BY DEF RollbackRestoresHost, RolledBack, UndoInv, OursInv, SnapInv, StageInv, After,
       RunTypeOK, HostTypeOK, SnapTypeOK, Hosts
  <1> QED
    BY <1>1, <1>2, <1>3, <1>4, <1>5, <1>6

\* The bundle is back, or the rollback is not clean.
LEMMA RestoreBundleUndo ==
  ASSUME TypeInv, TypeInv', UndoneInv, ~QueriesFail, RestoreBundle
  PROVE  UndoneInv'
  <1> USE DEF TypeInv, UndoneInv, RestoreBundle
  <1>1. PackageInv'
    BY DEF PackageInv, OursInv, HostTypeOK, SnapTypeOK, Hosts
  <1>2. SnapInv'
    BY DEF SnapInv, HostTypeOK, SnapTypeOK, Hosts
  <1>3. OursInv'
    BY DEF OursInv, SnapInv, PackageInv, RunTypeOK, HostTypeOK, SnapTypeOK, Hosts
  <1>4. UndoInv'
    BY DEF UndoInv, OursInv, StageInv, After, RunTypeOK, HostTypeOK, SnapTypeOK, Hosts
  <1>5. StageInv'
    BY DEF StageInv, RunTypeOK, Paths
  <1>6. RollbackRestoresHost'
    BY DEF RollbackRestoresHost, RolledBack, UndoInv, OursInv, SnapInv, StageInv, After,
       RunTypeOK, HostTypeOK, SnapTypeOK, Hosts
  <1> QED
    BY <1>1, <1>2, <1>3, <1>4, <1>5, <1>6

\* So are the files, one after the other.
LEMMA RestoreConfigUndo ==
  ASSUME TypeInv, TypeInv', UndoneInv, ~QueriesFail, RestoreConfig
  PROVE  UndoneInv'
  <1> USE DEF TypeInv, UndoneInv, RestoreConfig
  <1>1. PackageInv'
    BY DEF PackageInv, OursInv, HostTypeOK, SnapTypeOK, Hosts, CutShort, Cut, Paths
  <1>2. SnapInv'
    BY DEF SnapInv, HostTypeOK, SnapTypeOK, Hosts, CutShort, Cut, Paths
  <1>3. OursInv'
    BY DEF OursInv, SnapInv, PackageInv, RunTypeOK, HostTypeOK, SnapTypeOK, Hosts, CutShort, Cut,
       Paths
  <1>4. UndoInv'
    <2>1. PICK p \in left :
              /\ left' = left \ {p} /\ UNCHANGED snap
              /\ pc' = IF left = {p} THEN "undoActive" ELSE "undoConfigs"
              /\ \/ /\ undone' = undone
                    /\ host' = [host EXCEPT !.configs[p] = snap.configs[p]]
                 \/ ~undone'
      BY DEF RunTypeOK
    <2>2. CASE ~undone'
      BY <2>2 DEF UndoInv
    <2>3. CASE undone' = undone /\ host' = [host EXCEPT !.configs[p] = snap.configs[p]]
      <3>1. p \in Paths /\ left \subseteq Paths /\ pc = "undoConfigs"
        BY <2>1 DEF RunTypeOK
      <3>2. /\ host.configs \in [Paths -> Configs] /\ snap.configs \in [Paths -> Configs]
            /\ host'.configs = [host.configs EXCEPT ![p] = snap.configs[p]]
            /\ host'.bundle = host.bundle
        BY <2>3 DEF HostTypeOK, SnapTypeOK, Hosts
      <3>3. undone => /\ host.bundle = snap.bundle
                      /\ \A q \in Paths \ left' : host'.configs[q] = snap.configs[q]
        BY <2>1, <3>1, <3>2 DEF UndoInv, After
      <3>4. undone /\ left' = {} => host'.configs = snap.configs
        BY <3>2, <3>3
      <3> QED
        BY <2>1, <2>3, <3>2, <3>3, <3>4 DEF UndoInv, After
    <2> QED
      BY <2>1, <2>2, <2>3
  <1>5. StageInv'
    BY DEF StageInv, RunTypeOK, Paths, CutShort, Cut
  <1>6. RollbackRestoresHost'
    BY DEF RollbackRestoresHost, RolledBack, UndoInv, OursInv, SnapInv, StageInv, After,
       RunTypeOK, HostTypeOK, SnapTypeOK, Hosts, CutShort, Cut, Paths
  <1> QED
    BY <1>1, <1>2, <1>3, <1>4, <1>5, <1>6

\* A service that did not run is stopped.
LEMMA RestoreActiveUndo ==
  ASSUME TypeInv, TypeInv', UndoneInv, ~QueriesFail, RestoreActive
  PROVE  UndoneInv'
  <1> USE DEF TypeInv, UndoneInv, RestoreActive
  <1>1. PackageInv'
    BY DEF PackageInv, OursInv, HostTypeOK, SnapTypeOK, Hosts
  <1>2. SnapInv'
    BY DEF SnapInv, HostTypeOK, SnapTypeOK, Hosts
  <1>3. OursInv'
    BY DEF OursInv, SnapInv, PackageInv, RunTypeOK, HostTypeOK, SnapTypeOK, Hosts
  <1>4. UndoInv'
    BY DEF UndoInv, OursInv, StageInv, After, RunTypeOK, HostTypeOK, SnapTypeOK, Hosts
  <1>5. StageInv'
    BY DEF StageInv, RunTypeOK, Paths
  <1>6. RollbackRestoresHost'
    BY DEF RollbackRestoresHost, RolledBack, UndoInv, OursInv, SnapInv, StageInv, After,
       RunTypeOK, HostTypeOK, SnapTypeOK, Hosts
  <1> QED
    BY <1>1, <1>2, <1>3, <1>4, <1>5, <1>6

\* A service that was not enabled is disabled.
LEMMA RestoreEnabledUndo ==
  ASSUME TypeInv, TypeInv', UndoneInv, ~QueriesFail, RestoreEnabled
  PROVE  UndoneInv'
  <1> USE DEF TypeInv, UndoneInv, RestoreEnabled
  <1>1. PackageInv'
    BY DEF PackageInv, OursInv, HostTypeOK, SnapTypeOK, Hosts
  <1>2. SnapInv'
    BY DEF SnapInv, HostTypeOK, SnapTypeOK, Hosts
  <1>3. OursInv'
    BY DEF OursInv, SnapInv, PackageInv, RunTypeOK, HostTypeOK, SnapTypeOK, Hosts
  <1>4. UndoInv'
    BY DEF UndoInv, OursInv, StageInv, After, RunTypeOK, HostTypeOK, SnapTypeOK, Hosts
  <1>5. StageInv'
    BY DEF StageInv, RunTypeOK, Paths
  <1>6. RollbackRestoresHost'
    BY DEF RollbackRestoresHost, RolledBack, UndoInv, OursInv, SnapInv, StageInv, After,
       RunTypeOK, HostTypeOK, SnapTypeOK, Hosts
  <1> QED
    BY <1>1, <1>2, <1>3, <1>4, <1>5, <1>6

\* A package that was not there goes, and its service with it.
LEMMA RestorePackageUndo ==
  ASSUME TypeInv, TypeInv', UndoneInv, ~QueriesFail, RestorePackage
  PROVE  UndoneInv'
  <1> USE DEF TypeInv, UndoneInv, RestorePackage
  <1>1. PackageInv'
    BY DEF PackageInv, OursInv, HostTypeOK, SnapTypeOK, Hosts
  <1>2. SnapInv'
    BY DEF SnapInv, HostTypeOK, SnapTypeOK, Hosts
  <1>3. OursInv'
    BY DEF OursInv, SnapInv, PackageInv, RunTypeOK, HostTypeOK, SnapTypeOK, Hosts
  <1>4. UndoInv'
    BY DEF UndoInv, OursInv, StageInv, After, RunTypeOK, HostTypeOK, SnapTypeOK, Hosts
  <1>5. StageInv'
    BY DEF StageInv, RunTypeOK, Paths
  <1>6. RollbackRestoresHost'
    BY DEF RollbackRestoresHost, RolledBack, UndoInv, OursInv, SnapInv, StageInv, After,
       RunTypeOK, HostTypeOK, SnapTypeOK, Hosts
  <1> QED
    BY <1>1, <1>2, <1>3, <1>4, <1>5, <1>6

\* A killed run has not failed.
LEMMA KillUndo ==
  ASSUME TypeInv, TypeInv', UndoneInv, ~QueriesFail, Kill
  PROVE  UndoneInv'
  <1> USE DEF TypeInv, UndoneInv, Kill
  <1>1. PackageInv'
    BY DEF PackageInv, OursInv, HostTypeOK, SnapTypeOK, Hosts, CutShort, Cut, Paths
  <1>2. SnapInv'
    BY DEF SnapInv, HostTypeOK, SnapTypeOK, Hosts, CutShort, Cut, Paths
  <1>3. OursInv'
    BY DEF OursInv, SnapInv, PackageInv, RunTypeOK, HostTypeOK, SnapTypeOK, Hosts, CutShort, Cut,
       Paths
  <1>4. UndoInv'
    BY DEF UndoInv, OursInv, StageInv, After, RunTypeOK, HostTypeOK, SnapTypeOK, Hosts, CutShort,
       Cut, Paths
  <1>5. StageInv'
    BY DEF StageInv, RunTypeOK, Paths, CutShort, Cut
  <1>6. RollbackRestoresHost'
    BY DEF RollbackRestoresHost, RolledBack, UndoInv, OursInv, SnapInv, StageInv, After,
       RunTypeOK, HostTypeOK, SnapTypeOK, Hosts, CutShort, Cut, Paths
  <1> QED
    BY <1>1, <1>2, <1>3, <1>4, <1>5, <1>6

\* The operator's edit is no failure either.
LEMMA EditUndo ==
  ASSUME TypeInv, TypeInv', UndoneInv, ~QueriesFail, Edit
  PROVE  UndoneInv'
  <1> USE DEF TypeInv, UndoneInv, Edit
  <1>1. PackageInv'
    BY DEF PackageInv, OursInv, HostTypeOK, SnapTypeOK, Hosts, Paths
  <1>2. SnapInv'
    BY DEF SnapInv, HostTypeOK, SnapTypeOK, Hosts, Paths
  <1>3. OursInv'
    BY DEF OursInv, SnapInv, PackageInv, RunTypeOK, HostTypeOK, SnapTypeOK, Hosts, Paths
  <1>4. UndoInv'
    BY DEF UndoInv, OursInv, StageInv, After, RunTypeOK, HostTypeOK, SnapTypeOK, Hosts, Paths
  <1>5. StageInv'
    BY DEF StageInv, RunTypeOK, Paths, Paths
  <1>6. RollbackRestoresHost'
    BY DEF RollbackRestoresHost, RolledBack, UndoInv, OursInv, SnapInv, StageInv, After,
       RunTypeOK, HostTypeOK, SnapTypeOK, Hosts, Paths
  <1> QED
    BY <1>1, <1>2, <1>3, <1>4, <1>5, <1>6

-----------------------------------------------------------------------------
(* Lemmas: a run that succeeds.                                             *)

\* A file is configured as long as it, and what there was before, stays.
LEMMA ConfiguredKept ==
  ASSUME NEW p \in Paths, host'.configs[p] = host.configs[p], UNCHANGED before, Configured(p)
  PROVE  Configured(p)'
  BY DEF Configured

\* Writing or cutting one file keeps the shape of all of them.
LEMMA ShapeOfFiles ==
  ASSUME TypeInv, ShapeInv, NEW p \in Paths, NEW c, Shape(c.text),
         host' = [host EXCEPT !.configs[p] = c]
  PROVE  \A q \in Paths : Shape(host'.configs[q].text)
  <1>1. host.configs \in [Paths -> Configs] /\ host'.configs = [host.configs EXCEPT ![p] = c]
    BY DEF TypeInv, HostTypeOK, Hosts
  <1>2. \A q \in Paths : host'.configs[q] = IF q = p THEN c ELSE host.configs[q]
    BY <1>1
  <1> QED
    BY <1>2 DEF ShapeInv

\* What writeManagedConfigs writes, or begins to write.
LEMMA WriteShape ==
  ASSUME TypeInv, ShapeInv, NEW p \in Paths
  PROVE  LET text == host.configs[p].text IN
         /\ text \in Seq(Lines) /\ Shape(text) /\ Managed(text) \in Seq(Lines)
         /\ Shape(Written(Managed(text)).text)
         /\ \A c \in Cut(Managed(text)) : Shape(c.text)
  <1> DEFINE text == host.configs[p].text
  <1>1. text \in Seq(Lines)
    BY DEF TypeInv, HostTypeOK, Hosts, Configs
  <1>2. Shape(text)
    BY DEF ShapeInv
  <1> HIDE DEF text
  <1>3. Managed(text) \in Seq(Lines) /\ Shape(Managed(text))
    BY <1>1, <1>2, ManagedType, ManagedIsWhole
  <1>4. Written(Managed(text)).text = Managed(text)
    BY DEF Written
  <1>5. \A c \in Cut(Managed(text)) : Shape(c.text)
    BY <1>3, ShapeCut
  <1> QED
    BY <1>1, <1>2, <1>3, <1>4, <1>5 DEF text

\* The run has not ended, or has not ended well.
LEMMA NoSuccess ==
  ASSUME TypeInv, WrittenInv, result' # "installed"
  PROVE  SuccessMeansConfigured'
  BY DEF SuccessMeansConfigured

\* The snapshot finds every file unwritten.
LEMMA SnapshotWritten ==
  ASSUME TypeInv, WrittenInv, Snapshot
  PROVE  WrittenInv'
  <1>1. host' = host /\ before' = host /\ result' # "installed"
    BY DEF Snapshot
  <1>2. \/ pc' = "idle" /\ snap' = snap
        \/ /\ snap'.configs = host.configs /\ result' = "none"
           /\ pc' \in {"package", "manager"} /\ (pc' = "manager" => host.package)
    <2>1. CASE pc' = "idle" /\ snap' = snap
      BY <2>1
    <2>2. ASSUME NEW package \in Answers(host.package), NEW enabled \in Answers(host.enabled),
                 NEW active \in Answers(host.active),
                 snap' = [host EXCEPT !.package = package, !.enabled = enabled, !.active = active],
                 pc' = IF package THEN "manager" ELSE "package", result' = "none"
          PROVE  /\ snap'.configs = host.configs
                 /\ pc' \in {"package", "manager"} /\ (pc' = "manager" => host.package)
      <3>1. snap'.configs = host.configs
        BY <2>2 DEF TypeInv, HostTypeOK, Hosts
      <3>2. package \in {host.package, FALSE}
        BY DEF Answers
      <3> QED
        BY <2>2, <3>1, <3>2
    <2> QED
      BY <2>1, <2>2 DEF Snapshot
  <1>3. ShapeInv'
    BY <1>1, <1>2 DEF WrittenInv, ShapeInv
  <1>4. FilesInv'
    <2>1. pc' \in {"idle", "package", "manager"}
      BY <1>2
    <2>2. \A p \in Paths : {"package", "manager"} \subseteq Unwritten(p)
      BY DEF Unwritten
    <2>3. \A p \in Paths : ~(pc' \in Steps \ Unwritten(p))
      BY <2>1, <2>2 DEF Steps
    <2> QED
      BY <1>1, <2>3 DEF FilesInv
  <1>5. DoneInv'
    BY <1>1, <1>2 DEF DoneInv, Steps
  <1> QED
    BY <1>1, <1>3, <1>4, <1>5, NoSuccess DEF WrittenInv

\* The package leaves the files there are.
LEMMA InstallPackageWritten ==
  ASSUME TypeInv, WrittenInv, InstallPackage
  PROVE  WrittenInv'
  <1>1. /\ UNCHANGED <<snap, before>> /\ pc = "package"
        /\ \/ pc' = "idle" /\ result' = "failed"
           \/ pc' = "manager" /\ UNCHANGED result
    BY DEF InstallPackage
  <1>2. result' # "installed" /\ result = "none"
    BY <1>1 DEF WrittenInv, DoneInv
  <1>3. ASSUME NEW own \in {"local", "external"}, host' = Unpacked(host, own)
        PROVE  \A p \in Paths : /\ host.configs[p].exists => host'.configs[p] = host.configs[p]
                                /\ Shape(host'.configs[p].text)
    <2>1. CASE host.package
      BY <1>3, <2>1 DEF Unpacked, WrittenInv, ShapeInv
    <2>2. CASE ~host.package
      <3>1. host'.configs = [p \in Paths |-> IF host.configs[p].exists THEN host.configs[p]
                                             ELSE Written(<<own>>)]
        BY <1>3, <2>2 DEF Unpacked, TypeInv, HostTypeOK, Hosts
      <3>2. Written(<<own>>).text = <<own>> /\ Shape(<<own>>)
        BY DEF Written, Shape
      <3> QED
        BY <3>1, <3>2 DEF WrittenInv, ShapeInv
    <2> QED
      BY <2>1, <2>2 DEF TypeInv, HostTypeOK, Hosts
  <1>4. \A p \in Paths : /\ host.configs[p].exists => host'.configs[p] = host.configs[p]
                         /\ Shape(host'.configs[p].text)
    <2>1. CASE UNCHANGED host
      BY <2>1 DEF WrittenInv, ShapeInv
    <2> QED
      BY <1>3, <2>1 DEF InstallPackage
  <1>5. ShapeInv'
    BY <1>1, <1>4 DEF WrittenInv, ShapeInv
  <1>6. FilesInv'
    <2>1. \A p \in Paths : before.configs[p].exists => host.configs[p] = before.configs[p]
      BY <1>1 DEF WrittenInv, FilesInv, Unwritten
    <2>2. \A p \in Paths : before.configs[p].exists => host'.configs[p] = before'.configs[p]
      BY <1>1, <1>4, <2>1
    <2> QED
      BY <1>1, <2>2 DEF FilesInv, Unwritten, Steps
  <1>7. DoneInv'
    <2>1. pc' = "manager" => host'.package
      BY UnpackedType DEF InstallPackage, TypeInv
    <2> QED
      BY <1>1, <1>2, <2>1 DEF DoneInv, Steps
  <1> QED
    BY <1>2, <1>5, <1>6, <1>7, NoSuccess DEF WrittenInv

\* A file that is written holds the section once, beside the lines it held.
LEMMA WriteConfigWritten ==
  ASSUME TypeInv, WrittenInv, NEW p \in Paths, NEW next, WriteConfig(p, next),
         next = IF p = "manager" THEN "extensions" ELSE "bundle"
  PROVE  WrittenInv'
  <1> DEFINE text == host.configs[p].text
  <1>1. pc = p /\ UNCHANGED <<snap, result, before>>
    BY DEF WriteConfig
  <1>2. result = "none" /\ host.package
    BY <1>1 DEF WrittenInv, DoneInv, Paths, Steps
  <1>3. /\ text \in Seq(Lines) /\ Shape(text) /\ Managed(text) \in Seq(Lines)
        /\ Shape(Written(Managed(text)).text)
        /\ \A c \in Cut(Managed(text)) : Shape(c.text)
    BY WriteShape DEF WrittenInv
  <1>4. ASSUME NEW c, host' = [host EXCEPT !.configs[p] = c], Shape(c.text)
        PROVE  ShapeInv' /\ host'.package
    <2>1. host'.package = host.package
      BY <1>4 DEF TypeInv, HostTypeOK, Hosts
    <2>2. \A q \in Paths : Shape(host'.configs[q].text)
      BY <1>4, ShapeOfFiles DEF WrittenInv
    <2> QED
      BY <1>1, <1>2, <2>1, <2>2 DEF ShapeInv, WrittenInv
  <1>5. CASE pc' = "undoBundle"
    <2>1. ShapeInv'
      <3>1. CASE UNCHANGED host
        BY <1>1, <3>1 DEF ShapeInv, WrittenInv
      <3>2. CASE CutShort(p, Managed(text))
        BY <1>3, <1>4, <3>2 DEF CutShort
      <3> QED
        BY <1>5, <3>1, <3>2 DEF WriteConfig
    <2>2. FilesInv' /\ DoneInv'
      BY <1>1, <1>2, <1>5 DEF FilesInv, DoneInv, Unwritten, Steps
    <2> QED
      BY <1>1, <1>2, <2>1, <2>2, NoSuccess DEF WrittenInv
  <1>6. CASE /\ ~Rejects(p) /\ pc' = next
             /\ host' = [host EXCEPT !.configs[p] = Written(Managed(text))]
    <2>1. ShapeInv' /\ host'.package
      BY <1>3, <1>4, <1>6
    <2>2. /\ host'.configs[p].text = Managed(text)
          /\ \A q \in Paths \ {p} : host'.configs[q] = host.configs[q]
      BY <1>6 DEF TypeInv, HostTypeOK, Hosts, Written
    <2>3. Configured(p)'
      <3>1. OneSection(Managed(text))
        BY <1>3, ManagedIsWhole
      <3>2. before.configs[p].exists => SameOwnLines(before.configs[p].text, Managed(text))
        <4>1. before.configs[p].exists => before.configs[p] = host.configs[p]
          BY <1>1 DEF WrittenInv, FilesInv, Unwritten, Paths
        <4>2. SameOwnLines(text, Managed(text))
          BY <1>3, ManagedKeepsOwn
        <4> QED
          BY <4>1, <4>2
      <3>3. p = "manager" => \A i \in DOMAIN Managed(text) : Managed(text)[i] # "external"
        <4>1. p = "manager" => \A i \in DOMAIN text : text[i] = "external" => InManaged(text, i)
          BY <1>6 DEF Rejects
        <4> QED
          BY <1>3, <4>1, ManagedIsLocal
      <3> HIDE DEF text
      <3> QED
        BY <1>1, <2>2, <3>1, <3>2, <3>3 DEF Configured
    <2>4. FilesInv'
      <3>1. CASE p = "manager"
        <4>1. /\ before.configs["extensions"].exists =>
                     host.configs["extensions"] = before.configs["extensions"]
              /\ host'.configs["extensions"] = host.configs["extensions"]
          BY <1>1, <2>2, <3>1 DEF WrittenInv, FilesInv, Unwritten, Paths
        <4>2. pc' = "extensions"
          BY <1>6, <3>1
        <4> QED
          BY <1>1, <2>3, <3>1, <4>1, <4>2 DEF FilesInv, Unwritten, Paths, Steps
      <3>2. CASE p = "extensions"
        <4>1. Configured("manager")
          BY <1>1, <3>2 DEF WrittenInv, FilesInv, Unwritten, Paths, Steps
        <4>2. "manager" \in Paths /\ host'.configs["manager"] = host.configs["manager"]
          BY <2>2, <3>2 DEF Paths
        <4>3. Configured("manager")'
          BY <1>1, <4>1, <4>2, ConfiguredKept
        <4>4. pc' = "bundle"
          BY <1>6, <3>2
        <4> QED
          BY <2>3, <3>2, <4>3, <4>4 DEF FilesInv, Unwritten, Paths
      <3> QED
        BY <3>1, <3>2 DEF Paths
    <2>5. DoneInv'
      BY <1>1, <1>2, <1>6, <2>1 DEF DoneInv
    <2> QED
      BY <1>1, <1>2, <2>1, <2>4, <2>5, NoSuccess DEF WrittenInv
  <1> QED
    <2>1. [host EXCEPT !.configs[p] = Written(Managed(@.text))]
              = [host EXCEPT !.configs[p] = Written(Managed(text))]
      BY DEF TypeInv, HostTypeOK, Hosts
    <2> QED
      BY <1>5, <1>6, <2>1 DEF WriteConfig

\* The steps after the files do not touch them.
LEMMA ServiceWritten ==
  ASSUME TypeInv, WrittenInv, CreateBundle \/ Enable \/ Restart \/ VerifyAMI
  PROVE  WrittenInv'
  <1> USE DEF CreateBundle, Enable, Restart, VerifyAMI
  <1>1. /\ host'.configs = host.configs /\ host'.package = host.package
        /\ UNCHANGED <<snap, before>> /\ pc \in {"bundle", "enable", "restart", "verify"}
    BY DEF TypeInv, HostTypeOK, Hosts
  <1>2. result = "none" /\ host.package /\ \A p \in Paths : Configured(p)
    BY <1>1 DEF WrittenInv, DoneInv, FilesInv, Unwritten, Paths, Steps
  <1>3. \A p \in Paths : Configured(p)'
    BY <1>1, <1>2, ConfiguredKept
  <1>4. ShapeInv'
    BY <1>1 DEF WrittenInv, ShapeInv
  <1>5. FilesInv'
    <2>1. pc' \notin {"package", "manager", "extensions"}
      OBVIOUS
    <2> QED
      BY <1>3, <2>1 DEF FilesInv, Unwritten
  <1>6. DoneInv'
    BY <1>1, <1>2 DEF WrittenInv, DoneInv, TypeInv, HostTypeOK, Hosts, Steps
  <1>7. SuccessMeansConfigured'
    <2>1. SUFFICES ASSUME result' = "installed" PROVE SuccessMeansConfigured'
      BY DEF SuccessMeansConfigured
    <2>2. pc = "verify" /\ LogsIn /\ UNCHANGED host
      BY <1>2, <2>1
    <2> QED
      BY <1>2, <1>3, <2>2 DEF SuccessMeansConfigured, LogsIn, WrittenInv, DoneInv
  <1> QED
    BY <1>4, <1>5, <1>6, <1>7 DEF WrittenInv

\* The rollback of the bundle, of the service and of the package does not touch the files.
LEMMA RestoreWritten ==
  ASSUME TypeInv, WrittenInv, RestoreBundle \/ RestoreActive \/ RestoreEnabled \/ RestorePackage
  PROVE  WrittenInv'
  <1> USE DEF RestoreBundle, RestoreActive, RestoreEnabled, RestorePackage
  <1>1. /\ host'.configs = host.configs /\ UNCHANGED <<snap, before>> /\ pc \in Undo
        /\ \/ pc' \in Undo /\ UNCHANGED result
           \/ pc' = "idle" /\ result' = "failed"
    BY DEF TypeInv, HostTypeOK, Hosts, Undo
  <1>2. result = "none"
    BY <1>1 DEF WrittenInv, DoneInv, Undo
  <1>3. ShapeInv'
    BY <1>1 DEF WrittenInv, ShapeInv
  <1>4. FilesInv' /\ DoneInv'
    BY <1>1, <1>2 DEF FilesInv, DoneInv, Unwritten, Steps, Undo
  <1> QED
    BY <1>1, <1>2, <1>3, <1>4, NoSuccess DEF WrittenInv

\* A file of the snapshot is as well shaped as it was, also when it is cut short.
LEMMA RestoreConfigWritten ==
  ASSUME TypeInv, WrittenInv, RestoreConfig
  PROVE  WrittenInv'
  <1>1. /\ UNCHANGED <<snap, before, result>> /\ pc = "undoConfigs"
        /\ pc' \in {"undoConfigs", "undoActive"}
    BY DEF RestoreConfig
  <1>2. result = "none"
    BY <1>1 DEF WrittenInv, DoneInv
  <1>3. ShapeInv'
    <2>1. PICK p \in Paths : \/ host' = [host EXCEPT !.configs[p] = snap.configs[p]]
                             \/ UNCHANGED host
                             \/ CutShort(p, snap.configs[p].text)
      BY DEF RestoreConfig, TypeInv, RunTypeOK
    <2>2. snap.configs[p].text \in Seq(Lines) /\ Shape(snap.configs[p].text)
      BY DEF TypeInv, SnapTypeOK, Hosts, Configs, WrittenInv, ShapeInv
    <2>3. CASE host' = [host EXCEPT !.configs[p] = snap.configs[p]]
      BY <1>1, <2>2, <2>3, ShapeOfFiles DEF WrittenInv, ShapeInv
    <2>4. CASE UNCHANGED host
      BY <1>1, <2>4 DEF WrittenInv, ShapeInv
    <2>5. CASE CutShort(p, snap.configs[p].text)
      <3>1. PICK c \in Cut(snap.configs[p].text) : host' = [host EXCEPT !.configs[p] = c]
        BY <2>5 DEF CutShort
      <3>2. Shape(c.text)
        BY <2>2, ShapeCut
      <3>3. \A q \in Paths : Shape(host'.configs[q].text)
        BY <3>1, <3>2, ShapeOfFiles DEF WrittenInv
      <3> QED
        BY <1>1, <3>3 DEF WrittenInv, ShapeInv
    <2> QED
      BY <2>1, <2>3, <2>4, <2>5
  <1>4. FilesInv' /\ DoneInv'
    BY <1>1, <1>2 DEF FilesInv, DoneInv, Unwritten, Steps
  <1> QED
    BY <1>1, <1>2, <1>3, <1>4, NoSuccess DEF WrittenInv

\* A killed run may leave a part of what it wrote.
LEMMA KillWritten ==
  ASSUME TypeInv, WrittenInv, Kill
  PROVE  WrittenInv'
  <1>1. UNCHANGED <<snap, before>> /\ pc' = "idle" /\ result' = "killed"
    BY DEF Kill
  <1>2. ShapeInv'
    <2>1. CASE UNCHANGED host
      BY <1>1, <2>1 DEF WrittenInv, ShapeInv
    <2>2. ASSUME NEW p \in Paths, CutShort(p, Managed(host.configs[p].text))
          PROVE  ShapeInv'
      <3>1. PICK c \in Cut(Managed(host.configs[p].text)) : host' = [host EXCEPT !.configs[p] = c]
        BY <2>2 DEF CutShort
      <3>2. Shape(c.text)
        BY WriteShape DEF WrittenInv
      <3>3. \A q \in Paths : Shape(host'.configs[q].text)
        BY <3>1, <3>2, ShapeOfFiles DEF WrittenInv
      <3> QED
        BY <1>1, <3>3 DEF WrittenInv, ShapeInv
    <2> QED
      BY <2>1, <2>2 DEF Kill
  <1>3. FilesInv' /\ DoneInv'
    BY <1>1 DEF FilesInv, DoneInv, Unwritten, Steps
  <1> QED
    BY <1>1, <1>2, <1>3, NoSuccess DEF WrittenInv

\* The operator adds no marker.
LEMMA EditWritten ==
  ASSUME TypeInv, WrittenInv, Edit
  PROVE  WrittenInv'
  <1>1. UNCHANGED <<snap, before, pc>> /\ pc = "idle" /\ result' = "none"
    BY DEF Edit
  <1>2. ShapeInv'
    <2>1. PICK line \in {"local", "external"} :
              host' = [host EXCEPT !.configs["manager"].text = Append(@, line)]
      BY DEF Edit
    <2> DEFINE text == host.configs["manager"].text
    <2>2. text \in Seq(Lines) /\ Shape(text)
      BY DEF TypeInv, HostTypeOK, Hosts, Configs, WrittenInv, ShapeInv, Paths
    <2>3. /\ host'.configs["manager"].text = Append(text, line)
          /\ host'.configs["extensions"] = host.configs["extensions"]
      BY <2>1 DEF TypeInv, HostTypeOK, Hosts, Configs, Paths
    <2>4. Shape(Append(text, line))
      BY <2>2, ShapeAppend
    <2> HIDE DEF text
    <2> QED
      BY <1>1, <2>3, <2>4 DEF WrittenInv, ShapeInv, Paths
  <1>3. FilesInv' /\ DoneInv'
    BY <1>1 DEF FilesInv, DoneInv, Unwritten, Steps
  <1> QED
    BY <1>1, <1>2, <1>3, NoSuccess DEF WrittenInv

\* Every step keeps the invariant of a successful run.
LEMMA WrittenStep ==
  ASSUME TypeInv, WrittenInv, [Next]_vars
  PROVE  WrittenInv'
  <1>1. CASE UNCHANGED vars
    <2>1. UNCHANGED <<pc, host, snap, before, result>>
      BY <1>1 DEF vars
    <2>2. \A p \in Paths : Configured(p) => Configured(p)'
      BY <2>1, ConfiguredKept
    <2>3. ShapeInv' /\ DoneInv'
      BY <2>1 DEF WrittenInv, ShapeInv, DoneInv
    <2>4. FilesInv'
      BY <2>1, <2>2 DEF WrittenInv, FilesInv
    <2>5. SuccessMeansConfigured'
      BY <2>1, <2>2 DEF WrittenInv, SuccessMeansConfigured
    <2> QED
      BY <2>3, <2>4, <2>5 DEF WrittenInv
  <1>2. CASE WriteConfig("manager", "extensions") \/ WriteConfig("extensions", "bundle")
    BY <1>2, WriteConfigWritten DEF Paths
  <1> QED
    BY <1>1, <1>2, SnapshotWritten, InstallPackageWritten, ServiceWritten, RestoreWritten,
       RestoreConfigWritten, KillWritten, EditWritten DEF Next

-----------------------------------------------------------------------------
(* The theorems.                                                            *)

\* The invariant holds at the start.
LEMMA InitInv == Init => IInv
  <1> SUFFICES ASSUME Init PROVE IInv
    OBVIOUS
  <1>1. PICK package, enabled, active \in BOOLEAN, bundle \in {"absent", "operator"},
             text \in {<<>>, <<"local">>, <<"external">>} :
           /\ enabled \/ active => package
           /\ host = [package |-> package, enabled |-> enabled, active |-> active,
                      loaded |-> IF active THEN "own" ELSE "nothing",
                      configs |-> [p \in Paths |-> IF text = <<>> THEN Absent ELSE Written(text)],
                      bundle |-> bundle]
    BY DEF Init
  <1>2. text \in Seq(Lines) /\ <<>> \in Seq(Lines)
    <2>1. <<>> \in Seq(Lines)
      OBVIOUS
    <2>2. <<"local">> \in Seq(Lines)
      BY DEF Lines
    <2>3. <<"external">> \in Seq(Lines)
      BY DEF Lines
    <2> QED
      BY <2>1, <2>2, <2>3
  <1>3. Absent \in Configs /\ Written(text) \in Configs
    BY <1>2 DEF Absent, Written, Configs
  <1>4. host \in Hosts
    <2>1. [p \in Paths |-> IF text = <<>> THEN Absent ELSE Written(text)] \in [Paths -> Configs]
      BY <1>3
    <2> QED
      BY <1>1, <2>1 DEF Hosts, Loaded, Bundles
  <1>5. TypeInv
    <2>1. HostTypeOK /\ SnapTypeOK
      BY <1>4 DEF Init, HostTypeOK, SnapTypeOK
    <2>2. runs \in 0..MaxRuns
      <3>1. runs = 0
        BY DEF Init
      <3> QED
        BY <3>1, BoundsAssumption
    <2>3. RunTypeOK
      BY <2>2 DEF Init, RunTypeOK
    <2> QED
      BY <2>1, <2>3 DEF TypeInv
  <1>6. UndoneInv
    BY <1>1 DEF Init, UndoneInv, PackageInv, SnapInv, OursInv, UndoInv, StageInv, After,
                RollbackRestoresHost, RolledBack
  <1> QED
    BY <1>5, <1>6 DEF IInv

\* Every variable keeps its type, whether queries fail or not.
THEOREM TypeCorrect == Spec => []TypeOK
  <1>1. Init => TypeInv
    BY InitInv DEF IInv
  <1>2. TypeInv /\ [Next]_vars => TypeInv'
    BY TypeStep
  <1>3. TypeInv => TypeOK
    BY DEF TypeInv, TypeOK, RunTypeOK, HostTypeOK, SnapTypeOK
  <1> QED
    BY <1>1, <1>2, <1>3, PTL DEF Spec

\* Every step keeps what the rollback relies on, where no query fails.
LEMMA NextInv == ~QueriesFail => (IInv /\ [Next]_vars => IInv')
  <1> SUFFICES ASSUME ~QueriesFail, IInv, [Next]_vars PROVE IInv'
    OBVIOUS
  <1> USE DEF IInv
  <1>1. TypeInv'
    BY TypeStep
  <1>2. CASE UNCHANGED vars
    BY <1>1, <1>2 DEF vars, UndoneInv, PackageInv, SnapInv, OursInv, UndoInv, StageInv,
                      RollbackRestoresHost, RolledBack
  <1>3. CASE WriteConfig("manager", "extensions") \/ WriteConfig("extensions", "bundle")
    <2>1. "manager" \in Paths /\ "extensions" \in Paths
      BY DEF Paths
    <2> QED
      BY <1>1, <1>3, <2>1, WriteConfigUndo
  <1> QED
    BY <1>1, <1>2, <1>3, SnapshotUndo, InstallPackageUndo, CreateBundleUndo, EnableUndo,
       RestartUndo, VerifyAMIUndo, RestoreBundleUndo, RestoreConfigUndo, RestoreActiveUndo,
       RestoreEnabledUndo, RestorePackageUndo, KillUndo, EditUndo DEF Next

\* The invariant holds where dpkg and systemctl answer.
THEOREM Invariance == ASSUME ~QueriesFail PROVE Spec => []IInv
  <1>1. IInv /\ [Next]_vars => IInv'
    BY NextInv
  <1> QED
    BY <1>1, InitInv, PTL DEF Spec

\* Whichever step of Install fails, a rollback whose commands all work leaves the host's
\* files, package and service as they were, or stopped.
THEOREM RollbackIsComplete == ASSUME ~QueriesFail PROVE Spec => []RollbackRestoresHost
  <1>1. IInv => RollbackRestoresHost
    BY DEF IInv, UndoneInv
  <1>2. Spec => []IInv
    BY Invariance
  <1> QED
    BY <1>1, <1>2, PTL

\* A success that Install reports is one: whatever earlier runs were killed in, whatever the
\* operator added in between, and whether dpkg and systemctl answered or not, both files
\* hold the section once beside the operator's lines in their order, the AMI is bound to no
\* other address, and the daemon that runs has read the section.
THEOREM SuccessIsConfigured == Spec => []SuccessMeansConfigured
  <1>1. Init => TypeInv /\ WrittenInv
    <2>1. SUFFICES ASSUME Init PROVE TypeInv /\ WrittenInv
      OBVIOUS
    <2>2. TypeInv
      BY <2>1, InitInv DEF IInv
    <2>3. /\ pc = "idle" /\ result = "none" /\ snap = host
          /\ \A p \in Paths : host.configs[p].text \in {<<>>, <<"local">>, <<"external">>}
      BY <2>1 DEF Init, Absent, Written
    <2>4. Shape(<<>>) /\ Shape(<<"local">>) /\ Shape(<<"external">>)
      BY DEF Shape
    <2>5. ShapeInv
      BY <2>3, <2>4 DEF ShapeInv
    <2>6. FilesInv /\ DoneInv /\ SuccessMeansConfigured
      BY <2>3 DEF FilesInv, DoneInv, SuccessMeansConfigured, Unwritten, Steps
    <2> QED
      BY <2>2, <2>5, <2>6 DEF WrittenInv
  <1>2. TypeInv /\ WrittenInv /\ [Next]_vars => (TypeInv /\ WrittenInv)'
    BY TypeStep, WrittenStep
  <1>3. WrittenInv => SuccessMeansConfigured
    BY DEF WrittenInv
  <1> QED
    BY <1>1, <1>2, <1>3, PTL DEF Spec
=============================================================================
