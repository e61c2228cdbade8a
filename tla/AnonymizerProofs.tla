-------------------------- MODULE AnonymizerProofs --------------------------
(***************************************************************************)
(* Proofs about Anonymizer, for any node lists, domains, options and       *)
(* names: the type invariant, that each node has a pseudonym of its own,   *)
(* and, when names and domains stand out from what is gathered             *)
(* (NamesStandOut, DomainStandsOut), that data that is said to be          *)
(* anonymized is masked as promised (CompleteDataIsMasked), that its files *)
(* are where they are promised to be (CompletePathsAreRenamed), and that   *)
(* two nodes' data stays apart (ListedNodesStayApart).                     *)
(*                                                                         *)
(* The argument for texts: each pass is divided by the spaces between the  *)
(* atoms (IsPass), so that what it makes of a text is what it makes of     *)
(* each atom; an atom is changed only by the pass for its kind.  That for  *)
(* paths: the longest is renamed first, so that what is above a pending    *)
(* path is pending too, and a file is where its gathered path says, with   *)
(* the components renamed that are no longer pending (Now).                *)
(***************************************************************************)
EXTENDS Anonymizer, FiniteSetTheorems, SequenceTheorems, WellFoundedInduction, TLAPS

(* The place of the node called n in a list, and the number it gets.       *)
PlaceOf(list, n) == CHOOSE i \in DOMAIN list : list[i].name = n
SameRole(list, n) ==
  {i \in 1 .. PlaceOf(list, n) : RoleFor(list[i].roles) = RoleFor(list[PlaceOf(list, n)].roles)}

(* Any order of a finite set has all of its elements.                      *)
LEMMA OrdersAreComplete ==
  ASSUME NEW S, IsFiniteSet(S), NEW order \in SetToSeqs(S)
  PROVE  ToSet(order) = S
<1> DEFINE n == Cardinality(S)
<1>1. n \in Nat /\ IsFiniteSet(1..n) /\ Cardinality(1..n) = n
  BY FS_CardinalityType, FS_Interval
<1>2. order \in [1..n -> S] /\ \A i, j \in 1..n : i # j => order[i] # order[j]
  BY DEF SetToSeqs
<1>3. order \in Injection(1..n, S)
  BY <1>2 DEF Injection, IsInjective
<1>4. order \in Surjection(1..n, S)
  BY <1>1, <1>3, FS_Injection
<1> QED BY <1>2, <1>4 DEF Surjection, ToSet

(* A list of nodes is a sequence.                                          *)
LEMMA ListsAreSequences ==
  ASSUME NEW list \in Clusters
  PROVE  list \in Seq(ToSet(list)) /\ DOMAIN list = 1..Len(list) /\ Len(list) \in Nat
BY AnonymizerAssumption

(* The mapping, with the names above for its parts.                        *)
LEMMA MappingOf ==
  ASSUME NEW list
  PROVE  BuildNodeMapping(list) =
           [n \in NodeNames(list) |->
             <<RoleFor(list[PlaceOf(list, n)].roles) \o "-", ToString(Cardinality(SameRole(list, n)))>>]
BY DEF BuildNodeMapping, NodeNames, SameRole, PlaceOf

(* A node is the last of those it is counted with.                         *)
LEMMA PlaceIsCounted ==
  ASSUME NEW list \in Clusters, NEW n \in NodeNames(list)
  PROVE  /\ PlaceOf(list, n) \in DOMAIN list /\ list[PlaceOf(list, n)].name = n
         /\ SameRole(list, n) \subseteq 1 .. PlaceOf(list, n)
         /\ PlaceOf(list, n) \in SameRole(list, n)
         /\ IsFiniteSet(SameRole(list, n)) /\ Cardinality(SameRole(list, n)) \in DOMAIN list
<1> DEFINE a == PlaceOf(list, n)
           S == SameRole(list, n)
<1>1. a \in DOMAIN list /\ list[a].name = n
  BY DEF PlaceOf, NodeNames
<1>2. DOMAIN list = 1..Len(list) /\ Len(list) \in Nat
  BY ListsAreSequences
<1>3. S \subseteq 1..a /\ a \in S
  BY <1>1, <1>2 DEF SameRole
<1> HIDE DEF a, S
<1>4. IsFiniteSet(1..a) /\ Cardinality(1..a) = a
  BY <1>1, <1>2, FS_Interval
<1>5. IsFiniteSet(S) /\ Cardinality(S) \in Nat /\ Cardinality(S) <= a
  BY <1>3, <1>4, FS_Subset, FS_CardinalityType
<1>6. Cardinality(S) # 0
  BY <1>3, <1>5, FS_EmptySet
<1>7. Cardinality(S) \in DOMAIN list
  BY <1>1, <1>2, <1>5, <1>6
<1> QED BY <1>1, <1>3, <1>5, <1>7 DEF a, S

(* The mapping is for finitely many names, and each number in it is that of *)
(* a place in the list.                                                    *)
LEMMA MappingIsTyped ==
  ASSUME NEW list \in Clusters
  PROVE  /\ IsFiniteSet(DOMAIN BuildNodeMapping(list))
         /\ \A n \in DOMAIN BuildNodeMapping(list) :
              BuildNodeMapping(list)[n][2] \in {ToString(i) : i \in DOMAIN list}
<1>1. IsFiniteSet(NodeNames(list))
  <2> DEFINE f == [i \in 1..Len(list) |-> list[i].name]
  <2>1. DOMAIN list = 1..Len(list) /\ Len(list) \in Nat
    BY ListsAreSequences
  <2>2. f \in Surjection(1..Len(list), NodeNames(list))
    BY <2>1 DEF Surjection, NodeNames
  <2> QED BY <2>1, <2>2, FS_Surjection, FS_Interval
<1>2. \A n \in NodeNames(list) : Cardinality(SameRole(list, n)) \in DOMAIN list
  BY PlaceIsCounted
<1> QED BY <1>1, <1>2, MappingOf

(* Of two nodes of one role, the later one is counted with more nodes.     *)
LEMMA LaterCountsMore ==
  ASSUME NEW list \in Clusters, NEW m \in NodeNames(list), NEW n \in NodeNames(list),
         RoleFor(list[PlaceOf(list, m)].roles) = RoleFor(list[PlaceOf(list, n)].roles),
         PlaceOf(list, m) < PlaceOf(list, n)
  PROVE  Cardinality(SameRole(list, m)) # Cardinality(SameRole(list, n))
<1>1. DOMAIN list = 1..Len(list) /\ Len(list) \in Nat
  BY ListsAreSequences
<1>2. PlaceOf(list, m) \in DOMAIN list /\ PlaceOf(list, n) \in DOMAIN list
  BY PlaceIsCounted
<1>3. SameRole(list, m) \subseteq SameRole(list, n)
  BY <1>1, <1>2 DEF SameRole
<1>4. PlaceOf(list, n) \in SameRole(list, n) \ SameRole(list, m)
  BY <1>1, <1>2, PlaceIsCounted DEF SameRole
<1>5. IsFiniteSet(SameRole(list, n))
  BY PlaceIsCounted
<1> QED BY <1>3, <1>4, <1>5, FS_Subset

(* No two nodes have the same pseudonym.                                   *)
LEMMA MappingIsInjective ==
  ASSUME NEW list \in Clusters, NEW m \in NodeNames(list), NEW n \in NodeNames(list),
         BuildNodeMapping(list)[m] = BuildNodeMapping(list)[n]
  PROVE  m = n
<1> DEFINE a == PlaceOf(list, m)
           b == PlaceOf(list, n)
<1>1. /\ a \in DOMAIN list /\ list[a].name = m /\ Cardinality(SameRole(list, m)) \in DOMAIN list
      /\ b \in DOMAIN list /\ list[b].name = n /\ Cardinality(SameRole(list, n)) \in DOMAIN list
  BY PlaceIsCounted
<1>2. DOMAIN list = 1..Len(list) /\ Len(list) \in Nat
  BY ListsAreSequences
<1>3. /\ RoleFor(list[a].roles) \o "-" = RoleFor(list[b].roles) \o "-"
      /\ ToString(Cardinality(SameRole(list, m))) = ToString(Cardinality(SameRole(list, n)))
  BY MappingOf
<1>4. RoleFor(list[a].roles) = RoleFor(list[b].roles)
  BY <1>1, <1>3, WritingAssumption, SMTT(30)
<1>5. Cardinality(SameRole(list, m)) = Cardinality(SameRole(list, n))
  BY <1>1, <1>3, WritingAssumption
<1>6. ~(a < b) /\ ~(b < a)
  BY <1>4, <1>5, LaterCountsMore
<1>7. a = b
  <2> HIDE DEF a, b
  <2> QED BY <1>1, <1>2, <1>6
<1> QED BY <1>1, <1>7

-----------------------------------------------------------------------------
(* A file is a record of these fields.  What is gathered is a sequence of  *)
(* such records.                                                           *)
IsFile(g) == g = [path |-> g.path, ext |-> g.ext, text |-> g.text]

(* Two lists of files, one after the other, are a list of files.           *)
LEMMA ConcatKeepsFiles ==
  ASSUME NEW s, NEW t, s \in Seq(Range(s)), t \in Seq(Range(t)),
         \A x \in Range(s) \cup Range(t) : IsFile(x)
  PROVE  /\ s \o t \in Seq(Range(s \o t))
         /\ \A x \in Range(s \o t) : IsFile(x)
<1> DEFINE S == Range(s) \cup Range(t)
           st == s \o t
<1>1. s \in Seq(S) /\ t \in Seq(S)
  <2>1. Range(s) \subseteq S /\ Range(t) \subseteq S
    OBVIOUS
  <2> HIDE DEF S
  <2> QED BY <2>1
<1>2. \A x \in S : IsFile(x)
  OBVIOUS
<1> HIDE DEF S
<1>3. st \in Seq(S)
  BY <1>1
<1> HIDE DEF st
<1>4. Range(st) \subseteq S /\ st \in Seq(Range(st))
  BY <1>3 DEF Range
<1> QED BY <1>2, <1>4 DEF st

(* What is gathered, for any nodes, is files.                              *)
LEMMA GatheredAreFiles ==
  ASSUME nodes \in Clusters
  PROVE  \A f \in DOMAIN Gathered : IsFile(Gathered[f])
<1>1. DOMAIN nodes = 1..Len(nodes) /\ Len(nodes) \in Nat
  BY ListsAreSequences
<1>2. ASSUME NEW p, NEW e, NEW t PROVE IsFile(File(p, e, t))
  BY DEF IsFile, File
<1> DEFINE logs == [i \in DOMAIN nodes |->
                     File(<< <<NameOf(nodes[i])>>, <<Other("etcd-"), NameOf(nodes[i])>> >>, "log",
                          Spaced(<<Atom("ips", <<"10.0.0.1">>), NameOf(nodes[i])>>))]
           manifests == [i \in DOMAIN nodes |->
                          File(<< <<Other("nodes")>>, <<NameOf(nodes[i])>> >>, "yaml",
                               Spaced(<<NameOf(nodes[i])>>))]
           others == << File(<< <<Other("manifest")>> >>, "yaml", Everything(nodes)),
                        File(<< <<Other("timestamp")>> >>, "", Everything(nodes)) >>
<1>3. Gathered = (logs \o manifests) \o others
  BY Zenon DEF Gathered
<1>4. DOMAIN logs = 1..Len(nodes) /\ \A i \in DOMAIN logs : IsFile(logs[i])
  BY <1>1, <1>2
<1>5. DOMAIN manifests = 1..Len(nodes) /\ \A i \in DOMAIN manifests : IsFile(manifests[i])
  BY <1>1, <1>2
<1>6. DOMAIN others = 1..2 /\ \A i \in DOMAIN others : IsFile(others[i])
  <2>1. IsFile(others[1]) /\ IsFile(others[2])
    BY <1>2
  <2> HIDE DEF others
  <2>2. DOMAIN others = 1..2
    BY DEF others
  <2> QED BY <2>1, <2>2
<1>7. /\ logs \in Seq(Range(logs)) /\ \A x \in Range(logs) : IsFile(x)
      /\ manifests \in Seq(Range(manifests)) /\ \A x \in Range(manifests) : IsFile(x)
      /\ others \in Seq(Range(others)) /\ \A x \in Range(others) : IsFile(x)
  <2>1. ASSUME NEW s, NEW n \in Nat, s = [i \in 1..n |-> s[i]], \A i \in 1..n : IsFile(s[i])
        PROVE  s \in Seq(Range(s)) /\ \A x \in Range(s) : IsFile(x)
    <3>1. DOMAIN s = 1..n
      BY <2>1
    <3>2. s \in [1..n -> Range(s)]
      BY <2>1, <3>1 DEF Range
    <3>3. s \in Seq(Range(s))
      BY <3>2
    <3> QED BY <2>1, <3>1, <3>3 DEF Range
  <2>2. logs = [i \in 1..Len(nodes) |-> logs[i]] /\ manifests = [i \in 1..Len(nodes) |-> manifests[i]]
    BY <1>1
  <2>3. others = [i \in 1..2 |-> others[i]]
    OBVIOUS
  <2> HIDE DEF logs, manifests, others
  <2> QED BY <1>1, <1>4, <1>5, <1>6, <2>1, <2>2, <2>3
<1> HIDE DEF logs, manifests, others
<1>8. LET a == logs \o manifests IN a \in Seq(Range(a)) /\ \A x \in Range(a) : IsFile(x)
  BY <1>7, ConcatKeepsFiles
<1>9. LET a == (logs \o manifests) \o others IN \A x \in Range(a) : IsFile(x)
  BY <1>7, <1>8, ConcatKeepsFiles
<1> QED BY <1>3, <1>9 DEF Range

-----------------------------------------------------------------------------
(* That the passes keep the extension of a file is inductive only with the *)
(* shape of its record.  The mapping is none before it is built.           *)
FilesAreGathered ==
  /\ DOMAIN files \subseteq DOMAIN Gathered
  /\ \A f \in DOMAIN files : IsFile(files[f]) /\ files[f].ext = Gathered[f].ext

MappingMatches ==
  \/ mapping = <<>> /\ hostnames = <<>>
  \/ mapping = BuildNodeMapping(nodes) /\ ToSet(hostnames) = DOMAIN mapping

(* Only the last pass leaves files out, and only files it should redact.   *)
SkippedAreData ==
  /\ pc # "end" => skipped = {}
  /\ skipped \subseteq DataFiles

AnonymizerInv ==
  /\ pc \in {"start", "list", "extract", "map", "rename", "names", "patterns", "secrets", "end"}
  /\ log \subseteq {"warning", "complete", "step"} /\ faulted \in BOOLEAN
  /\ nodes \in Clusters
  /\ MappingMatches
  /\ FilesAreGathered
  /\ SkippedAreData

(* At first there is what was gathered, and no mapping.                    *)
LEMMA AnonymizerInvInit == Init => AnonymizerInv
<1> SUFFICES ASSUME Init PROVE AnonymizerInv
  OBVIOUS
<1>1. nodes \in Clusters /\ MappingMatches
  BY DEF Init, MappingMatches
<1>2. FilesAreGathered
  <2>1. files = [f \in DOMAIN Gathered |-> Put(Gathered[f])]
    BY DEF Init
  <2>2. ASSUME NEW g, IsFile(g) PROVE IsFile(Put(g)) /\ Put(g).ext = g.ext
    <3> DEFINE path == [i \in DOMAIN g.path |-> Text(g.path[i])]
               text == Text(g.text)
    <3>1. Put(g) = [g EXCEPT !.path = path, !.text = text]
      BY DEF Put
    <3> HIDE DEF path, text
    <3>2. Put(g) = [path |-> path, ext |-> g.ext, text |-> text]
      BY <2>2, <3>1 DEF IsFile
    <3> QED BY <3>2 DEF IsFile
  <2> QED BY <1>1, <2>1, <2>2, GatheredAreFiles DEF FilesAreGathered
<1> QED BY <1>1, <1>2 DEF Init, AnonymizerInv, SkippedAreData

(* The inputs are those of the first state.                                *)
LEMMA SameInputs ==
  ASSUME UNCHANGED inputs
  PROVE  nodes' = nodes /\ Gathered' = Gathered
BY DEF inputs, Gathered, File, Everything, NameOf, Spaced, Atom, Other

(* A pass writes texts and nothing else.                                   *)
LEMMA RewriteKeepsFiles ==
  ASSUME FilesAreGathered, UNCHANGED inputs, NEW some, NEW text, Rewrite(some, text)
  PROVE  FilesAreGathered'
<1>1. DOMAIN files' = DOMAIN files
  BY DEF Rewrite
<1>2. ASSUME NEW f \in DOMAIN files PROVE IsFile(files'[f]) /\ files'[f].ext = files[f].ext
  <2>1. IsFile(files[f])
    BY DEF FilesAreGathered
  <2>2. files'[f] = files[f] \/ files'[f] = [files[f] EXCEPT !.text = text[f]]
    BY DEF Rewrite
  <2> QED BY <2>1, <2>2 DEF IsFile
<1> QED BY <1>1, <1>2, SameInputs DEF FilesAreGathered

(* What is text and what is data stays so.                                 *)
LEMMA RewriteKeepsKinds ==
  ASSUME FilesAreGathered, NEW some, NEW text, Rewrite(some, text)
  PROVE  TextFiles' = TextFiles /\ DataFiles' = DataFiles
<1>1. DOMAIN files' = DOMAIN files
  BY DEF Rewrite
<1>2. ASSUME NEW f \in DOMAIN files PROVE files'[f].ext = files[f].ext
  <2>1. IsFile(files[f])
    BY DEF FilesAreGathered
  <2>2. files'[f] = files[f] \/ files'[f] = [files[f] EXCEPT !.text = text[f]]
    BY DEF Rewrite
  <2> QED BY <2>1, <2>2 DEF IsFile
<1> QED BY <1>1, <1>2 DEF TextFiles, DataFiles

(* A rename writes paths, and may take a file away.                        *)
LEMMA RenameKeepsFiles ==
  ASSUME FilesAreGathered, UNCHANGED inputs, NEW from, NEW to, Rename(from, to)
  PROVE  FilesAreGathered'
<1>1. \/ files' = files
      \/ \E over : files' = [f \in DOMAIN files \ over |->
           IF f \in Under(from)
           THEN [files[f] EXCEPT !.path = to \o SubSeq(@, Len(from) + 1, Len(@))]
           ELSE files[f]]
  BY DEF Rename
<1>2. DOMAIN files' \subseteq DOMAIN files
  BY <1>1
<1>3. ASSUME NEW f \in DOMAIN files' PROVE IsFile(files'[f]) /\ files'[f].ext = files[f].ext
  <2>1. IsFile(files[f])
    BY <1>2 DEF FilesAreGathered
  <2>2. files'[f] = files[f] \/ \E p : files'[f] = [files[f] EXCEPT !.path = p]
    BY <1>1
  <2> QED BY <2>1, <2>2 DEF IsFile
<1> QED BY <1>2, <1>3, SameInputs DEF FilesAreGathered

(* Every step keeps the inputs, the shape of the files, and the mapping once *)
(* it is built.                                                            *)
LEMMA AnonymizerInvStep == AnonymizerInv /\ [Next]_vars => AnonymizerInv'
<1> SUFFICES ASSUME AnonymizerInv, [Next]_vars PROVE AnonymizerInv'
  OBVIOUS
<1> USE DEF Goto, Warn, Fault, Report
<1>1. UNCHANGED inputs
  BY DEF Next, Start, ListForLog, Extract, MapNodes, MapNodesFails, RenamePath, MaskNames,
     MaskPatterns, Redact, CommandIsWrong, PassFails, NamesFail, PatternsFail, RedactFails, vars
<1>2. pc' \in {"start", "list", "extract", "map", "rename", "names", "patterns", "secrets", "end"}
  BY DEF AnonymizerInv, Next, Start, ListForLog, Extract, MapNodes, MapNodesFails, RenamePath,
     MaskNames, MaskPatterns, Redact, CommandIsWrong, PassFails, NamesFail, PatternsFail,
     RedactFails, vars
<1>3. log' \subseteq {"warning", "complete", "step"} /\ faulted' \in BOOLEAN
  BY DEF AnonymizerInv, Next, Start, ListForLog, Extract, MapNodes, MapNodesFails, RenamePath,
     MaskNames, MaskPatterns, Redact, CommandIsWrong, PassFails, NamesFail, PatternsFail,
     RedactFails, vars
<1>4. MappingMatches'
  <2>1. CASE MapNodes
    <3>1. mapping' = BuildNodeMapping(nodes) /\ hostnames' \in SetToSeqs(DOMAIN mapping')
      BY <2>1 DEF MapNodes
    <3>2. ToSet(hostnames') = DOMAIN mapping'
      BY <3>1, MappingIsTyped, OrdersAreComplete DEF AnonymizerInv
    <3> QED BY <1>1, <3>1, <3>2, SameInputs DEF MappingMatches
  <2>2. CASE ~MapNodes
    <3>1. UNCHANGED <<mapping, hostnames>>
      BY <2>2 DEF Next, Start, ListForLog, Extract, MapNodesFails, RenamePath, MaskNames,
         MaskPatterns, Redact, CommandIsWrong, PassFails, NamesFail, PatternsFail, RedactFails,
         vars, data
    <3> QED BY <1>1, <3>1, SameInputs DEF AnonymizerInv, MappingMatches
  <2> QED BY <2>1, <2>2
<1>5. FilesAreGathered'
  <2>1. \/ UNCHANGED files
        \/ \E some, text : Rewrite(some, text)
        \/ \E from, to : Rename(from, to)
    BY DEF Next, Start, ListForLog, Extract, MapNodes, MapNodesFails, RenamePath, MaskNames,
       MaskPatterns, Redact, CommandIsWrong, PassFails, NamesFail, PatternsFail, RedactFails,
       vars, data
  <2>2. FilesAreGathered
    BY DEF AnonymizerInv
  <2>3. CASE UNCHANGED files
    BY <1>1, <2>2, <2>3, SameInputs DEF FilesAreGathered
  <2> QED BY <1>1, <2>1, <2>2, <2>3, RewriteKeepsFiles, RenameKeepsFiles
<1>6. nodes' \in Clusters
  BY <1>1, SameInputs DEF AnonymizerInv
<1>7. SkippedAreData'
  <2>1. CASE Redact
    <3>1. pc' = "end" /\ skipped' \subseteq DataFiles /\ \E done : Rewrite(done, SecretsRedacted)
      BY <2>1 DEF Redact
    <3>2. DataFiles' = DataFiles
      BY <3>1, RewriteKeepsKinds DEF AnonymizerInv
    <3> QED BY <3>1, <3>2 DEF SkippedAreData
  <2>2. CASE ~Redact
    <3>1. skipped' = skipped
      BY <2>2 DEF Next, Start, ListForLog, Extract, MapNodes, MapNodesFails, RenamePath, MaskNames,
         MaskPatterns, CommandIsWrong, PassFails, NamesFail, PatternsFail, RedactFails, vars, data
    <3>2. CASE pc = "end"
      <4>1. UNCHANGED <<pc, files>>
        BY <2>2, <3>2 DEF Next, Start, ListForLog, Extract, MapNodes, MapNodesFails, RenamePath,
           MaskNames, MaskPatterns, CommandIsWrong, PassFails, NamesFail, PatternsFail, RedactFails,
           vars
      <4>2. DataFiles' = DataFiles
        BY <4>1 DEF DataFiles
      <4> QED BY <3>1, <4>1, <4>2 DEF AnonymizerInv, SkippedAreData
    <3> QED BY <3>1, <3>2 DEF AnonymizerInv, SkippedAreData
  <2> QED BY <2>1, <2>2
<1> QED BY <1>2, <1>3, <1>4, <1>5, <1>6, <1>7 DEF AnonymizerInv

(* The names that are replaced are those that have a pseudonym.            *)
LEMMA MappedAreListed == MappingMatches => ToSet(hostnames) = DOMAIN mapping
BY SMTT(30) DEF MappingMatches, ToSet

(* The type invariant: a pseudonym's number is one of a node, every name   *)
(* is replaced in some turn, and no pass makes a file or changes what kind *)
(* of file it is.                                                          *)
THEOREM AnonymizerIsTyped == Spec => []TypeOK
<1>1. AnonymizerInv => TypeOK
  <2> SUFFICES ASSUME AnonymizerInv PROVE TypeOK
    OBVIOUS
  <2>1. ToSet(hostnames) = DOMAIN mapping
    BY MappedAreListed DEF AnonymizerInv
  <2>2. \A n \in DOMAIN mapping : mapping[n][2] \in {ToString(i) : i \in DOMAIN nodes}
    BY MappingIsTyped DEF AnonymizerInv, MappingMatches
  <2> QED BY <2>1, <2>2 DEF AnonymizerInv, FilesAreGathered, SkippedAreData, TypeOK
<1> QED BY AnonymizerInvInit, AnonymizerInvStep, <1>1, PTL DEF Spec

(* Each node has a pseudonym of its own, whatever the roles of the nodes   *)
(* and the order in which they are listed; so when two of them are merged  *)
(* (NodesStayApart), it is by replacing one after the other.               *)
THEOREM PseudonymsAlwaysDiffer == Spec => []PseudonymsDiffer
<1>1. AnonymizerInv => PseudonymsDiffer
  <2> SUFFICES ASSUME AnonymizerInv, NEW m \in DOMAIN mapping, NEW n \in DOMAIN mapping,
                      mapping[m] = mapping[n]
               PROVE  m = n
    BY DEF PseudonymsDiffer
  <2>1. mapping = BuildNodeMapping(nodes) /\ nodes \in Clusters
    BY DEF AnonymizerInv, MappingMatches
  <2>2. DOMAIN mapping = NodeNames(nodes)
    BY <2>1, MappingOf
  <2> QED BY <2>1, <2>2, MappingIsInjective
<1> QED BY AnonymizerInvInit, AnonymizerInvStep, <1>1, PTL DEF Spec

-----------------------------------------------------------------------------
(* Induction.  The library states it with an operator as a parameter; here *)
(* it is for sets of numbers, from its theorem that the subsets of a       *)
(* finite set are well founded.                                            *)

(* Induction without an operator as a parameter: the least element of a    *)
(* set of numbers, from the intervals below them.                          *)
LEMMA LeastNumber ==
  ASSUME NEW T, T \subseteq Nat, T # {}
  PROVE  \E n \in T : \A m \in T : n <= m
<1> DEFINE R == StrictSubsetOrdering(Nat)
           U == {1..n : n \in T}
<1>1. IsWellFoundedOn(R, FiniteSubsetsOf(Nat))
  BY FS_StrictSubsetOrderingWellFounded
<1>2. U \subseteq FiniteSubsetsOf(Nat) /\ U # {}
  <2>1. \A n \in Nat : IsFiniteSet(1..n)
    BY FS_Interval
  <2>2. \A n \in Nat : 1..n \subseteq Nat
    OBVIOUS
  <2> QED BY <2>1, <2>2 DEF FiniteSubsetsOf
<1>3. PICK x \in U : \A y \in U : <<y, x>> \notin R
  <2> HIDE DEF U, R
  <2> QED BY <1>1, <1>2, WFMin
<1>4. PICK n \in T : x = 1..n
  OBVIOUS
<1>5. ASSUME NEW m \in T, m < n PROVE FALSE
  <2>1. /\ 1..m \in U /\ 1..m \subseteq 1..n /\ 1..m # 1..n
        /\ 1..m \in SUBSET Nat /\ 1..n \in SUBSET Nat
    BY <1>5
  <2>2. <<1..m, 1..n>> \in R
    BY <2>1 DEF StrictSubsetOrdering
  <2> QED BY <1>3, <1>4, <2>1, <2>2
<1> QED BY <1>5

(* What is true of 0, and of n + 1 when it is of n, is true of all: the    *)
(* set of numbers where it fails has no least element.                     *)
LEMMA Induction ==
  ASSUME NEW T, T \subseteq Nat, 0 \in T, \A n \in T : n + 1 \in T
  PROVE  T = Nat
<1> SUFFICES ASSUME Nat \ T # {} PROVE FALSE
  OBVIOUS
<1>1. PICK n \in Nat \ T : \A m \in Nat \ T : n <= m
  <2> DEFINE C == Nat \ T
  <2> C \subseteq Nat /\ C # {}
    OBVIOUS
  <2> HIDE DEF C
  <2> QED BY LeastNumber
<1>2. n # 0 /\ n - 1 \in Nat /\ n - 1 \in T
  BY <1>1
<1> QED BY <1>1, <1>2

(* The same on an interval, upwards and downwards.                         *)
LEMMA IntervalInduction ==
  ASSUME NEW n \in Nat, NEW T, 0 \in T, \A k \in T : k \in 0 .. n - 1 => k + 1 \in T
  PROVE  0..n \subseteq T
<1> DEFINE U == {k \in Nat : k <= n => k \in T}
<1>1. U \subseteq Nat /\ 0 \in U
  OBVIOUS
<1>2. ASSUME NEW k \in U PROVE k + 1 \in U
  OBVIOUS
<1> HIDE DEF U
<1>3. U = Nat
  BY <1>1, <1>2, Induction
<1> QED BY <1>3 DEF U

(* The same from n + 1 down to 1.                                          *)
LEMMA DownwardInduction ==
  ASSUME NEW n \in Nat, NEW T, n + 1 \in T, \A i \in 1..n : (\A j \in i+1 .. n+1 : j \in T) => i \in T
  PROVE  1 .. n+1 \subseteq T
<1> DEFINE U == {k \in Nat : \A j \in 1 .. n+1 : j >= n + 1 - k => j \in T}
<1>1. U \subseteq Nat /\ 0 \in U
  OBVIOUS
<1>2. ASSUME NEW k \in U PROVE k + 1 \in U
  <2> SUFFICES ASSUME NEW j \in 1 .. n+1, j = n + 1 - (k + 1) PROVE j \in T
    OBVIOUS
  <2>1. j \in 1..n /\ \A i \in j+1 .. n+1 : i \in T
    OBVIOUS
  <2> QED BY <2>1
<1> HIDE DEF U
<1>3. U = Nat
  BY <1>1, <1>2, Induction
<1>4. n \in U
  BY <1>3
<1> QED BY <1>4 DEF U

(* The greatest of some numbers.                                           *)
LEMMA GreatestNumber ==
  ASSUME NEW n \in Nat, NEW S, S \subseteq 1..n, S # {}
  PROVE  Max(S) \in S /\ \A y \in S : Max(S) >= y
<1> DEFINE U == {n - x : x \in S}
<1>1. U \subseteq Nat /\ U # {}
  <2>1. \A x \in S : n - x \in Nat
    OBVIOUS
  <2> QED BY <2>1
<1>2. PICK u \in U : \A v \in U : u <= v
  <2> HIDE DEF U
  <2> QED BY <1>1, LeastNumber
<1>3. PICK x \in S : u = n - x
  OBVIOUS
<1>4. \A y \in S : x >= y
  <2> TAKE y \in S
  <2>1. u <= n - y
    BY <1>2
  <2> QED BY <1>3, <2>1
<1> QED BY <1>3, <1>4 DEF Max

(* A function that is given by its values further on exists.               *)
Unrolls(f, n, J, P) ==
  /\ f = [i \in 1 .. n+1 |-> f[i]] /\ f[n+1] = <<>>
  /\ \A i \in 1..n : f[i] = P[i] \o f[J[i]]

(* A function whose value at i is P[i] and its value further on exists:    *)
(* what the recursive function of Substitute needs.                        *)
LEMMA UnrolledExists ==
  ASSUME NEW n \in Nat, NEW J, NEW P, \A i \in 1..n : J[i] \in i+1 .. n+1
  PROVE  \E f : Unrolls(f, n, J, P)
<1> DEFINE Cat(a, b) == a \o b
           None == <<>>
           Fits(f, m) ==
             /\ f = [i \in 1 .. n+1 |-> f[i]]
             /\ \A i \in 1 .. n+1 : i >= m =>
                  f[i] = IF i = n+1 THEN None ELSE Cat(P[i], f[J[i]])
           T == {i \in 1 .. n+1 : \E f : Fits(f, i)}
<1> HIDE DEF Cat, None
<1>1. n + 1 \in T
  <2> DEFINE f == [i \in 1 .. n+1 |-> None]
  <2>1. f = [i \in 1 .. n+1 |-> f[i]]
    OBVIOUS
  <2>2. \A i \in 1 .. n+1 : i >= n + 1 => i = n + 1 /\ f[i] = None
    OBVIOUS
  <2>3. Fits(f, n + 1)
    BY <2>1, <2>2
  <2> HIDE DEF Fits, f
  <2> QED BY <2>3
<1>2. ASSUME NEW i \in 1..n, i + 1 \in T PROVE i \in T
  <2>1. PICK f : Fits(f, i + 1)
    BY <1>2
  <2> DEFINE g == [j \in 1 .. n+1 |-> IF j = i THEN Cat(P[i], f[J[i]]) ELSE f[j]]
  <2>2. \A j \in 1 .. n+1 : j >= i => g[j] = IF j = n+1 THEN None ELSE Cat(P[j], g[J[j]])
    <3> TAKE j \in 1 .. n+1
    <3>1. CASE j = i
      <4>1. J[i] \in 1 .. n+1 /\ J[i] # i /\ i # n + 1
        OBVIOUS
      <4>2. g[J[i]] = f[J[i]]
        BY <4>1
      <4>3. g[i] = Cat(P[i], f[J[i]])
        OBVIOUS
      <4> HIDE DEF g
      <4> QED BY <3>1, <4>1, <4>2, <4>3
    <3>2. CASE j > i
      <4>1. f[j] = IF j = n+1 THEN None ELSE Cat(P[j], f[J[j]])
        <5>1. j >= i + 1
          BY <3>2
        <5> QED BY <2>1, <5>1
      <4>2. g[j] = f[j]
        BY <3>2
      <4>3. j # n+1 => J[j] \in 1 .. n+1 /\ J[j] # i
        BY <3>2
      <4>4. j # n+1 => g[J[j]] = f[J[j]]
        BY <4>3
      <4> HIDE DEF g
      <4> QED BY <4>1, <4>2, <4>4
    <3> QED BY <3>1, <3>2
  <2>3. g = [j \in 1 .. n+1 |-> g[j]]
    OBVIOUS
  <2>4. Fits(g, i)
    <3> HIDE DEF g
    <3> QED BY <2>2, <2>3
  <2> HIDE DEF Fits, g
  <2> QED BY <2>4
<1>3. 1 \in T
  <2>1. \A i \in 1..n : (\A j \in i+1 .. n+1 : j \in T) => i \in T
    <3> HIDE DEF T
    <3> QED BY <1>2
  <2>2. 1 .. n+1 \subseteq T
    <3> HIDE DEF T
    <3> QED BY <1>1, <2>1, DownwardInduction
  <2> QED BY <2>2
<1>4. PICK f : Fits(f, 1)
  <2> HIDE DEF Fits
  <2> QED BY <1>3
<1>5. \A i \in 1..n : i \in 1 .. n+1 /\ i >= 1 /\ i # n + 1
  OBVIOUS
<1>6. n + 1 \in 1 .. n+1 /\ n + 1 >= 1
  OBVIOUS
<1>7. f[n+1] = None /\ \A i \in 1..n : f[i] = Cat(P[i], f[J[i]])
  BY <1>4, <1>5, <1>6, Zenon
<1> QED BY <1>4, <1>7 DEF Cat, None, Unrolls

-----------------------------------------------------------------------------
(* Texts, and Substitute.                                                  *)

(* Tokens and texts.  The provers do not take a literal for a string, so   *)
(* those of the model are listed.                                          *)
Tokens ==
  STRING \cup {" ", ".", "x", "10.0.0.1", "x.x.x.x", "0a:58:0a:00:00:01", "xx:xx:xx:xx:xx:xx",
               "db", "ns", "svc", "cleaned", "cGFzcw==", "<REDACTED>", "etcd-", "job",
               "nodes", "manifest", "timestamp"}
Texts == Seq(Tokens)
Cat(s, t) == s \o t
One(c) == <<c>>

(* Strings are tokens.                                                     *)
LEMMA StringsAreTokens ==
  /\ STRING \subseteq Tokens
  /\ \A s \in Seq(STRING) : s \in Texts
<1>1. STRING \subseteq Tokens
  BY Zenon DEF Tokens
<1>2. ASSUME NEW S, NEW T, S \subseteq T PROVE \A s \in Seq(S) : s \in Seq(T)
  BY <1>2, SeqMonotonic
<1> QED BY <1>1, <1>2, Zenon DEF Texts

(* Texts that are put together.                                            *)
LEMMA TextIs ==
  ASSUME NEW s \in Texts
  PROVE  /\ Len(s) \in Nat /\ DOMAIN s = 1 .. Len(s) /\ \A i \in 1 .. Len(s) : s[i] \in Tokens
         /\ Cat(s, <<>>) = s /\ Cat(<<>>, s) = s
         /\ (Len(s) = 0 <=> s = <<>>)
<1>1. Len(s) \in Nat /\ DOMAIN s = 1 .. Len(s) /\ \A i \in 1 .. Len(s) : s[i] \in Tokens
  BY LenProperties, ElementOfSeq DEF Texts
<1>2. Cat(s, <<>>) = s /\ Cat(<<>>, s) = s
  BY ConcatEmptySeq DEF Texts, Cat
<1>3. Len(s) = 0 <=> s = <<>>
  BY EmptySeq DEF Texts
<1> QED BY <1>1, <1>2, <1>3

(* A text of one token.                                                    *)
LEMMA OneIs ==
  ASSUME NEW c \in Tokens
  PROVE  One(c) \in Texts /\ Len(One(c)) = 1 /\ One(c)[1] = c
<1>1. One(c) \in Texts
  <2>1. ASSUME NEW S, NEW x \in S PROVE <<x>> \in Seq(S)
    OBVIOUS
  <2> QED BY <2>1, Zenon DEF One, Texts
<1>2. Len(One(c)) = 1 /\ One(c)[1] = c
  BY DEF One
<1> QED BY <1>1, <1>2

(* A text of none.                                                         *)
LEMMA NoneIs == <<>> \in Texts /\ Len(<<>>) = 0
BY EmptySeq DEF Texts

(* Two texts put together.                                                 *)
LEMMA CatIs ==
  ASSUME NEW s \in Texts, NEW t \in Texts
  PROVE  /\ Cat(s, t) \in Texts /\ Len(s) \in Nat /\ Len(t) \in Nat
         /\ Len(Cat(s, t)) = Len(s) + Len(t)
         /\ \A i \in 1 .. Len(s) : Cat(s, t)[i] = s[i]
         /\ \A i \in 1 .. Len(t) : Cat(s, t)[Len(s) + i] = t[i]
<1>1. Len(s) \in Nat /\ Len(t) \in Nat
  BY TextIs
<1> DEFINE u == Cat(s, t)
<1>2. /\ u \in Texts /\ Len(u) = Len(s) + Len(t)
      /\ \A i \in 1 .. Len(s) + Len(t) : u[i] = IF i <= Len(s) THEN s[i] ELSE t[i - Len(s)]
  BY ConcatProperties DEF Texts, Cat
<1> HIDE DEF u
<1>3. \A i \in 1 .. Len(s) : i \in 1 .. Len(s) + Len(t) /\ i <= Len(s)
  BY <1>1
<1>4. \A i \in 1 .. Len(t) :
        Len(s) + i \in 1 .. Len(s) + Len(t) /\ ~(Len(s) + i <= Len(s)) /\ Len(s) + i - Len(s) = i
  BY <1>1
<1>5. \A i \in 1 .. Len(s) : u[i] = s[i]
  BY <1>2, <1>3
<1>6. \A i \in 1 .. Len(t) : u[Len(s) + i] = t[i]
  BY <1>2, <1>4
<1> QED BY <1>1, <1>2, <1>5, <1>6 DEF u

(* A part of a text.                                                       *)
LEMMA PartIs ==
  ASSUME NEW u \in Texts, NEW a \in 1 .. Len(u) + 1, NEW b \in 0 .. Len(u)
  PROVE  /\ SubSeq(u, a, b) \in Texts
         /\ Len(SubSeq(u, a, b)) = IF a <= b THEN b - a + 1 ELSE 0
         /\ \A i \in 1 .. b - a + 1 : SubSeq(u, a, b)[i] = u[a + i - 1]
         /\ a <= b => SubSeq(u, a, b) = Cat(One(u[a]), SubSeq(u, a + 1, b))
         /\ a > b => SubSeq(u, a, b) = <<>>
         /\ SubSeq(u, 1, Len(u)) = u
<1>1. Len(u) \in Nat /\ \A i \in 1 .. Len(u) : u[i] \in Tokens
  BY TextIs
<1>2. a \in Int /\ b \in Int /\ \A i \in a .. b : u[i] \in Tokens
  BY <1>1
<1>3. /\ SubSeq(u, a, b) \in Texts
      /\ Len(SubSeq(u, a, b)) = IF a <= b THEN b - a + 1 ELSE 0
      /\ \A i \in 1 .. b - a + 1 : SubSeq(u, a, b)[i] = u[a + i - 1]
  BY <1>2, SubSeqProperties DEF Texts
<1>4. a <= b => SubSeq(u, a, b) = Cat(One(u[a]), SubSeq(u, a + 1, b))
  <2> SUFFICES ASSUME a <= b PROVE SubSeq(u, a, b) = <<u[a]>> \o SubSeq(u, a + 1, b)
    BY DEF Cat, One
  <2>1. a \in 1 .. Len(u) /\ b \in a .. Len(u) /\ u \in Seq(Tokens)
    BY <1>1 DEF Texts
  <2> QED BY <2>1, SubSeqRecursiveFirst
<1>5. a > b => SubSeq(u, a, b) = <<>>
  BY <1>2, SubSeqEmpty
<1>6. SubSeq(u, 1, Len(u)) = u
  BY SubSeqFull DEF Texts
<1> QED BY <1>3, <1>4, <1>5, <1>6

(* The order in which three texts are put together does not matter.        *)
LEMMA CatAssociates ==
  ASSUME NEW s \in Texts, NEW t \in Texts, NEW u \in Texts
  PROVE  Cat(Cat(s, t), u) = Cat(s, Cat(t, u))
BY ConcatAssociative DEF Texts, Cat

(* Two texts of the same tokens are the same.                              *)
LEMMA SameTexts ==
  ASSUME NEW s \in Texts, NEW t \in Texts, Len(s) = Len(t), \A i \in 1 .. Len(s) : s[i] = t[i]
  PROVE  s = t
BY SeqEqual DEF Texts

(* Substitute as a function of positions: where the matches at i end, what *)
(* is left from i on, and matches that are inside of the text.             *)
Lasts(M, i) == {m[2] : m \in {n \in M : n[1] = i}}
Rest(M, to, u) ==
  CHOOSE rest : rest = [i \in 1 .. Len(u) + 1 |->
        IF i = Len(u) + 1 THEN <<>>
        ELSE IF Lasts(M, i) = {} THEN <<u[i]>> \o rest[i + 1]
        ELSE to \o rest[Max(Lasts(M, i)) + 1]]
Fit(M, u) == \A i \in 1 .. Len(u) : Lasts(M, i) \subseteq i .. Len(u)

(* Substitute is what is left from the first position on.                  *)
LEMMA SubstituteIsRest ==
  ASSUME NEW M, NEW to, NEW u
  PROVE  Substitute(M, to, u) = Rest(M, to, u)[1]
BY DEF Substitute, Rest, Lasts

(* Where a match ends is in the text.                                      *)
LEMMA LastFits ==
  ASSUME NEW M, NEW u \in Texts, Fit(M, u), NEW i \in 1 .. Len(u), Lasts(M, i) # {}
  PROVE  /\ Max(Lasts(M, i)) \in Lasts(M, i) /\ Max(Lasts(M, i)) \in i .. Len(u)
         /\ \A y \in Lasts(M, i) : Max(Lasts(M, i)) >= y
<1>1. Len(u) \in Nat
  BY LenProperties DEF Texts
<1>2. Lasts(M, i) \subseteq i .. Len(u)
  BY DEF Fit
<1>3. Lasts(M, i) \subseteq 1 .. Len(u)
  BY <1>1, <1>2
<1> QED BY <1>1, <1>2, <1>3, GreatestNumber

(* What is left is what the code makes of it step by step.                 *)
LEMMA RestIs ==
  ASSUME NEW M, NEW to, NEW u \in Texts, Fit(M, u)
  PROVE  /\ Rest(M, to, u)[Len(u) + 1] = <<>>
         /\ \A i \in 1 .. Len(u) : Rest(M, to, u)[i] =
              IF Lasts(M, i) = {} THEN Cat(One(u[i]), Rest(M, to, u)[i + 1])
              ELSE Cat(to, Rest(M, to, u)[Max(Lasts(M, i)) + 1])
<1> DEFINE n == Len(u)
           J == [i \in 1..n |-> IF Lasts(M, i) = {} THEN i + 1 ELSE Max(Lasts(M, i)) + 1]
           P == [i \in 1..n |-> IF Lasts(M, i) = {} THEN <<u[i]>> ELSE to]
           Body(f) == [i \in 1 .. n+1 |->
             IF i = n + 1 THEN <<>>
             ELSE IF Lasts(M, i) = {} THEN <<u[i]>> \o f[i + 1]
             ELSE to \o f[Max(Lasts(M, i)) + 1]]
<1>1. n \in Nat
  BY TextIs
<1>2. \A i \in 1..n : J[i] \in i+1 .. n+1
  BY <1>1, LastFits
<1>3. PICK f : Unrolls(f, n, J, P)
  <2> HIDE DEF J, P, n
  <2> QED BY <1>1, <1>2, UnrolledExists
<1>4. f = Body(f)
  <2>1. ASSUME NEW i \in 1 .. n+1, i # n+1
        PROVE  f[i] = IF Lasts(M, i) = {} THEN <<u[i]>> \o f[i + 1]
                      ELSE to \o f[Max(Lasts(M, i)) + 1]
    <3>1. i \in 1..n
      BY <1>1, <2>1
    <3> QED BY <1>3, <3>1, Zenon DEF Unrolls
  <2> HIDE DEF P, J, n
  <2> QED BY <1>3, <2>1 DEF Unrolls
<1>5. Rest(M, to, u) = CHOOSE g : g = Body(g)
  BY Zenon DEF Rest
<1>6. Rest(M, to, u) = Body(Rest(M, to, u))
  <2> HIDE DEF Body
  <2> QED BY <1>4, <1>5, Zenon
<1> DEFINE r == Rest(M, to, u)
<1> HIDE DEF r
<1>7. r = Body(r)
  BY <1>6 DEF r
<1>8. r[n + 1] = <<>>
  <2>1. n + 1 \in 1 .. n + 1
    BY <1>1
  <2> QED BY <1>7, <2>1, Zenon
<1>9. ASSUME NEW i \in 1..n
      PROVE r[i] = IF Lasts(M, i) = {} THEN <<u[i]>> \o r[i + 1] ELSE to \o r[Max(Lasts(M, i)) + 1]
  <2>1. i \in 1 .. n+1 /\ i # n + 1
    BY <1>1
  <2> QED BY <1>7, <2>1, Zenon
<1> QED BY <1>8, <1>9 DEF r, Cat, One

(* A substitution in a text gives a text.                                  *)
LEMMA RestIsText ==
  ASSUME NEW M, NEW to \in Texts, NEW u \in Texts, Fit(M, u)
  PROVE  /\ \A i \in 1 .. Len(u) + 1 : Rest(M, to, u)[i] \in Texts
         /\ Substitute(M, to, u) \in Texts
<1> DEFINE r == Rest(M, to, u)
           n == Len(u)
           T == {i \in 1 .. n+1 : r[i] \in Texts}
<1>1. n \in Nat /\ \A i \in 1..n : u[i] \in Tokens
  BY TextIs
<1>2. n + 1 \in T
  <2>1. n + 1 \in 1 .. n + 1
    BY <1>1
  <2>2. r[n + 1] = <<>>
    BY RestIs
  <2> QED BY <2>1, <2>2, NoneIs
<1>3. ASSUME NEW i \in 1..n, \A j \in i+1 .. n+1 : j \in T PROVE i \in T
  <2>1. r[i] \in Texts
    <3>1. CASE Lasts(M, i) = {}
      <4>1. i + 1 \in i+1 .. n+1
        BY <1>1
      <4>2. r[i] = Cat(One(u[i]), r[i+1]) /\ r[i+1] \in Texts
        BY <1>3, <3>1, <4>1, RestIs
      <4>3. u[i] \in Tokens
        BY <1>1
      <4>4. One(u[i]) \in Texts
        BY <4>3, OneIs
      <4> QED BY <4>2, <4>4, CatIs
    <3>2. CASE Lasts(M, i) # {}
      <4>1. Max(Lasts(M, i)) + 1 \in i+1 .. n+1
        BY <1>1, <3>2, LastFits
      <4>2. r[i] = Cat(to, r[Max(Lasts(M, i)) + 1]) /\ r[Max(Lasts(M, i)) + 1] \in Texts
        BY <1>3, <3>2, <4>1, RestIs
      <4> QED BY <4>2, CatIs, ZenonT(60)
    <3> QED BY <3>1, <3>2
  <2>2. i \in 1 .. n+1
    BY <1>1
  <2> QED BY <2>1, <2>2
<1>4. 1 .. n+1 \subseteq T
  <2> HIDE DEF T, n
  <2> QED BY <1>1, <1>2, <1>3, DownwardInduction
<1>5. 1 \in 1 .. n+1
  BY <1>1
<1> QED BY <1>4, <1>5, SubstituteIsRest

(* Two texts around a token.                                               *)
Around(s, c, t) == Cat(Cat(s, One(c)), t)

(* Where the parts of such a text are.                                     *)
LEMMA AroundIs ==
  ASSUME NEW s \in Texts, NEW c \in Tokens, NEW t \in Texts
  PROVE  /\ Around(s, c, t) \in Texts /\ Len(Around(s, c, t)) = Len(s) + 1 + Len(t)
         /\ Len(s) \in Nat /\ Len(t) \in Nat
         /\ \A i \in 1 .. Len(s) : Around(s, c, t)[i] = s[i]
         /\ Around(s, c, t)[Len(s) + 1] = c
         /\ \A i \in 1 .. Len(t) : Around(s, c, t)[Len(s) + 1 + i] = t[i]
<1> DEFINE sc == Cat(s, One(c))
           u == Cat(sc, t)
<1>1. /\ sc \in Texts /\ Len(s) \in Nat /\ Len(sc) = Len(s) + 1
      /\ \A i \in 1 .. Len(s) : sc[i] = s[i]
      /\ \A i \in 1 .. 1 : sc[Len(s) + i] = One(c)[i]
  <2>1. One(c) \in Texts /\ Len(One(c)) = 1
    BY OneIs, Zenon
  <2> HIDE DEF sc
  <2>2. sc = Cat(s, One(c))
    BY DEF sc
  <2> DEFINE o == One(c)
  <2> HIDE DEF o
  <2>3. o \in Texts /\ Len(o) = 1 /\ sc = Cat(s, o)
    BY <2>1, <2>2 DEF o
  <2>4. /\ sc \in Texts /\ Len(s) \in Nat /\ Len(sc) = Len(s) + Len(o)
        /\ \A i \in 1 .. Len(s) : sc[i] = s[i]
        /\ \A i \in 1 .. Len(o) : sc[Len(s) + i] = o[i]
    BY <2>3, CatIs, ZenonT(60)
  <2> QED BY <2>3, <2>4 DEF o
<1> HIDE DEF sc
<1>2. /\ u \in Texts /\ Len(t) \in Nat /\ Len(u) = Len(sc) + Len(t)
      /\ \A i \in 1 .. Len(sc) : u[i] = sc[i]
      /\ \A i \in 1 .. Len(t) : u[Len(sc) + i] = t[i]
  BY <1>1, CatIs
<1> HIDE DEF u
<1>3. One(c)[1] = c
  BY OneIs, Zenon
<1>4. u[Len(s) + 1] = c
  <2>1. 1 \in 1 .. 1
    OBVIOUS
  <2>3. sc[Len(s) + 1] = c
    BY <1>1, <1>3, <2>1, Zenon
  <2>2. Len(s) + 1 \in 1 .. Len(sc)
    BY <1>1
  <2> QED BY <1>2, <2>2, <2>3, Zenon
<1>5. \A i \in 1 .. Len(s) : u[i] = s[i]
  BY <1>1, <1>2
<1>6. Around(s, c, t) = u
  BY DEF Around, u, sc
<1> QED BY <1>1, <1>2, <1>4, <1>5, <1>6

(* What is before the first match is left alone.                           *)
LEMMA BeforeTheFirst ==
  ASSUME NEW M, NEW to \in Texts, NEW u \in Texts, Fit(M, u), NEW b \in 1 .. Len(u) + 1,
         \A i \in 1 .. b - 1 : Lasts(M, i) = {}
  PROVE  Substitute(M, to, u) = Cat(SubSeq(u, 1, b - 1), Rest(M, to, u)[b])
<1> DEFINE r == Rest(M, to, u)
           T == {a \in 1 .. b : r[a] = Cat(SubSeq(u, a, b - 1), r[b])}
<1>1. Len(u) \in Nat /\ b - 1 \in Nat
  BY TextIs
<1>2. \A i \in 1 .. Len(u) + 1 : r[i] \in Texts
  BY RestIsText
<1>3. b - 1 + 1 \in T
  <2>1. SubSeq(u, b, b - 1) = <<>>
    BY <1>1, SubSeqEmpty
  <2>2. Cat(<<>>, r[b]) = r[b]
    BY <1>2, TextIs
  <2>3. b - 1 + 1 = b /\ b \in 1 .. b
    BY <1>1
  <2> QED BY <2>1, <2>2, <2>3
<1>4. ASSUME NEW i \in 1 .. b - 1, \A j \in i+1 .. b - 1 + 1 : j \in T PROVE i \in T
  <2>1. i \in 1 .. Len(u) /\ i + 1 \in i + 1 .. b - 1 + 1 /\ b - 1 \in i .. Len(u) /\ i \in 1 .. b
    BY <1>1
  <2>2. r[i] = Cat(One(u[i]), r[i + 1])
    BY <2>1, RestIs
  <2>3. r[i + 1] = Cat(SubSeq(u, i + 1, b - 1), r[b])
    BY <1>4, <2>1
  <2>4. SubSeq(u, i, b - 1) = Cat(One(u[i]), SubSeq(u, i + 1, b - 1))
    <3>1. i \in 1 .. Len(u) + 1 /\ b - 1 \in 0 .. Len(u) /\ i <= b - 1
      BY <1>1
    <3> QED BY <3>1, PartIs, ZenonT(60)
  <2>5. One(u[i]) \in Texts /\ SubSeq(u, i + 1, b - 1) \in Texts /\ r[b] \in Texts
    <3>1. u[i] \in Tokens
      BY <2>1, TextIs
    <3>2. i + 1 \in 1 .. Len(u) + 1 /\ b - 1 \in 0 .. Len(u)
      BY <1>1
    <3> QED BY <1>2, <3>1, <3>2, PartIs, OneIs
  <2>6. Cat(Cat(One(u[i]), SubSeq(u, i + 1, b - 1)), r[b]) = Cat(One(u[i]), Cat(SubSeq(u, i + 1, b - 1), r[b]))
    BY <2>5, CatAssociates
  <2> QED BY <2>1, <2>2, <2>3, <2>4, <2>6
<1>5. 1 .. b - 1 + 1 \subseteq T
  <2> HIDE DEF T
  <2> QED BY <1>1, <1>3, <1>4, DownwardInduction
<1>6. 1 \in 1 .. b - 1 + 1
  BY <1>1
<1> QED BY <1>5, <1>6, SubstituteIsRest

(* A token that no match goes over divides the work.                       *)
LEMMA SubstituteAround ==
  ASSUME NEW to \in Texts, NEW s \in Texts, NEW c \in Tokens, NEW t \in Texts,
         NEW Ms, NEW Mt, NEW M, Fit(Ms, s), Fit(Mt, t),
         NEW u, u = Around(s, c, t), Fit(M, u),
         \A i \in 1 .. Len(s) : Lasts(M, i) = Lasts(Ms, i),
         Lasts(M, Len(s) + 1) = {},
         \A i \in 1 .. Len(t) : Lasts(M, Len(s) + 1 + i) = {x + (Len(s) + 1) : x \in Lasts(Mt, i)}
  PROVE  Substitute(M, to, u) = Around(Substitute(Ms, to, s), c, Substitute(Mt, to, t))
<1> DEFINE k == Len(s) + 1
           r == Rest(M, to, u)
           rs == Rest(Ms, to, s)
           rt == Rest(Mt, to, t)
           Tt == {i \in 1 .. Len(t) + 1 : r[k + i] = rt[i]}
           Ts == {i \in 1 .. Len(s) + 1 : r[i] = Cat(rs[i], r[k])}
<1>1. /\ u \in Texts /\ Len(u) = k + Len(t) /\ Len(s) \in Nat /\ Len(t) \in Nat /\ u[k] = c
      /\ \A i \in 1 .. Len(s) : u[i] = s[i]
      /\ \A i \in 1 .. Len(t) : u[k + i] = t[i]
  <2> DEFINE v == Around(s, c, t)
  <2>1. /\ v \in Texts /\ Len(v) = Len(s) + 1 + Len(t)
        /\ Len(s) \in Nat /\ Len(t) \in Nat
        /\ \A i \in 1 .. Len(s) : v[i] = s[i]
        /\ v[Len(s) + 1] = c
        /\ \A i \in 1 .. Len(t) : v[Len(s) + 1 + i] = t[i]
    BY AroundIs, ZenonT(60)
  <2>2. u = v
    OBVIOUS
  <2> HIDE DEF v
  <2> QED BY <2>1, <2>2
<1>u. u \in Texts
  BY <1>1
<1>0. k \in Nat
  BY <1>1
<1>2. /\ \A i \in 1 .. Len(u) + 1 : r[i] \in Texts
      /\ \A i \in 1 .. Len(s) + 1 : rs[i] \in Texts
      /\ \A i \in 1 .. Len(t) + 1 : rt[i] \in Texts
  BY <1>u, RestIsText
<1>3. r[Len(u) + 1] = <<>> /\ rs[Len(s) + 1] = <<>> /\ rt[Len(t) + 1] = <<>>
  <2>1. r[Len(u) + 1] = <<>>
    BY <1>u, RestIs
  <2>2. rs[Len(s) + 1] = <<>>
    BY <1>u, RestIs
  <2>3. rt[Len(t) + 1] = <<>>
    BY <1>u, RestIs
  <2> QED BY <2>1, <2>2, <2>3
<1>4. 1 .. Len(t) + 1 \subseteq Tt
  <2>1. Len(t) + 1 \in Tt
    BY <1>1, <1>3
  <2>2. ASSUME NEW i \in 1 .. Len(t), \A j \in i+1 .. Len(t) + 1 : j \in Tt PROVE i \in Tt
    <3>1. k + i \in 1 .. Len(u) /\ i \in 1 .. Len(t) + 1 /\ u[k + i] = t[i] /\ k + i + 1 = k + (i + 1)
      <4> HIDE DEF k
      <4> QED BY <1>0, <1>1
    <3>2. CASE Lasts(Mt, i) = {}
      <4>1. Lasts(M, k + i) = {}
        BY <3>2
      <4>2. r[k + i] = Cat(One(u[k + i]), r[k + i + 1])
        BY <1>u, <3>1, <4>1, RestIs
      <4>3. rt[i] = Cat(One(t[i]), rt[i + 1])
        BY <1>u, <3>2, RestIs
      <4>4. i + 1 \in i+1 .. Len(t) + 1
        BY <1>1
      <4>5. r[k + (i + 1)] = rt[i + 1]
        BY <2>2, <4>4
      <4> HIDE DEF r, rt, k
      <4> QED BY <3>1, <4>2, <4>3, <4>5
    <3>3. CASE Lasts(Mt, i) # {}
      <4> DEFINE e == Max(Lasts(Mt, i))
                 E == Lasts(M, k + i)
      <4>1. e \in Lasts(Mt, i) /\ e \in i .. Len(t) /\ \A y \in Lasts(Mt, i) : e >= y
        BY <3>3, LastFits
      <4>2. E = {x + k : x \in Lasts(Mt, i)}
        BY <1>1
      <4>3. e + k \in E /\ E # {}
        <5> HIDE DEF e, E, k
        <5>1. e + k \in {x + k : x \in Lasts(Mt, i)}
          BY <4>1
        <5> QED BY <4>2, <5>1
      <4>4. Max(E) \in E /\ Max(E) \in k + i .. Len(u) /\ \A y \in E : Max(E) >= y
        BY <1>1, <3>1, <4>3, LastFits
      <4> HIDE DEF e, E
      <4>5. PICK x \in Lasts(Mt, i) : Max(E) = x + k
        BY <4>2, <4>4
      <4>6. x \in 1 .. Len(t)
        BY <1>1 DEF Fit
      <4>7. Max(E) = e + k
        <5>1. e >= x /\ Max(E) >= e + k
          BY <4>1, <4>3, <4>4
        <5>2. e \in Nat /\ x \in Nat
          BY <1>1, <4>1, <4>6
        <5> HIDE DEF k
        <5> QED BY <1>0, <4>5, <5>1, <5>2
      <4>8. r[k + i] = Cat(to, r[Max(E) + 1])
        BY <1>u, <3>1, <4>3, RestIs DEF E
      <4>9. rt[i] = Cat(to, rt[e + 1])
        BY <1>u, <3>3, RestIs DEF e
      <4>10. r[k + (e + 1)] = rt[e + 1]
        <5>1. e + 1 \in i+1 .. Len(t) + 1
          BY <1>1, <4>1
        <5> QED BY <2>2, <5>1
      <4>11. Max(E) + 1 = k + (e + 1)
        BY <1>1, <4>1, <4>7
      <4> HIDE DEF r, rt, k
      <4> QED BY <3>1, <4>8, <4>9, <4>10, <4>11
    <3> QED BY <3>2, <3>3
  <2> HIDE DEF Tt
  <2> QED BY <1>1, <2>1, <2>2, DownwardInduction
<1>5. r[k] = Cat(One(c), rt[1])
  <2>1. k \in 1 .. Len(u) /\ 1 \in 1 .. Len(t) + 1
    BY <1>1
  <2>2. r[k] = Cat(One(u[k]), r[k + 1])
    BY <1>u, <2>1, RestIs
  <2>3. r[k + 1] = rt[1]
    BY <1>4, <2>1
  <2> HIDE DEF r, rt, k
  <2> QED BY <1>1, <2>2, <2>3
<1>6. 1 .. Len(s) + 1 \subseteq Ts
  <2>0. r[k] \in Texts
    BY <1>1, <1>2
  <2>1. Len(s) + 1 \in Ts
    <3>1. Cat(<<>>, r[k]) = r[k]
      BY <2>0, TextIs
    <3> QED BY <1>1, <1>3, <3>1
  <2>2. ASSUME NEW i \in 1 .. Len(s), \A j \in i+1 .. Len(s) + 1 : j \in Ts PROVE i \in Ts
    <3>1. i \in 1 .. Len(u) /\ i \in 1 .. Len(s) + 1 /\ u[i] = s[i] /\ i + 1 \in i+1 .. Len(s) + 1
      BY <1>1
    <3>2. CASE Lasts(Ms, i) = {}
      <4>1. Lasts(M, i) = {}
        BY <3>2
      <4>2. r[i] = Cat(One(u[i]), r[i + 1])
        BY <1>u, <3>1, <4>1, RestIs
      <4>3. rs[i] = Cat(One(s[i]), rs[i + 1])
        BY <1>u, <3>2, RestIs
      <4>5. r[i + 1] = Cat(rs[i + 1], r[k])
        BY <2>2, <3>1
      <4>6. One(s[i]) \in Texts /\ rs[i + 1] \in Texts
        <5>1. s[i] \in Tokens
          BY TextIs
        <5>2. i + 1 \in 1 .. Len(s) + 1
          BY <1>1
        <5> QED BY <1>2, <5>1, <5>2, OneIs
      <4>7. Cat(Cat(One(s[i]), rs[i + 1]), r[k]) = Cat(One(s[i]), Cat(rs[i + 1], r[k]))
        BY <2>0, <4>6, CatAssociates
      <4> HIDE DEF r, rs, k
      <4> QED BY <3>1, <4>2, <4>3, <4>5, <4>7
    <3>3. CASE Lasts(Ms, i) # {}
      <4> DEFINE e == Max(Lasts(Ms, i))
      <4>1. e \in i .. Len(s)
        BY <3>3, LastFits
      <4>2. Lasts(M, i) = Lasts(Ms, i)
        OBVIOUS
      <4>3. r[i] = Cat(to, r[e + 1])
        BY <1>u, <3>1, <3>3, <4>2, RestIs
      <4>4. rs[i] = Cat(to, rs[e + 1])
        BY <1>u, <3>3, RestIs
      <4> HIDE DEF e
      <4>5. e + 1 \in i+1 .. Len(s) + 1
        BY <1>1, <4>1
      <4>6. r[e + 1] = Cat(rs[e + 1], r[k])
        BY <2>2, <4>5
      <4>7. rs[e + 1] \in Texts
        BY <1>1, <1>2, <4>5
      <4>8. Cat(Cat(to, rs[e + 1]), r[k]) = Cat(to, Cat(rs[e + 1], r[k]))
        BY <2>0, <4>7, CatAssociates
      <4> HIDE DEF r, rs, k
      <4> QED BY <3>1, <4>3, <4>4, <4>6, <4>8
    <3> QED BY <3>2, <3>3
  <2> HIDE DEF Ts
  <2> QED BY <1>1, <2>1, <2>2, DownwardInduction
<1>7. r[1] = Cat(rs[1], Cat(One(c), rt[1]))
  <2>1. 1 \in 1 .. Len(s) + 1
    BY <1>1
  <2> QED BY <1>5, <1>6, <2>1
<1>8. rs[1] \in Texts /\ One(c) \in Texts /\ rt[1] \in Texts
  <2>1. 1 \in 1 .. Len(s) + 1 /\ 1 \in 1 .. Len(t) + 1
    BY <1>1
  <2> QED BY <1>2, <2>1, OneIs
<1>9. Cat(Cat(rs[1], One(c)), rt[1]) = Cat(rs[1], Cat(One(c), rt[1]))
  BY <1>8, CatAssociates
<1>10. Substitute(M, to, u) = r[1] /\ Substitute(Ms, to, s) = rs[1] /\ Substitute(Mt, to, t) = rt[1]
  BY SubstituteIsRest
<1> HIDE DEF r, rs, rt
<1> QED BY <1>7, <1>9, <1>10 DEF Around

-----------------------------------------------------------------------------
(* Replacing one text by another, and several in turn.                     *)

(* Where a part occurs in a text.                                          *)
LEMMA OccursAtIs ==
  ASSUME NEW p \in Texts, NEW u \in Texts, NEW i \in 1 .. Len(u)
  PROVE  OccursAt(p, u, i) <=>
           /\ i + Len(p) - 1 <= Len(u)
           /\ \A j \in 1 .. Len(p) : u[i + j - 1] = p[j]
<1> DEFINE v == SubSeq(u, i, Len(u))
<1>1. Len(u) \in Nat /\ Len(p) \in Nat
  BY TextIs
<1>2. i \in 1 .. Len(u) + 1 /\ Len(u) \in 0 .. Len(u)
  BY <1>1
<1>3. /\ v \in Texts /\ Len(v) = Len(u) - i + 1
      /\ \A j \in 1 .. Len(u) - i + 1 : v[j] = u[i + j - 1]
  BY <1>1, <1>2, PartIs
<1>4. OccursAt(p, u, i) <=> Len(p) <= Len(v) /\ SubSeq(p, 1, Len(p)) = SubSeq(v, 1, Len(p))
  BY DEF OccursAt, IsPrefix
<1> HIDE DEF v
<1>5. Len(p) <= Len(v) <=> i + Len(p) - 1 <= Len(u)
  BY <1>1, <1>3
<1>6. ASSUME Len(p) <= Len(v)
      PROVE  p = SubSeq(v, 1, Len(p)) <=> \A j \in 1 .. Len(p) : u[i + j - 1] = p[j]
  <2> DEFINE w == SubSeq(v, 1, Len(p))
  <2>1. 1 \in 1 .. Len(v) + 1 /\ Len(p) \in 0 .. Len(v)
    BY <1>1, <1>3, <1>6
  <2>2. /\ w \in Texts /\ Len(w) = IF 1 <= Len(p) THEN Len(p) - 1 + 1 ELSE 0
        /\ \A j \in 1 .. Len(p) - 1 + 1 : w[j] = v[1 + j - 1]
    BY <1>3, <2>1, PartIs
  <2> HIDE DEF w
  <2>3. Len(w) = Len(p)
    BY <1>1, <2>2
  <2>4. \A j \in 1 .. Len(p) : w[j] = u[i + j - 1]
    <3> TAKE j \in 1 .. Len(p)
    <3>1. j \in 1 .. Len(p) - 1 + 1 /\ 1 + j - 1 = j /\ j \in 1 .. Len(u) - i + 1
      BY <1>1, <1>3, <1>6
    <3>2. w[j] = v[j]
      BY <2>2, <3>1
    <3> QED BY <1>3, <3>1, <3>2
  <2>5. p = w <=> \A j \in 1 .. Len(p) : p[j] = w[j]
    BY <2>2, <2>3, SameTexts
  <2>6. p = w <=> \A j \in 1 .. Len(p) : u[i + j - 1] = p[j]
    BY <2>4, <2>5
  <2> QED BY <2>6 DEF w
<1>7. SubSeq(p, 1, Len(p)) = p
  BY SubSeqFull DEF Texts
<1> QED BY <1>4, <1>5, <1>6, <1>7

(* The matches of one text in another.                                     *)
Found(from, u) == {<<i, i + Len(from) - 1>> : i \in {j \in DOMAIN u : OccursAt(from, u, j)}}

(* At a position there is at most one match of a text, as long as the      *)
(* text.                                                                   *)
LEMMA FoundIs ==
  ASSUME NEW from \in Texts, from # <<>>, NEW u \in Texts
  PROVE  /\ Fit(Found(from, u), u)
         /\ \A i \in 1 .. Len(u) :
              Lasts(Found(from, u), i) = IF OccursAt(from, u, i) THEN {i + Len(from) - 1} ELSE {}
<1>1. Len(u) \in Nat /\ Len(from) \in Nat /\ Len(from) # 0 /\ DOMAIN u = 1 .. Len(u)
  BY TextIs
<1>2. ASSUME NEW i \in 1 .. Len(u)
      PROVE Lasts(Found(from, u), i) = IF OccursAt(from, u, i) THEN {i + Len(from) - 1} ELSE {}
  <2>1. \A m \in Found(from, u) : m[1] = i => OccursAt(from, u, i) /\ m[2] = i + Len(from) - 1
    BY DEF Found
  <2>2. OccursAt(from, u, i) => \E m \in Found(from, u) : m[1] = i /\ m[2] = i + Len(from) - 1
    <3> SUFFICES ASSUME OccursAt(from, u, i)
                 PROVE \E m \in Found(from, u) : m[1] = i /\ m[2] = i + Len(from) - 1
      OBVIOUS
    <3>1. <<i, i + Len(from) - 1>> \in Found(from, u)
      BY <1>1 DEF Found
    <3> QED BY <3>1
  <2> QED BY <2>1, <2>2 DEF Lasts
<1>3. ASSUME NEW i \in 1 .. Len(u), OccursAt(from, u, i) PROVE i + Len(from) - 1 \in i .. Len(u)
  <2>1. i + Len(from) - 1 <= Len(u)
    BY <1>3, OccursAtIs
  <2> QED BY <1>1, <2>1
<1> QED BY <1>2, <1>3 DEF Fit

(* Replacing one text by another gives a text.                             *)
LEMMA EachIsText ==
  ASSUME NEW from \in Texts, from # <<>>, NEW to \in Texts, NEW u \in Texts
  PROVE  /\ ReplaceEach(from, to, u) = Substitute(Found(from, u), to, u)
         /\ ReplaceEach(from, to, u) \in Texts
<1>1. ReplaceEach(from, to, u) = Substitute(Found(from, u), to, u)
  BY DEF ReplaceEach, Found
<1>2. Fit(Found(from, u), u)
  BY FoundIs
<1> QED BY <1>1, <1>2, RestIsText

(* Where a text does not occur nothing is replaced.                        *)
LEMMA EachNowhere ==
  ASSUME NEW from \in Texts, from # <<>>, NEW to \in Texts, NEW u \in Texts, ~Occurs(from, u)
  PROVE  ReplaceEach(from, to, u) = u
<1> DEFINE M == Found(from, u)
           b == Len(u) + 1
<1>1. Len(u) \in Nat /\ DOMAIN u = 1 .. Len(u)
  BY TextIs
<1>2. Fit(M, u) /\ \A i \in 1 .. b - 1 : Lasts(M, i) = {}
  <2>1. \A i \in 1 .. Len(u) : ~OccursAt(from, u, i)
    BY <1>1 DEF Occurs
  <2> QED BY <1>1, <2>1, FoundIs
<1>3. b \in 1 .. Len(u) + 1 /\ b - 1 = Len(u) /\ 1 \in 1 .. Len(u) + 1 /\ Len(u) \in 0 .. Len(u)
  BY <1>1
<1> HIDE DEF M
<1>4. Substitute(M, to, u) = Cat(SubSeq(u, 1, b - 1), Rest(M, to, u)[b])
  <2> HIDE DEF b
  <2> QED BY <1>2, <1>3, BeforeTheFirst
<1>5. Rest(M, to, u)[b] = <<>>
  BY <1>2, RestIs
<1>6. SubSeq(u, 1, b - 1) = u
  BY <1>3, PartIs
<1> QED BY <1>4, <1>5, <1>6, TextIs, EachIsText DEF M

(* Where it occurs only at the end, what is before it stays.               *)
LEMMA EachAtTheEnd ==
  ASSUME NEW from \in Texts, from # <<>>, NEW to \in Texts, NEW u \in Texts,
         NEW b \in 1 .. Len(u), b = Len(u) - Len(from) + 1,
         \A i \in 1 .. Len(u) : OccursAt(from, u, i) <=> i = b
  PROVE  ReplaceEach(from, to, u) = Cat(SubSeq(u, 1, b - 1), to)
<1> DEFINE M == Found(from, u)
<1>1. Len(u) \in Nat /\ Len(from) \in Nat
  BY TextIs
<1>2. /\ Fit(M, u)
      /\ \A i \in 1 .. Len(u) :
           Lasts(M, i) = IF OccursAt(from, u, i) THEN {i + Len(from) - 1} ELSE {}
  BY FoundIs
<1>3. Lasts(M, b) = {Len(u)} /\ \A i \in 1 .. b - 1 : Lasts(M, i) = {}
  <2>1. b + Len(from) - 1 = Len(u)
    BY <1>1
  <2>2. \A i \in 1 .. b - 1 : i \in 1 .. Len(u) /\ i # b
    BY <1>1
  <2> QED BY <1>2, <2>1, <2>2
<1>4. b \in 1 .. Len(u) + 1
  BY <1>1
<1> HIDE DEF M
<1>5. Substitute(M, to, u) = Cat(SubSeq(u, 1, b - 1), Rest(M, to, u)[b])
  <2>1. Fit(M, u) /\ \A i \in 1 .. b - 1 : Lasts(M, i) = {}
    BY <1>2, <1>3
  <2> QED BY <1>4, <2>1, BeforeTheFirst, ZenonT(60)
<1>6. Max(Lasts(M, b)) = Len(u)
  BY <1>2, <1>3, LastFits
<1>7. Rest(M, to, u)[b] = Cat(to, Rest(M, to, u)[Len(u) + 1])
  <2>1. Fit(M, u) /\ Lasts(M, b) # {}
    BY <1>2, <1>3
  <2>2. Rest(M, to, u)[b] = Cat(to, Rest(M, to, u)[Max(Lasts(M, b)) + 1])
    BY <2>1, RestIs
  <2> QED BY <1>6, <2>2
<1>8. Rest(M, to, u)[Len(u) + 1] = <<>>
  BY <1>2, RestIs
<1>9. Cat(to, <<>>) = to
  BY TextIs
<1> QED BY <1>5, <1>7, <1>8, <1>9, EachIsText DEF M

(* No match goes over a token that is not in what is looked for.           *)
LEMMA EachAround ==
  ASSUME NEW from \in Texts, from # <<>>, NEW to \in Texts,
         NEW s \in Texts, NEW c \in Tokens, NEW t \in Texts, c \notin ToSet(from)
  PROVE  ReplaceEach(from, to, Around(s, c, t)) =
           Around(ReplaceEach(from, to, s), c, ReplaceEach(from, to, t))
<1> DEFINE u == Around(s, c, t)
           k == Len(s) + 1
<1>1. /\ u \in Texts /\ Len(u) = k + Len(t)
      /\ Len(s) \in Nat /\ Len(t) \in Nat
      /\ \A i \in 1 .. Len(s) : u[i] = s[i]
      /\ u[k] = c
      /\ \A i \in 1 .. Len(t) : u[k + i] = t[i]
  BY AroundIs
<1> HIDE DEF u
<1>2. Len(from) \in Nat /\ Len(from) # 0 /\ \A j \in 1 .. Len(from) : from[j] # c
  BY TextIs DEF ToSet
<1>u. u \in Texts
  BY <1>1
<1>3. ASSUME NEW i \in 1 .. Len(s) PROVE OccursAt(from, u, i) <=> OccursAt(from, s, i)
  <2>1. i \in 1 .. Len(u)
    BY <1>1
  <2>2. OccursAt(from, u, i) <=>
          /\ i + Len(from) - 1 <= Len(u) /\ \A j \in 1 .. Len(from) : u[i + j - 1] = from[j]
    BY <1>u, <2>1, OccursAtIs
  <2>3. OccursAt(from, s, i) <=>
          /\ i + Len(from) - 1 <= Len(s) /\ \A j \in 1 .. Len(from) : s[i + j - 1] = from[j]
    BY OccursAtIs
  <2>4. CASE i + Len(from) - 1 <= Len(s)
    <3>1. \A j \in 1 .. Len(from) : i + j - 1 \in 1 .. Len(s)
      BY <1>1, <1>2, <2>4
    <3>2. \A j \in 1 .. Len(from) : u[i + j - 1] = s[i + j - 1]
      BY <1>1, <3>1
    <3>3. i + Len(from) - 1 <= Len(u)
      BY <1>1, <1>2, <2>4
    <3> QED BY <2>2, <2>3, <2>4, <3>2, <3>3
  <2>5. CASE ~(i + Len(from) - 1 <= Len(s))
    <3>1. k - i + 1 \in 1 .. Len(from) /\ i + (k - i + 1) - 1 = k
      BY <1>1, <1>2, <2>5
    <3>2. from[k - i + 1] # u[i + (k - i + 1) - 1]
      BY <1>1, <1>2, <3>1
    <3> HIDE DEF k
    <3> QED BY <2>2, <2>3, <2>5, <3>1, <3>2
  <2> QED BY <2>4, <2>5
<1>4. ~OccursAt(from, u, k)
  <2>1. k \in 1 .. Len(u)
    BY <1>1
  <2>2. OccursAt(from, u, k) => \A j \in 1 .. Len(from) : u[k + j - 1] = from[j]
    BY <1>u, <2>1, OccursAtIs
  <2>3. 1 \in 1 .. Len(from) /\ k + 1 - 1 = k
    BY <1>1, <1>2
  <2>4. from[1] # u[k + 1 - 1]
    BY <1>1, <1>2, <2>3
  <2> HIDE DEF k
  <2> QED BY <2>2, <2>3, <2>4
<1>5. ASSUME NEW i \in 1 .. Len(t) PROVE OccursAt(from, u, k + i) <=> OccursAt(from, t, i)
  <2>1. k + i \in 1 .. Len(u)
    BY <1>1
  <2>2. OccursAt(from, u, k + i) <=>
          /\ k + i + Len(from) - 1 <= Len(u)
          /\ \A j \in 1 .. Len(from) : u[k + i + j - 1] = from[j]
    BY <1>u, <2>1, OccursAtIs
  <2>3. OccursAt(from, t, i) <=>
          /\ i + Len(from) - 1 <= Len(t) /\ \A j \in 1 .. Len(from) : t[i + j - 1] = from[j]
    BY OccursAtIs
  <2>4. k + i + Len(from) - 1 <= Len(u) <=> i + Len(from) - 1 <= Len(t)
    BY <1>1, <1>2
  <2>5. ASSUME i + Len(from) - 1 <= Len(t), NEW j \in 1 .. Len(from)
        PROVE  u[k + i + j - 1] = t[i + j - 1]
    <3>1. i + j - 1 \in 1 .. Len(t) /\ k + i + j - 1 = k + (i + j - 1)
      BY <1>1, <1>2, <2>5
    <3> HIDE DEF k
    <3> QED BY <1>1, <3>1
  <2> HIDE DEF k
  <2> QED BY <2>2, <2>3, <2>4, <2>5
<1> DEFINE Ms == Found(from, s)
           Mt == Found(from, t)
           M == Found(from, u)
<1>6. /\ Fit(Ms, s) /\ Fit(Mt, t) /\ Fit(M, u)
      /\ \A i \in 1 .. Len(s) :
           Lasts(Ms, i) = IF OccursAt(from, s, i) THEN {i + Len(from) - 1} ELSE {}
      /\ \A i \in 1 .. Len(t) :
           Lasts(Mt, i) = IF OccursAt(from, t, i) THEN {i + Len(from) - 1} ELSE {}
      /\ \A i \in 1 .. Len(u) :
           Lasts(M, i) = IF OccursAt(from, u, i) THEN {i + Len(from) - 1} ELSE {}
  BY <1>u, FoundIs
<1> HIDE DEF Ms, Mt, M
<1>7. \A i \in 1 .. Len(s) : Lasts(M, i) = Lasts(Ms, i)
  <2>1. \A i \in 1 .. Len(s) : i \in 1 .. Len(u)
    BY <1>1
  <2> QED BY <1>3, <1>6, <2>1
<1>8. Lasts(M, k) = {}
  <2>1. k \in 1 .. Len(u)
    BY <1>1
  <2> QED BY <1>4, <1>6, <2>1
<1>9. \A i \in 1 .. Len(t) : Lasts(M, k + i) = {x + k : x \in Lasts(Mt, i)}
  <2> TAKE i \in 1 .. Len(t)
  <2>1. k + i \in 1 .. Len(u) /\ k + i + Len(from) - 1 = i + Len(from) - 1 + k
    BY <1>1, <1>2
  <2>2. Lasts(M, k + i) = IF OccursAt(from, t, i) THEN {i + Len(from) - 1 + k} ELSE {}
    <3> HIDE DEF k
    <3> QED BY <1>5, <1>6, <2>1
  <2> HIDE DEF k
  <2> QED BY <1>6, <2>2
<1>10. Substitute(M, to, u) = Around(Substitute(Ms, to, s), c, Substitute(Mt, to, t))
  BY <1>6, <1>7, <1>8, <1>9, SubstituteAround DEF u
<1>11. /\ ReplaceEach(from, to, u) = Substitute(M, to, u)
       /\ ReplaceEach(from, to, s) = Substitute(Ms, to, s)
       /\ ReplaceEach(from, to, t) = Substitute(Mt, to, t)
  BY <1>u, EachIsText DEF M, Ms, Mt
<1> QED BY <1>10, <1>11 DEF u

(* Texts in turn: what the first k replacements make of u.                 *)
Turn(from, to, u) ==
  CHOOSE done : done = [k \in 0 .. Len(from) |->
    IF k = 0 THEN u ELSE ReplaceEach(from[k], to[k], done[k - 1])]

(* f has the results of the first m replacements.                          *)
Turns(f, from, to, u, m) ==
  /\ f = [k \in 0 .. Len(from) |-> f[k]] /\ f[0] = u
  /\ \A k \in 1 .. m : f[k] = ReplaceEach(from[k], to[k], f[k - 1])

(* Lists of what is replaced, and by what.                                 *)
Replaces(from, to) ==
  /\ Len(from) \in Nat
  /\ \A k \in 1 .. Len(from) : from[k] \in Texts /\ from[k] # <<>> /\ to[k] \in Texts

(* The replacements are done one by one.                                   *)
LEMMA TurnIs ==
  ASSUME NEW from, NEW to, NEW u, Len(from) \in Nat
  PROVE  /\ ReplaceInTurn(from, to, u) = Turn(from, to, u)[Len(from)]
         /\ Turn(from, to, u)[0] = u
         /\ \A k \in 1 .. Len(from) :
              Turn(from, to, u)[k] = ReplaceEach(from[k], to[k], Turn(from, to, u)[k - 1])
<1> DEFINE n == Len(from)
           T == {m \in 0 .. n : \E f : Turns(f, from, to, u, m)}
           Body(f) == [k \in 0 .. n |-> IF k = 0 THEN u ELSE ReplaceEach(from[k], to[k], f[k - 1])]
           r == Turn(from, to, u)
<1>1. 0 \in T
  <2> DEFINE f == [k \in 0 .. n |-> u]
  <2>1. Turns(f, from, to, u, 0)
    BY DEF Turns
  <2> HIDE DEF f
  <2> QED BY <2>1
<1>2. ASSUME NEW m \in T, m \in 0 .. n - 1 PROVE m + 1 \in T
  <2>1. PICK f : Turns(f, from, to, u, m)
    OBVIOUS
  <2> DEFINE g == [k \in 0 .. n |-> IF k = m + 1 THEN ReplaceEach(from[k], to[k], f[m]) ELSE f[k]]
  <2>2. g = [k \in 0 .. n |-> g[k]] /\ g[0] = u
    BY <1>2, <2>1 DEF Turns
  <2>3. \A k \in 1 .. m + 1 : g[k] = ReplaceEach(from[k], to[k], g[k - 1])
    <3> TAKE k \in 1 .. m + 1
    <3>1. k \in 0 .. n /\ k - 1 \in 0 .. n /\ k - 1 # m + 1
      BY <1>2
    <3>2. g[k - 1] = f[k - 1]
      BY <3>1
    <3>3. CASE k = m + 1
      <4>1. g[k] = ReplaceEach(from[k], to[k], f[m]) /\ k - 1 = m
        BY <1>2, <3>1, <3>3
      <4> HIDE DEF g
      <4> QED BY <3>2, <4>1
    <3>4. CASE k # m + 1
      <4>1. g[k] = f[k] /\ k \in 1 .. m
        BY <1>2, <3>1, <3>4
      <4>2. f[k] = ReplaceEach(from[k], to[k], f[k - 1])
        BY <2>1, <4>1 DEF Turns
      <4> HIDE DEF g
      <4> QED BY <3>2, <4>1, <4>2
    <3> QED BY <3>3, <3>4
  <2> HIDE DEF g
  <2>4. Turns(g, from, to, u, m + 1)
    BY <2>2, <2>3 DEF Turns
  <2>5. m + 1 \in 0 .. n
    BY <1>2
  <2> QED BY <2>4, <2>5
<1>3. n \in T
  <2> HIDE DEF T
  <2>1. 0 .. n \subseteq T
    BY <1>1, <1>2, IntervalInduction
  <2> QED BY <2>1
<1>4. PICK f : Turns(f, from, to, u, n)
  BY <1>3
<1>5. f = Body(f)
  <2>1. ASSUME NEW k \in 0 .. n
        PROVE  f[k] = IF k = 0 THEN u ELSE ReplaceEach(from[k], to[k], f[k - 1])
    <3>1. k # 0 => k \in 1 .. n
      OBVIOUS
    <3> QED BY <1>4, <3>1, Zenon DEF Turns
  <2>2. f = [k \in 0 .. n |-> f[k]]
    BY <1>4 DEF Turns
  <2> HIDE DEF n
  <2> QED BY <2>1, <2>2
<1>6. r = CHOOSE g : g = Body(g)
  BY Zenon DEF Turn
<1>7. r = Body(r)
  <2> HIDE DEF Body, r
  <2> QED BY <1>5, <1>6, Zenon
<1>8. ReplaceInTurn(from, to, u) = r[n]
  BY Zenon DEF ReplaceInTurn, Turn
<1> HIDE DEF r
<1>9. r[0] = u
  <2>1. 0 \in 0 .. n
    OBVIOUS
  <2> QED BY <1>7, <2>1, Zenon
<1>10. ASSUME NEW k \in 1 .. n PROVE r[k] = ReplaceEach(from[k], to[k], r[k - 1])
  <2>1. k \in 0 .. n /\ k # 0
    OBVIOUS
  <2> QED BY <1>7, <2>1, Zenon
<1> QED BY <1>8, <1>9, <1>10 DEF r

(* What each of them leaves is a text.                                     *)
LEMMA TurnsAreTexts ==
  ASSUME NEW from, NEW to, NEW u \in Texts, Replaces(from, to)
  PROVE  /\ \A k \in 0 .. Len(from) : Turn(from, to, u)[k] \in Texts
         /\ ReplaceInTurn(from, to, u) \in Texts
<1> DEFINE r == Turn(from, to, u)
           n == Len(from)
           T == {k \in 0 .. n : r[k] \in Texts}
<1>1. n \in Nat /\ \A k \in 1 .. n : from[k] \in Texts /\ from[k] # <<>> /\ to[k] \in Texts
  BY DEF Replaces
<1>2. /\ ReplaceInTurn(from, to, u) = r[n] /\ r[0] = u
      /\ \A k \in 1 .. n : r[k] = ReplaceEach(from[k], to[k], r[k - 1])
  BY <1>1, TurnIs
<1> HIDE DEF n, r
<1>3. 0 \in T
  BY <1>1, <1>2
<1>4. ASSUME NEW k \in T, k \in 0 .. n - 1 PROVE k + 1 \in T
  <2>1. k + 1 \in 1 .. n /\ k + 1 - 1 = k /\ k + 1 \in 0 .. n
    BY <1>1, <1>4
  <2>2. r[k + 1] = ReplaceEach(from[k + 1], to[k + 1], r[k])
    BY <1>2, <2>1
  <2> QED BY <1>1, <2>1, <2>2, EachIsText
<1>5. 0 .. n \subseteq T
  <2> HIDE DEF T
  <2> QED BY <1>1, <1>3, <1>4, IntervalInduction
<1>6. n \in 0 .. n
  BY <1>1
<1> QED BY <1>2, <1>5, <1>6 DEF n, r

(* What does not occur does nothing in its turn.                           *)
LEMMA TurnsWithout ==
  ASSUME NEW from, NEW to, NEW u \in Texts, Replaces(from, to),
         NEW a \in 0 .. Len(from), NEW b \in a .. Len(from),
         \A k \in a + 1 .. b : ~Occurs(from[k], Turn(from, to, u)[a])
  PROVE  Turn(from, to, u)[b] = Turn(from, to, u)[a]
<1> DEFINE r == Turn(from, to, u)
           n == Len(from)
           T == {k \in 0 .. b : k >= a => r[k] = r[a]}
<1>1. n \in Nat /\ \A k \in 1 .. n : from[k] \in Texts /\ from[k] # <<>> /\ to[k] \in Texts
  BY DEF Replaces
<1>2. \A k \in 1 .. n : r[k] = ReplaceEach(from[k], to[k], r[k - 1])
  BY <1>1, TurnIs
<1>3. r[a] \in Texts
  BY TurnsAreTexts
<1>4. n \in Nat /\ a \in 0 .. n /\ b \in a .. n
  BY <1>1
<1>5. \A k \in a + 1 .. b : ~Occurs(from[k], r[a])
  OBVIOUS
<1> HIDE DEF n, r
<1>6. 0 \in T
  BY <1>4
<1>7. ASSUME NEW k \in T, k \in 0 .. b - 1 PROVE k + 1 \in T
  <2>1. k + 1 \in 1 .. n /\ k + 1 - 1 = k /\ k + 1 \in 0 .. b
    BY <1>4, <1>7
  <2>2. CASE k >= a
    <3>1. r[k + 1] = ReplaceEach(from[k + 1], to[k + 1], r[a])
      BY <1>2, <2>1, <2>2
    <3>2. k + 1 \in a + 1 .. b
      BY <1>4, <1>7, <2>2
    <3>3. r[k + 1] = r[a]
      BY <1>1, <1>3, <1>5, <2>1, <3>1, <3>2, EachNowhere
    <3> QED BY <2>1, <3>3
  <2>3. CASE k + 1 = a
    BY <2>1, <2>3
  <2>4. CASE k + 1 < a
    BY <1>4, <2>1, <2>4
  <2> QED BY <1>4, <1>7, <2>2, <2>3, <2>4
<1>8. b \in Nat /\ b \in 0 .. b /\ b >= a
  BY <1>4
<1>9. 0 .. b \subseteq T
  <2> HIDE DEF T
  <2> QED BY <1>6, <1>7, <1>8, IntervalInduction
<1> QED BY <1>8, <1>9 DEF r

(* When none of the texts occurs, none of them changes anything.           *)
LEMMA InTurnNowhere ==
  ASSUME NEW from, NEW to, NEW u \in Texts, Replaces(from, to),
         \A k \in 1 .. Len(from) : ~Occurs(from[k], u)
  PROVE  ReplaceInTurn(from, to, u) = u
<1>1. Len(from) \in Nat
  BY DEF Replaces
<1>2. /\ ReplaceInTurn(from, to, u) = Turn(from, to, u)[Len(from)]
      /\ Turn(from, to, u)[0] = u
  BY <1>1, TurnIs
<1>3. 0 \in 0 .. Len(from) /\ Len(from) \in 0 .. Len(from) /\ 0 + 1 = 1
  BY <1>1
<1>4. Turn(from, to, u)[Len(from)] = Turn(from, to, u)[0]
  BY <1>2, <1>3, TurnsWithout
<1> QED BY <1>2, <1>4

(* A token that is not in what is looked for divides the work in turn.     *)
LEMMA InTurnAround ==
  ASSUME NEW from, NEW to, Replaces(from, to),
         NEW s \in Texts, NEW c \in Tokens, NEW t \in Texts,
         \A k \in 1 .. Len(from) : c \notin ToSet(from[k])
  PROVE  ReplaceInTurn(from, to, Around(s, c, t)) =
           Around(ReplaceInTurn(from, to, s), c, ReplaceInTurn(from, to, t))
<1> DEFINE u == Around(s, c, t)
           n == Len(from)
           r == Turn(from, to, u)
           rs == Turn(from, to, s)
           rt == Turn(from, to, t)
           T == {k \in 0 .. n : r[k] = Around(rs[k], c, rt[k])}
<1>1. n \in Nat /\ \A k \in 1 .. n : from[k] \in Texts /\ from[k] # <<>> /\ to[k] \in Texts
  BY DEF Replaces
<1>2. /\ ReplaceInTurn(from, to, u) = r[n] /\ r[0] = u
      /\ \A k \in 1 .. n : r[k] = ReplaceEach(from[k], to[k], r[k - 1])
  BY <1>1, TurnIs
<1>3. /\ ReplaceInTurn(from, to, s) = rs[n] /\ rs[0] = s
      /\ \A k \in 1 .. n : rs[k] = ReplaceEach(from[k], to[k], rs[k - 1])
  BY <1>1, TurnIs
<1>4. /\ ReplaceInTurn(from, to, t) = rt[n] /\ rt[0] = t
      /\ \A k \in 1 .. n : rt[k] = ReplaceEach(from[k], to[k], rt[k - 1])
  BY <1>1, TurnIs
<1>5. \A k \in 0 .. n : rs[k] \in Texts /\ rt[k] \in Texts
  BY TurnsAreTexts
<1>6. \A k \in 1 .. n : c \notin ToSet(from[k])
  OBVIOUS
<1> HIDE DEF n, r, rs, rt
<1>7. 0 \in T
  BY <1>1, <1>2, <1>3, <1>4
<1>8. ASSUME NEW k \in T, k \in 0 .. n - 1 PROVE k + 1 \in T
  <2>1. k + 1 \in 1 .. n /\ k + 1 - 1 = k /\ k + 1 \in 0 .. n
    BY <1>1, <1>8
  <2>2. /\ r[k + 1] = ReplaceEach(from[k + 1], to[k + 1], r[k])
        /\ rs[k + 1] = ReplaceEach(from[k + 1], to[k + 1], rs[k])
        /\ rt[k + 1] = ReplaceEach(from[k + 1], to[k + 1], rt[k])
    BY <1>2, <1>3, <1>4, <2>1
  <2>3. r[k] = Around(rs[k], c, rt[k])
    OBVIOUS
  <2>4. r[k + 1] = Around(rs[k + 1], c, rt[k + 1])
    BY <1>1, <1>5, <1>6, <2>1, <2>2, <2>3, EachAround
  <2> QED BY <2>1, <2>4
<1>9. 0 .. n \subseteq T
  <2> HIDE DEF T
  <2> QED BY <1>1, <1>7, <1>8, IntervalInduction
<1>10. n \in 0 .. n
  BY <1>1
<1> QED BY <1>2, <1>3, <1>4, <1>9, <1>10

-----------------------------------------------------------------------------
(* Nodes' names.                                                           *)

(* Host names in the order they are replaced, and what replaces them.      *)
NamesReady ==
  \/ mapping = <<>> /\ hostnames = <<>>
  \/ /\ mapping = BuildNodeMapping(nodes)
     /\ hostnames \in {order \in SetToSeqs(DOMAIN mapping) :
          \A i, j \in DOMAIN order : i < j => Len(order[i]) >= Len(order[j])}

(* What each host name in that order is replaced by.                       *)
Renamed == [k \in DOMAIN hostnames |-> mapping[hostnames[k]]]

(* Names and pseudonyms are texts.                                         *)
LEMMA NamesAreTexts ==
  ASSUME NEW list \in Clusters
  PROVE  /\ \A n \in NodeNames(list) : n \in Texts /\ n # <<>>
         /\ \A p \in Pseudonyms(list) : p \in Texts
         /\ DOMAIN BuildNodeMapping(list) = NodeNames(list)
         /\ \A n \in NodeNames(list) : BuildNodeMapping(list)[n] \in Pseudonyms(list)
<1>1. \A n \in NodeNames(list) : n \in Texts /\ n # <<>>
  BY AnonymizerAssumption, StringsAreTokens DEF NodeNames
<1>2. DOMAIN BuildNodeMapping(list) = NodeNames(list)
  BY MappingOf
<1>3. ASSUME NEW n \in NodeNames(list) PROVE BuildNodeMapping(list)[n] \in Texts
  <2> DEFINE a == RoleFor(list[PlaceOf(list, n)].roles) \o "-"
             b == ToString(Cardinality(SameRole(list, n)))
  <2>1. BuildNodeMapping(list)[n] = <<a, b>>
    BY MappingOf
  <2>2. a \in Tokens /\ b \in Tokens
    BY PlaceIsCounted, WritingAssumption, StringsAreTokens, ZenonT(60)
  <2>3. ASSUME NEW S, NEW x \in S, NEW y \in S PROVE <<x, y>> \in Seq(S)
    OBVIOUS
  <2> QED BY <2>1, <2>2, <2>3, Zenon DEF Texts
<1> QED BY <1>1, <1>2, <1>3 DEF Pseudonyms

(* Each name has one turn, before every shorter one.                       *)
LEMMA HostnamesAre ==
  ASSUME nodes \in Clusters, NamesReady
  PROVE  /\ Len(hostnames) \in Nat /\ DOMAIN hostnames = 1 .. Len(hostnames)
         /\ \A k \in 1 .. Len(hostnames) :
              hostnames[k] \in NodeNames(nodes) /\ Renamed[k] = BuildNodeMapping(nodes)[hostnames[k]]
         /\ \A i, j \in 1 .. Len(hostnames) :
              i < j => hostnames[i] # hostnames[j] /\ Len(hostnames[i]) >= Len(hostnames[j])
         /\ mapping # <<>> => \A n \in NodeNames(nodes) : \E k \in 1 .. Len(hostnames) : hostnames[k] = n
<1>1. CASE mapping = <<>> /\ hostnames = <<>>
  <2>1. Len(hostnames) = 0 /\ DOMAIN hostnames = 1 .. 0
    BY <1>1
  <2> QED BY <1>1, <2>1
<1>2. CASE /\ mapping = BuildNodeMapping(nodes)
           /\ hostnames \in {order \in SetToSeqs(DOMAIN mapping) :
                \A i, j \in DOMAIN order : i < j => Len(order[i]) >= Len(order[j])}
  <2> DEFINE S == DOMAIN mapping
             n == Cardinality(S)
  <2>1. S = NodeNames(nodes) /\ IsFiniteSet(S)
    BY <1>2, MappingOf, MappingIsTyped
  <2>2. n \in Nat
    BY <2>1, FS_CardinalityType
  <2>3. hostnames \in [1..n -> S] /\ \A i, j \in 1..n : i # j => hostnames[i] # hostnames[j]
    BY <1>2 DEF SetToSeqs
  <2>4. Len(hostnames) = n /\ DOMAIN hostnames = 1..n
    BY <2>2, <2>3
  <2>5. ToSet(hostnames) = S
    BY <1>2, <2>1, OrdersAreComplete
  <2>6. \A k \in 1..n : hostnames[k] \in S /\ Renamed[k] = BuildNodeMapping(nodes)[hostnames[k]]
    BY <1>2, <2>3, <2>4 DEF Renamed
  <2>7. \A i, j \in 1..n : i < j => Len(hostnames[i]) >= Len(hostnames[j])
    BY <1>2, <2>4
  <2>8. \A i, j \in 1..n : i < j => i # j
    BY <2>2
  <2>9. \A x \in S : \E k \in 1..n : hostnames[k] = x
    BY <2>4, <2>5 DEF ToSet
  <2> HIDE DEF n, S
  <2> QED BY <2>1, <2>2, <2>3, <2>4, <2>6, <2>7, <2>8, <2>9
<1> QED BY <1>1, <1>2 DEF NamesReady

(* The names are texts that are replaced in turn.                          *)
LEMMA NamesReplace ==
  ASSUME nodes \in Clusters, NamesReady
  PROVE  /\ Replaces(hostnames, Renamed)
         /\ \A u : ReplaceNames(u) = ReplaceInTurn(hostnames, Renamed, u)
         /\ \A u \in Texts : ReplaceNames(u) \in Texts
<1>1. Replaces(hostnames, Renamed)
  BY HostnamesAre, NamesAreTexts DEF Replaces
<1>2. \A u : ReplaceNames(u) = ReplaceInTurn(hostnames, Renamed, u)
  BY DEF ReplaceNames, Renamed
<1> QED BY <1>1, <1>2, TurnsAreTexts

(* A text without a name is not changed.                                   *)
LEMMA NoNameNoChange ==
  ASSUME nodes \in Clusters, NamesReady, NEW u \in Texts,
         mapping = <<>> \/ \A n \in NodeNames(nodes) : ~Occurs(n, u)
  PROVE  ReplaceNames(u) = u
<1>1. \A k \in 1 .. Len(hostnames) : ~Occurs(hostnames[k], u)
  <2>1. CASE mapping # <<>>
    BY <2>1, HostnamesAre
  <2>2. CASE mapping = <<>> /\ ~\A n \in NodeNames(nodes) : ~Occurs(n, u)
    <3>1. hostnames = <<>>
      <4>1. CASE mapping = BuildNodeMapping(nodes)
        <5>1. NodeNames(nodes) = {}
          BY <2>2, <4>1, NamesAreTexts
        <5> QED BY <2>2, <5>1
      <4> QED BY <4>1 DEF NamesReady
    <3> QED BY <3>1
  <2>3. CASE \A n \in NodeNames(nodes) : ~Occurs(n, u)
    BY <2>3, HostnamesAre
  <2> QED BY <2>1, <2>2, <2>3
<1> QED BY <1>1, NamesReplace, InTurnNowhere

(* In a text no longer than the name, the name is found only when they are *)
(* the same.                                                               *)
LEMMA OccursInShorter ==
  ASSUME NEW p \in Texts, p # <<>>, NEW u \in Texts, Len(p) >= Len(u)
  PROVE  /\ \A i \in 1 .. Len(u) : OccursAt(p, u, i) <=> i = 1 /\ p = u
         /\ Occurs(p, u) => p = u
<1>1. Len(p) \in Nat /\ Len(u) \in Nat /\ DOMAIN u = 1 .. Len(u) /\ Len(p) # 0
  BY TextIs
<1>2. ASSUME NEW i \in 1 .. Len(u) PROVE OccursAt(p, u, i) <=> i = 1 /\ p = u
  <2>1. OccursAt(p, u, i) <=> i + Len(p) - 1 <= Len(u) /\ \A j \in 1 .. Len(p) : u[i + j - 1] = p[j]
    BY OccursAtIs
  <2>2. ASSUME OccursAt(p, u, i) PROVE i = 1 /\ p = u
    <3>1. i = 1 /\ Len(p) = Len(u)
      BY <1>1, <2>1, <2>2
    <3>2. \A j \in 1 .. Len(p) : u[j] = p[j]
      <4> TAKE j \in 1 .. Len(p)
      <4>1. i + j - 1 = j
        BY <1>1, <3>1
      <4> QED BY <2>1, <2>2, <4>1
    <3> QED BY <3>1, <3>2, SameTexts
  <2>3. ASSUME i = 1, p = u PROVE OccursAt(p, u, i)
    <3>1. i + Len(p) - 1 <= Len(u) /\ \A j \in 1 .. Len(p) : i + j - 1 = j
      BY <1>1, <2>3
    <3> QED BY <2>1, <2>3, <3>1
  <2> QED BY <2>2, <2>3
<1> QED BY <1>1, <1>2 DEF Occurs

(* A node's name becomes its pseudonym: what is replaced before it is not  *)
(* in it, and what is replaced after it is not in the pseudonym.           *)
LEMMA NameIsReplaced ==
  ASSUME nodes \in Clusters, NamesReady, NamesStandOut(nodes), mapping # <<>>,
         NEW n \in NodeNames(nodes)
  PROVE  ReplaceNames(n) = mapping[n] /\ mapping[n] \in Pseudonyms(nodes)
<1> DEFINE r == Turn(hostnames, Renamed, n)
           m == Len(hostnames)
<1>1. PICK k \in 1 .. m : hostnames[k] = n
  BY HostnamesAre
<1>2. /\ m \in Nat
      /\ \A j \in 1 .. m : hostnames[j] \in NodeNames(nodes)
      /\ \A i, j \in 1 .. m : i < j => hostnames[i] # hostnames[j] /\ Len(hostnames[i]) >= Len(hostnames[j])
  BY HostnamesAre
<1>3. n \in Texts /\ n # <<>> /\ Replaces(hostnames, Renamed)
  BY NamesAreTexts, NamesReplace
<1>4. mapping = BuildNodeMapping(nodes)
  BY DEF NamesReady
<1>5. /\ ReplaceInTurn(hostnames, Renamed, n) = r[m] /\ r[0] = n
      /\ \A j \in 1 .. m : r[j] = ReplaceEach(hostnames[j], Renamed[j], r[j - 1])
  BY <1>2, TurnIs, SMTT(30)
<1>6. mapping[n] \in Pseudonyms(nodes) /\ mapping[n] \in Texts /\ Renamed[k] = mapping[n]
  BY <1>1, <1>4, NamesAreTexts, HostnamesAre
<1>7. r[k - 1] = n
  <2>1. 0 \in 0 .. m /\ k - 1 \in 0 .. m /\ 0 + 1 = 1
    BY <1>2
  <2>2. \A j \in 0 + 1 .. k - 1 : ~Occurs(hostnames[j], n)
    <3> TAKE j \in 0 + 1 .. k - 1
    <3>1. j \in 1 .. m /\ j < k
      BY <1>2
    <3>2. hostnames[j] # n /\ Len(hostnames[j]) >= Len(n) /\ hostnames[j] \in NodeNames(nodes)
      BY <1>1, <1>2, <3>1
    <3>3. hostnames[j] \in Texts /\ hostnames[j] # <<>>
      BY <3>2, NamesAreTexts
    <3> QED BY <1>3, <3>2, <3>3, OccursInShorter
  <2>3. r[k - 1] = r[0]
    BY <1>3, <1>5, <2>1, <2>2, TurnsWithout
  <2> QED BY <1>5, <2>3
<1>8. r[k] = mapping[n]
  <2>1. r[k] = ReplaceEach(n, mapping[n], n)
    BY <1>1, <1>5, <1>6, <1>7
  <2>2. Len(n) \in Nat /\ Len(n) # 0
    BY <1>3, TextIs
  <2>3. 1 \in 1 .. Len(n) /\ 1 = Len(n) - Len(n) + 1 /\ 1 - 1 = 0
    BY <2>2
  <2>4. \A i \in 1 .. Len(n) : OccursAt(n, n, i) <=> i = 1
    BY <1>3, <2>2, OccursInShorter
  <2>5. ReplaceEach(n, mapping[n], n) = Cat(SubSeq(n, 1, 1 - 1), mapping[n])
    BY <1>3, <1>6, <2>3, <2>4, EachAtTheEnd
  <2>6. SubSeq(n, 1, 0) = <<>>
    BY SubSeqEmpty
  <2>7. Cat(<<>>, mapping[n]) = mapping[n]
    BY <1>6, TextIs
  <2> QED BY <2>1, <2>3, <2>5, <2>6, <2>7
<1>9. r[m] = r[k]
  <2>1. k \in 0 .. m /\ m \in k .. m
    BY <1>2
  <2>2. \A j \in k + 1 .. m : ~Occurs(hostnames[j], r[k])
    <3> TAKE j \in k + 1 .. m
    <3>1. j \in 1 .. m
      BY <1>2
    <3>2. hostnames[j] \in NodeNames(nodes)
      BY <1>2, <3>1
    <3> QED BY <1>6, <1>8, <3>2 DEF NamesStandOut
  <2> QED BY <1>3, <2>1, <2>2, TurnsWithout
<1>10. ReplaceNames(n) = r[m]
  BY <1>5, NamesReplace
<1> QED BY <1>6, <1>8, <1>9, <1>10

-----------------------------------------------------------------------------
(* The domain.                                                             *)

(* A text without its first token.                                         *)
LEMMA TailOf ==
  ASSUME NEW u \in Texts, u # <<>>
  PROVE  /\ Tail(u) \in Texts /\ Len(u) \in Nat /\ Len(Tail(u)) = Len(u) - 1
         /\ \A i \in 1 .. Len(Tail(u)) : Tail(u)[i] = u[i + 1]
         /\ ToSet(Tail(u)) \subseteq ToSet(u)
<1>1. Len(u) \in Nat /\ DOMAIN u = 1 .. Len(u)
  BY TextIs
<1>2. /\ Tail(u) \in Texts /\ Len(Tail(u)) = Len(u) - 1
      /\ \A i \in 1 .. Len(Tail(u)) : Tail(u)[i] = u[i + 1]
  BY HeadTailProperties DEF Texts
<1>3. DOMAIN Tail(u) = 1 .. Len(Tail(u))
  BY <1>2, TextIs
<1>4. \A i \in 1 .. Len(Tail(u)) : i + 1 \in DOMAIN u
  BY <1>1, <1>2
<1>5. ToSet(Tail(u)) \subseteq ToSet(u)
  BY <1>2, <1>3, <1>4 DEF ToSet
<1> QED BY <1>1, <1>2, <1>5

(* Two tokens less, of four or more.                                       *)
LEMMA ShorterForm ==
  ASSUME NEW u \in Texts, Len(u) >= 3
  PROVE  LET v == Tail(Tail(u)) IN
         /\ v \in Texts /\ Len(u) \in Nat /\ Len(v) = Len(u) - 2 /\ Last(v) = Last(u)
         /\ ToSet(v) \subseteq ToSet(u)
<1> DEFINE t == Tail(u)
           v == Tail(t)
<1>1. u # <<>>
  BY NoneIs
<1>2. /\ t \in Texts /\ Len(u) \in Nat /\ Len(t) = Len(u) - 1
      /\ \A i \in 1 .. Len(t) : t[i] = u[i + 1]
      /\ ToSet(t) \subseteq ToSet(u)
  BY <1>1, TailOf
<1> HIDE DEF t
<1>3. t # <<>>
  BY <1>2, NoneIs
<1>4. /\ v \in Texts /\ Len(v) = Len(t) - 1
      /\ \A i \in 1 .. Len(v) : v[i] = t[i + 1]
      /\ ToSet(v) \subseteq ToSet(t)
  BY <1>2, <1>3, TailOf
<1> HIDE DEF v
<1>5. v[Len(v)] = u[Len(u)]
  <2>1. Len(v) \in 1 .. Len(v) /\ Len(v) + 1 = Len(t) /\ Len(t) \in 1 .. Len(t) /\ Len(t) + 1 = Len(u)
    BY <1>2, <1>4
  <2>2. v[Len(v)] = t[Len(v) + 1] /\ t[Len(t)] = u[Len(t) + 1]
    BY <1>2, <1>4, <2>1
  <2> QED BY <2>1, <2>2
<1> QED BY <1>2, <1>4, <1>5 DEF v, t, Last

(* The forms of a domain: shorter and shorter, with one end.               *)
LEMMA FormsAre ==
  ASSUME NEW d \in Domains
  PROVE  LET forms == DomainForms(d) IN
         /\ d \in Texts
         /\ Len(forms) \in Nat /\ DOMAIN forms = 1 .. Len(forms)
         /\ d = <<>> => Len(forms) = 0
         /\ \A k \in 1 .. Len(forms) :
              /\ forms[k] \in Texts /\ forms[k] # <<>> /\ Last(forms[k]) = Last(d)
              /\ ToSet(forms[k]) \subseteq ToSet(d)
         /\ \A j, k \in 1 .. Len(forms) : j < k => Len(forms[j]) > Len(forms[k])
<1> DEFINE forms == DomainForms(d)
<1>1. d \in Texts
  BY AnonymizerAssumption, StringsAreTokens
<1>2. CASE d = <<>>
  <2>1. forms = <<>>
    BY <1>2 DEF DomainForms
  <2> HIDE DEF forms
  <2>2. Len(forms) = 0 /\ DOMAIN forms = 1 .. 0
    BY <2>1
  <2>3. Len(forms) \in Nat /\ DOMAIN forms = 1 .. Len(forms) /\ \A k \in 1 .. Len(forms) : FALSE
    BY <2>2
  <2> QED BY <1>1, <2>2, <2>3 DEF forms
<1>3. CASE d # <<>> /\ Head(d) # "apps"
  <2>1. forms = <<d>>
    BY <1>3 DEF DomainForms
  <2> HIDE DEF forms
  <2>2. Len(forms) = 1 /\ DOMAIN forms = 1 .. 1 /\ forms[1] = d
    BY <2>1
  <2>3. \A k \in 1 .. Len(forms) : forms[k] = d /\ k = 1
    BY <2>2
  <2> QED BY <1>1, <1>3, <2>2, <2>3 DEF forms
<1>4. CASE d # <<>> /\ Head(d) = "apps"
  <2> DEFINE e == Tail(Tail(d))
             f == Tail(Tail(e))
  <2>1. forms = <<d, e, f>>
    BY <1>4 DEF DomainForms
  <2>2. Len(d) >= 5
    BY <1>4, AnonymizerAssumption
  <2>3. Len(d) \in Nat /\ Len(d) >= 3
    BY <1>1, <2>2, TextIs
  <2>4. /\ e \in Texts /\ Len(e) = Len(d) - 2 /\ Last(e) = Last(d)
        /\ ToSet(e) \subseteq ToSet(d)
    BY <1>1, <2>3, ShorterForm
  <2> HIDE DEF e
  <2>5. Len(e) \in Nat /\ Len(e) >= 3
    BY <2>2, <2>3, <2>4
  <2>6. /\ f \in Texts /\ Len(f) = Len(e) - 2 /\ Last(f) = Last(e)
        /\ ToSet(f) \subseteq ToSet(e)
    BY <2>4, <2>5, ShorterForm
  <2> HIDE DEF f, forms
  <2>7. e # <<>> /\ f # <<>>
    BY <2>5, <2>6, NoneIs
  <2>8. Len(forms) = 3 /\ DOMAIN forms = 1 .. 3 /\ forms[1] = d /\ forms[2] = e /\ forms[3] = f
    BY <2>1
  <2>9. \A k \in 1 .. Len(forms) : k = 1 \/ k = 2 \/ k = 3
    BY <2>8
  <2>10. \A k \in 1 .. Len(forms) :
          /\ forms[k] \in Texts /\ forms[k] # <<>> /\ Last(forms[k]) = Last(d)
          /\ ToSet(forms[k]) \subseteq ToSet(d)
    BY <1>1, <1>4, <2>4, <2>6, <2>7, <2>8, <2>9
  <2>11. \A j, k \in 1 .. Len(forms) : j < k => Len(forms[j]) > Len(forms[k])
    <3> TAKE j, k \in 1 .. Len(forms)
    <3>1. j < k => (j = 1 /\ k = 2) \/ (j = 1 /\ k = 3) \/ (j = 2 /\ k = 3)
      BY <2>8
    <3>2. Len(d) > Len(e) /\ Len(d) > Len(f) /\ Len(e) > Len(f)
      BY <2>3, <2>4, <2>5, <2>6
    <3> QED BY <2>8, <3>1, <3>2
  <2> QED BY <1>1, <1>4, <2>8, <2>10, <2>11 DEF forms
<1> QED BY <1>2, <1>3, <1>4

(* A mask has dots and x, and no dot at its end when the domain has none.  *)
LEMMA MaskIs ==
  ASSUME NEW f \in Texts
  PROVE  /\ DomainMask(f) \in Texts /\ Len(DomainMask(f)) = Len(f)
         /\ \A i \in 1 .. Len(f) : DomainMask(f)[i] \in {".", "x"}
<1>1. Len(f) \in Nat /\ DOMAIN f = 1 .. Len(f)
  BY TextIs
<1>2. \A i \in 1 .. Len(f) : DomainMask(f)[i] \in {".", "x"}
  BY <1>1 DEF DomainMask
<1>3. DomainMask(f) = [i \in 1 .. Len(f) |-> DomainMask(f)[i]]
  BY <1>1 DEF DomainMask
<1>4. "." \in Tokens /\ "x" \in Tokens
  BY Zenon DEF Tokens
<1>5. DomainMask(f) \in [1 .. Len(f) -> Tokens]
  <2> DEFINE m == DomainMask(f)
  <2> HIDE DEF m
  <2>1. m = [i \in 1 .. Len(f) |-> m[i]] /\ \A i \in 1 .. Len(f) : m[i] \in Tokens
    BY <1>2, <1>3, <1>4 DEF m
  <2> QED BY <2>1 DEF m
<1> QED BY <1>1, <1>2, <1>5 DEF Texts

(* The mask at the end: the longest form that is found there.              *)
LEMMA DomainIsMasked ==
  ASSUME NEW d \in Domains, NEW u \in Texts,
         d # <<>> => Last(d) \notin {".", "x"},
         \A form \in ToSet(DomainForms(d)) : \A i \in DOMAIN u :
           OccursAt(form, u, i) => i = Len(u) - Len(form) + 1
  PROVE  ReplaceDomains(d, u) = MaskSuffix(u, d)
<1> DEFINE forms == DomainForms(d)
           masks == [k \in DOMAIN forms |-> DomainMask(forms[k])]
           n == Len(forms)
           r == Turn(forms, masks, u)
           Last1 == Last(d)
           ends == {form \in ToSet(forms) : Ends(form, u)}
<1>1. /\ n \in Nat /\ DOMAIN forms = 1 .. n /\ (d = <<>> => n = 0)
      /\ \A k \in 1 .. n : forms[k] \in Texts /\ forms[k] # <<>> /\ Last(forms[k]) = Last(d)
      /\ \A j, k \in 1 .. n : j < k => Len(forms[j]) > Len(forms[k])
  BY FormsAre
<1>2. Len(u) \in Nat /\ DOMAIN u = 1 .. Len(u) /\ \A k \in 1 .. n : Len(forms[k]) \in Nat /\ Len(forms[k]) # 0
  BY <1>1, TextIs
<1>3. Replaces(forms, masks) /\ \A k \in 1 .. n : masks[k] = DomainMask(forms[k])
  BY <1>1, MaskIs DEF Replaces
<1>4. ReplaceDomains(d, u) = r[n] /\ r[0] = u /\ \A k \in 1 .. n : r[k] = ReplaceEach(forms[k], masks[k], r[k - 1])
  BY <1>1, TurnIs, SMTT(30) DEF ReplaceDomains
<1>5. ToSet(forms) = {forms[k] : k \in 1 .. n}
  BY <1>1 DEF ToSet
<1>6. \A k \in 1 .. n : \A i \in 1 .. Len(u) : OccursAt(forms[k], u, i) => i = Len(u) - Len(forms[k]) + 1
  BY <1>1, <1>2, <1>5
<1>7. \A k \in 1 .. n : Occurs(forms[k], u) => Ends(forms[k], u)
  <2> SUFFICES ASSUME NEW k \in 1 .. n, NEW i \in 1 .. Len(u), OccursAt(forms[k], u, i)
               PROVE  Ends(forms[k], u)
    BY <1>2 DEF Occurs
  <2>1. i = Len(u) - Len(forms[k]) + 1
    BY <1>6
  <2>2. Len(forms[k]) <= Len(u)
    BY <1>2, <2>1
  <2> QED BY <2>1, <2>2 DEF Ends
<1>8. \A k \in 1 .. n : forms[k] \in ends <=> Ends(forms[k], u)
  BY <1>5
<1>9. MaskSuffix(u, d) =
        IF ends = {} THEN u
        ELSE LET form == CHOOSE x \in ends : \A y \in ends : Len(y) <= Len(x)
             IN Cat(SubSeq(u, 1, Len(u) - Len(form)), DomainMask(form))
  BY DEF MaskSuffix, Cat
<1> HIDE DEF forms, masks, n, r, ends
<1>10. CASE ends = {}
  <2>1. \A k \in 1 .. n : ~Occurs(forms[k], u)
    BY <1>7, <1>8, <1>10
  <2>2. 0 \in 0 .. n /\ n \in 0 .. n /\ 0 + 1 = 1
    BY <1>1
  <2>3. r[n] = r[0]
    BY <1>3, <1>4, <2>1, <2>2, TurnsWithout DEF n, r
  <2> QED BY <1>4, <1>9, <1>10, <2>3
<1>11. CASE ends # {}
  <2>1. PICK k \in 1 .. n : Ends(forms[k], u) /\ \A j \in 1 .. n : Ends(forms[j], u) => k <= j
    <3> DEFINE T == {j \in 1 .. n : Ends(forms[j], u)}
    <3>1. T \subseteq Nat /\ T # {}
      BY <1>1, <1>5, <1>11, SMTT(30) DEF ends
    <3> HIDE DEF T
    <3>2. \E j \in T : \A m \in T : j <= m
      BY <3>1, LeastNumber
    <3> QED BY <3>2 DEF T
  <2> DEFINE f == forms[k]
             b == Len(u) - Len(f) + 1
             m == masks[k]
             v == SubSeq(u, 1, b - 1)
             w == Cat(v, m)
  <2>2. f \in Texts /\ f # <<>> /\ m = DomainMask(f) /\ Len(f) \in Nat /\ Len(f) # 0 /\ Last(f) = Last(d)
    BY <1>1, <1>2, <1>3
  <2>3. Len(f) <= Len(u) /\ OccursAt(f, u, b) /\ b \in 1 .. Len(u) /\ b - 1 = Len(u) - Len(f)
    <3>1. Len(f) <= Len(u) /\ OccursAt(f, u, b)
      BY <2>1 DEF Ends
    <3> HIDE DEF f
    <3> QED BY <1>2, <2>2, <3>1
  <2>4. f = CHOOSE x \in ends : \A y \in ends : Len(y) <= Len(x)
    <3>1. f \in ends
      BY <1>8, <2>1
    <3>2. \A y \in ends : y # f => Len(y) < Len(f)
      <4> TAKE y \in ends
      <4>1. PICK j \in 1 .. n : y = forms[j]
        BY <1>5 DEF ends
      <4>2. k <= j
        BY <1>8, <2>1, <4>1
      <4>3. y # f => k < j
        BY <1>1, <4>1, <4>2
      <4> QED BY <1>1, <4>1, <4>3
    <3>3. \A y \in ends : Len(y) \in Nat
      BY <1>2, <1>5 DEF ends
    <3>4. \A y \in ends : Len(y) <= Len(f)
      BY <2>2, <3>2, <3>3
    <3>5. \A x \in ends : (\A y \in ends : Len(y) <= Len(x)) => x = f
      BY <3>1, <3>2, <3>3
    <3> HIDE DEF f
    <3> QED BY <3>1, <3>4, <3>5
  <2>5. MaskSuffix(u, d) = w
    BY <1>9, <1>11, <2>2, <2>3, <2>4
  <2>6. r[k - 1] = u
    <3>1. \A j \in 0 + 1 .. k - 1 : ~Occurs(forms[j], u)
      <4> TAKE j \in 0 + 1 .. k - 1
      <4>1. j \in 1 .. n /\ ~(k <= j)
        BY <1>1
      <4> QED BY <1>7, <2>1, <4>1
    <3>2. 0 \in 0 .. n /\ k - 1 \in 0 .. n
      BY <1>1
    <3>3. r[k - 1] = r[0]
      BY <1>3, <1>4, <3>1, <3>2, TurnsWithout DEF n, r
    <3> QED BY <1>4, <3>3
  <2>7. m \in Texts /\ Len(m) = Len(f) /\ \A i \in 1 .. Len(f) : m[i] \in {".", "x"}
    BY <2>2, MaskIs
  <2>8. r[k] = w
    <3>1. \A i \in 1 .. Len(u) : OccursAt(f, u, i) <=> i = b
      BY <1>6, <2>3
    <3>2. r[k] = ReplaceEach(f, m, u)
      BY <1>4, <2>6
    <3> HIDE DEF f, m
    <3>3. b = Len(u) - Len(f) + 1
      OBVIOUS
    <3> HIDE DEF b
    <3> QED BY <2>2, <2>3, <2>7, <3>1, <3>2, <3>3, EachAtTheEnd, ZenonT(60)
  <2>9. /\ v \in Texts /\ Len(v) = b - 1 /\ \A i \in 1 .. b - 1 : v[i] = u[i]
    <3> HIDE DEF f, b
    <3>1. 1 \in 1 .. Len(u) + 1 /\ b - 1 \in 0 .. Len(u)
      BY <1>2, <2>3
    <3>2. /\ v \in Texts /\ Len(v) = IF 1 <= b - 1 THEN b - 1 - 1 + 1 ELSE 0
          /\ \A i \in 1 .. b - 1 - 1 + 1 : v[i] = u[1 + i - 1]
      BY <3>1, PartIs
    <3> HIDE DEF v
    <3>3. \A i \in 1 .. b - 1 : i \in 1 .. b - 1 - 1 + 1 /\ 1 + i - 1 = i
      BY <1>2, <3>1
    <3> QED BY <1>2, <2>3, <3>1, <3>2, <3>3
  <2>10. /\ w \in Texts /\ Len(w) = b - 1 + Len(f)
         /\ \A i \in 1 .. b - 1 : w[i] = u[i]
         /\ \A i \in 1 .. Len(f) : w[b - 1 + i] \in {".", "x"}
    <3> HIDE DEF v, m
    <3>1. /\ w \in Texts /\ Len(w) = Len(v) + Len(m)
          /\ \A i \in 1 .. Len(v) : w[i] = v[i]
          /\ \A i \in 1 .. Len(m) : w[Len(v) + i] = m[i]
      BY <2>7, <2>9, CatIs
    <3> HIDE DEF w, b
    <3> QED BY <2>7, <2>9, <3>1
  <2> HIDE DEF f, m, v, w
  <2>11. \A j \in k + 1 .. n : ~Occurs(forms[j], w)
    <3> SUFFICES ASSUME NEW j \in k + 1 .. n, NEW i \in DOMAIN w, OccursAt(forms[j], w, i)
                 PROVE  FALSE
      BY DEF Occurs
    <3> DEFINE g == forms[j]
               e == i + Len(g) - 1
    <3>1. j \in 1 .. n
      BY <1>1
    <3>2. g \in Texts /\ g # <<>> /\ Last(g) = Last(d) /\ Len(g) \in Nat /\ Len(g) # 0
      BY <1>1, <1>2, <3>1
    <3>3. i \in 1 .. Len(w)
      BY <2>10, TextIs
    <3>4. e <= Len(w) /\ \A x \in 1 .. Len(g) : w[i + x - 1] = g[x]
      BY <2>10, <3>2, <3>3, OccursAtIs, SMTT(30)
    <3>5. w[e] = Last(d)
      <4>1. Len(g) \in 1 .. Len(g)
        BY <3>2
      <4> QED BY <3>2, <3>4, <4>1 DEF Last
    <3>6. Last(d) \notin {".", "x"}
      <4>1. d # <<>>
        BY <1>1
      <4> QED BY <4>1
    <3> HIDE DEF g
    <3>7. e \in Nat /\ ~(e - (b - 1) \in 1 .. Len(f))
      <4>1. ASSUME e - (b - 1) \in 1 .. Len(f) PROVE FALSE
        <5>1. w[b - 1 + (e - (b - 1))] \in {".", "x"}
          BY <2>10, <4>1
        <5>2. b - 1 + (e - (b - 1)) = e
          BY <1>2, <2>2, <2>3, <3>2, <3>3
        <5> HIDE DEF e, b
        <5> QED BY <3>5, <3>6, <5>1, <5>2
      <4>2. e \in Nat
        BY <3>2, <3>3
      <4> QED BY <4>1, <4>2
    <3>8. e <= b - 1
      <4> HIDE DEF e, b
      <4>1. e <= b - 1 + Len(f)
        BY <2>10, <3>4
      <4> QED BY <1>2, <2>2, <2>3, <3>7, <4>1
    <3>9. i \in 1 .. Len(u) /\ e <= Len(u) /\ e # Len(u)
      BY <1>2, <2>2, <2>3, <3>2, <3>3, <3>7, <3>8, SMTT(30)
    <3>10. \A x \in 1 .. Len(g) : u[i + x - 1] = g[x]
      <4> TAKE x \in 1 .. Len(g)
      <4>1. i + x - 1 \in 1 .. b - 1
        BY <1>2, <2>3, <3>2, <3>3, <3>8, SMTT(30)
      <4> HIDE DEF b
      <4> QED BY <2>10, <3>4, <4>1
    <3>11. OccursAt(g, u, i)
      BY <3>2, <3>9, <3>10, OccursAtIs
    <3>12. i = Len(u) - Len(g) + 1
      BY <1>6, <3>1, <3>9, <3>11 DEF g
    <3> QED BY <1>2, <3>2, <3>3, <3>9, <3>12
  <2>12. r[n] = r[k]
    <3>1. k \in 0 .. n /\ n \in k .. n
      BY <1>1
    <3> QED BY <1>3, <2>8, <2>11, <3>1, TurnsWithout DEF n, r
  <2> QED BY <1>4, <2>5, <2>8, <2>12
<1> QED BY <1>10, <1>11

-----------------------------------------------------------------------------
(* Services.                                                               *)

(* Tokens that ReplaceServices looks at.                                   *)
Blank == " "
Svc == "svc"

(* What ReplaceServices looks for, and where it ends.                      *)
Words(u) ==
  {m \in (DOMAIN u) \X (DOMAIN u) :
     /\ u[m[2]] = Svc
     /\ m[1] <= m[2] /\ (m[1] = 1 \/ u[m[1] - 1] = Blank)
     /\ \A i \in m[1] .. m[2] : u[i] # Blank}

(* A word that begins at i has a service's end at e.                       *)
WordEnd(u, i, e) ==
  u[e] = Svc /\ (i = 1 \/ u[i - 1] = Blank) /\ \A j \in i .. e : u[j] # Blank

(* What a service's name is replaced by.                                   *)
Cleaned == <<"cleaned", ".", "svc">>

(* The matches of ReplaceServices are inside of the text.                  *)
LEMMA WordsAre ==
  ASSUME NEW u \in Texts
  PROVE  /\ Fit(Words(u), u)
         /\ \A i \in 1 .. Len(u) : Lasts(Words(u), i) = {e \in i .. Len(u) : WordEnd(u, i, e)}
         /\ ReplaceServices(u) = Substitute(Words(u), Cleaned, u)
<1>1. Len(u) \in Nat /\ DOMAIN u = 1 .. Len(u)
  BY TextIs
<1>2. ASSUME NEW i \in 1 .. Len(u)
      PROVE  Lasts(Words(u), i) = {e \in i .. Len(u) : WordEnd(u, i, e)}
  <2>1. ASSUME NEW m \in Words(u), m[1] = i PROVE m[2] \in i .. Len(u) /\ WordEnd(u, i, m[2])
    BY <1>1, <2>1 DEF Words, WordEnd
  <2>2. ASSUME NEW e \in i .. Len(u), WordEnd(u, i, e)
        PROVE  \E m \in Words(u) : m[1] = i /\ m[2] = e
    <3>1. e \in DOMAIN u /\ i \in DOMAIN u /\ i <= e
      BY <1>1
    <3>2. <<i, e>> \in Words(u)
      BY <2>2, <3>1 DEF Words, WordEnd
    <3> QED BY <3>2
  <2> QED BY <2>1, <2>2 DEF Lasts
<1>3. Fit(Words(u), u)
  BY <1>2 DEF Fit
<1>4. ReplaceServices(u) = Substitute(Words(u), Cleaned, u)
  BY Zenon DEF ReplaceServices, Words, Cleaned, Blank, Svc
<1> QED BY <1>2, <1>3, <1>4

(* The texts that the model has of its own.                                *)
LEMMA LiteralsAreTexts ==
  /\ <<" ">> \in Texts /\ <<"10.0.0.1">> \in Texts /\ <<"x.x.x.x">> \in Texts
  /\ <<"0a:58:0a:00:00:01">> \in Texts /\ <<"xx:xx:xx:xx:xx:xx">> \in Texts
  /\ <<"cGFzcw==">> \in Texts /\ <<"<REDACTED>">> \in Texts /\ <<"etcd-">> \in Texts
  /\ <<"job">> \in Texts /\ <<"nodes">> \in Texts /\ <<"manifest">> \in Texts
  /\ <<"timestamp">> \in Texts
  /\ Cleaned \in Texts /\ Services \in Texts
<1>1. \A c \in Tokens : <<c>> \in Texts
  BY OneIs DEF One
<1>2. ASSUME NEW S, NEW a \in S, NEW b \in S, NEW c \in S PROVE <<a, b, c>> \in Seq(S)
  OBVIOUS
<1>3. ASSUME NEW S, NEW a \in S, NEW b \in S, NEW c \in S, NEW d \in S, NEW e \in S
      PROVE  <<a, b, c, d, e>> \in Seq(S)
  OBVIOUS
<1>4. /\ " " \in Tokens /\ "." \in Tokens /\ "x" \in Tokens /\ "10.0.0.1" \in Tokens
      /\ "x.x.x.x" \in Tokens /\ "0a:58:0a:00:00:01" \in Tokens
      /\ "xx:xx:xx:xx:xx:xx" \in Tokens /\ "db" \in Tokens /\ "ns" \in Tokens
      /\ "svc" \in Tokens /\ "cleaned" \in Tokens /\ "cGFzcw==" \in Tokens
      /\ "<REDACTED>" \in Tokens /\ "etcd-" \in Tokens /\ "job" \in Tokens
      /\ "nodes" \in Tokens /\ "manifest" \in Tokens /\ "timestamp" \in Tokens
  BY Zenon DEF Tokens
<1>5. Cleaned \in Texts
  BY <1>2, <1>4, Zenon DEF Cleaned, Texts
<1>6. Services \in Texts
  BY <1>3, <1>4, Zenon DEF Services, Texts
<1> QED BY <1>1, <1>4, <1>5, <1>6, Zenon

(* With no match nothing changes.                                          *)
LEMMA SubstituteNothing ==
  ASSUME NEW M, NEW to \in Texts, NEW u \in Texts, \A i \in 1 .. Len(u) : Lasts(M, i) = {}
  PROVE  Substitute(M, to, u) = u
<1>1. Len(u) \in Nat /\ Fit(M, u)
  BY TextIs DEF Fit
<1>2. Len(u) + 1 \in 1 .. Len(u) + 1 /\ Len(u) + 1 - 1 = Len(u) /\ 1 \in 1 .. Len(u) + 1
      /\ Len(u) \in 0 .. Len(u)
  BY <1>1
<1> DEFINE b == Len(u) + 1
<1>3. \A i \in 1 .. b - 1 : Lasts(M, i) = {}
  BY <1>2
<1>4. Substitute(M, to, u) = Cat(SubSeq(u, 1, b - 1), Rest(M, to, u)[b])
  <2>1. b \in 1 .. Len(u) + 1
    BY <1>2
  <2> HIDE DEF b
  <2> QED BY <1>1, <1>3, <2>1, BeforeTheFirst
<1>5. Rest(M, to, u)[b] = <<>>
  BY <1>1, RestIs
<1>6. SubSeq(u, 1, b - 1) = u
  BY <1>2, PartIs
<1> QED BY <1>4, <1>5, <1>6, TextIs

(* A text without a service is not changed.                                *)
LEMMA ServicesNowhere ==
  ASSUME NEW u \in Texts, Svc \notin ToSet(u)
  PROVE  ReplaceServices(u) = u
<1>1. Len(u) \in Nat /\ DOMAIN u = 1 .. Len(u)
  BY TextIs
<1>2. ASSUME NEW i \in 1 .. Len(u) PROVE Lasts(Words(u), i) = {}
  <2>1. \A e \in i .. Len(u) : e \in DOMAIN u
    BY <1>1
  <2>2. \A e \in i .. Len(u) : u[e] # Svc
    BY <2>1 DEF ToSet
  <2> QED BY <2>2, WordsAre DEF WordEnd
<1> QED BY <1>2, WordsAre, SubstituteNothing, LiteralsAreTexts

(* A service's name is cleaned.                                            *)
LEMMA ServiceIsCleaned == ReplaceServices(Services) = Cleaned
<1> DEFINE u == Services
           M == Words(u)
<1>1. /\ u \in Texts /\ Len(u) = 5 /\ u[5] = Svc
      /\ u[1] # Blank /\ u[2] # Blank /\ u[3] # Blank /\ u[4] # Blank /\ u[5] # Blank
  <2>1. u \in Texts
    BY LiteralsAreTexts
  <2>2. Len(u) = 5
    BY DEF Services
  <2>3. /\ u[5] = "svc"
        /\ u[1] # " " /\ u[2] # " " /\ u[3] # " " /\ u[4] # " " /\ u[5] # " "
    BY DEF Services
  <2> QED BY <2>1, <2>2, <2>3 DEF Svc, Blank
<1> HIDE DEF u
<1>2. /\ Fit(M, u) /\ ReplaceServices(u) = Substitute(M, Cleaned, u)
      /\ \A i \in 1 .. Len(u) : Lasts(M, i) = {e \in i .. Len(u) : WordEnd(u, i, e)}
  BY <1>1, WordsAre
<1> HIDE DEF M
<1>3. WordEnd(u, 1, 5)
  <2>1. \A j \in 1 .. 5 : j = 1 \/ j = 2 \/ j = 3 \/ j = 4 \/ j = 5
    OBVIOUS
  <2> QED BY <1>1, <2>1 DEF WordEnd
<1>4. 5 \in Lasts(M, 1)
  <2>1. 1 \in 1 .. Len(u) /\ 5 \in 1 .. Len(u)
    BY <1>1
  <2> QED BY <1>2, <1>3, <2>1
<1>5. Max(Lasts(M, 1)) = 5
  <2>1. 1 \in 1 .. Len(u)
    BY <1>1
  <2>2. Max(Lasts(M, 1)) \in 1 .. Len(u) /\ \A y \in Lasts(M, 1) : Max(Lasts(M, 1)) >= y
    BY <1>1, <1>2, <1>4, <2>1, LastFits
  <2> DEFINE m == Max(Lasts(M, 1))
  <2> HIDE DEF m
  <2>3. m \in 1 .. 5 /\ m >= 5
    BY <1>1, <1>4, <2>2 DEF m
  <2> QED BY <2>3 DEF m
<1>6. Rest(M, Cleaned, u)[1] = Cat(Cleaned, Rest(M, Cleaned, u)[5 + 1])
  <2>1. 1 \in 1 .. Len(u) /\ Lasts(M, 1) # {}
    BY <1>1, <1>4
  <2>2. Rest(M, Cleaned, u)[1] = Cat(Cleaned, Rest(M, Cleaned, u)[Max(Lasts(M, 1)) + 1])
    <3>1. Cleaned \in Texts
      BY LiteralsAreTexts
    <3>2. \A i \in 1 .. Len(u) : Rest(M, Cleaned, u)[i] =
            IF Lasts(M, i) = {} THEN Cat(One(u[i]), Rest(M, Cleaned, u)[i + 1])
            ELSE Cat(Cleaned, Rest(M, Cleaned, u)[Max(Lasts(M, i)) + 1])
      <4>1. u \in Texts /\ Fit(M, u)
        BY <1>1, <1>2
      <4> QED BY <3>1, <4>1, RestIs
    <3> QED BY <2>1, <3>2
  <2> QED BY <1>5, <2>2
<1>7. Rest(M, Cleaned, u)[5 + 1] = <<>>
  BY <1>1, <1>2, RestIs, ZenonT(60)
<1>8. Cat(Cleaned, <<>>) = Cleaned
  BY TextIs, LiteralsAreTexts
<1>9. Substitute(M, Cleaned, u) = Rest(M, Cleaned, u)[1]
  BY SubstituteIsRest
<1> QED BY <1>2, <1>6, <1>7, <1>8, <1>9 DEF u

(* No word goes over a space.                                              *)
LEMMA ServicesAround ==
  ASSUME NEW s \in Texts, NEW t \in Texts
  PROVE  ReplaceServices(Around(s, Blank, t)) = Around(ReplaceServices(s), Blank, ReplaceServices(t))
<1> DEFINE u == Around(s, Blank, t)
           k == Len(s) + 1
<1>0. Blank \in Tokens
  BY Zenon DEF Tokens, Blank
<1>1. /\ u \in Texts /\ Len(u) = k + Len(t)
      /\ Len(s) \in Nat /\ Len(t) \in Nat
      /\ \A i \in 1 .. Len(s) : u[i] = s[i]
      /\ u[k] = Blank
      /\ \A i \in 1 .. Len(t) : u[k + i] = t[i]
  BY <1>0, AroundIs
<1> HIDE DEF u
<1> DEFINE Ms == Words(s)
           Mt == Words(t)
           M == Words(u)
<1>2. /\ Fit(Ms, s) /\ ReplaceServices(s) = Substitute(Ms, Cleaned, s)
      /\ \A i \in 1 .. Len(s) : Lasts(Ms, i) = {e \in i .. Len(s) : WordEnd(s, i, e)}
  BY WordsAre
<1>3. /\ Fit(Mt, t) /\ ReplaceServices(t) = Substitute(Mt, Cleaned, t)
      /\ \A i \in 1 .. Len(t) : Lasts(Mt, i) = {e \in i .. Len(t) : WordEnd(t, i, e)}
  BY WordsAre
<1>4. /\ Fit(M, u) /\ ReplaceServices(u) = Substitute(M, Cleaned, u)
      /\ \A i \in 1 .. Len(u) : Lasts(M, i) = {e \in i .. Len(u) : WordEnd(u, i, e)}
  BY <1>1, WordsAre
<1> HIDE DEF Ms, Mt, M
<1>5. ASSUME NEW i \in 1 .. Len(s) PROVE Lasts(M, i) = Lasts(Ms, i)
  <2>1. i \in 1 .. Len(u)
    BY <1>1
  <2>2. \A e \in i .. Len(u) : WordEnd(u, i, e) => e \in i .. Len(s)
    <3> SUFFICES ASSUME NEW e \in i .. Len(u), ~(e \in i .. Len(s)) PROVE ~WordEnd(u, i, e)
      OBVIOUS
    <3>1. k \in i .. e
      BY <1>1
    <3> HIDE DEF k
    <3> QED BY <1>1, <3>1 DEF WordEnd
  <2>3. \A e \in i .. Len(s) : WordEnd(u, i, e) <=> WordEnd(s, i, e)
    <3> TAKE e \in i .. Len(s)
    <3>1. u[e] = s[e] /\ \A j \in i .. e : u[j] = s[j]
      BY <1>1
    <3>2. i # 1 => u[i - 1] = s[i - 1]
      BY <1>1
    <3> QED BY <3>1, <3>2 DEF WordEnd
  <2>4. \A e \in i .. Len(s) : e \in i .. Len(u)
    BY <1>1
  <2> QED BY <1>2, <1>4, <2>1, <2>2, <2>3, <2>4
<1>6. Lasts(M, k) = {}
  <2>1. k \in 1 .. Len(u)
    BY <1>1
  <2>2. \A e \in k .. Len(u) : k \in k .. e
    BY <1>1
  <2> HIDE DEF k
  <2> QED BY <1>1, <1>4, <2>1, <2>2 DEF WordEnd
<1>7. ASSUME NEW i \in 1 .. Len(t) PROVE Lasts(M, k + i) = {x + k : x \in Lasts(Mt, i)}
  <2>0. k \in Nat /\ k # 0
    BY <1>1
  <2> HIDE DEF k
  <2>1. k + i \in 1 .. Len(u)
    BY <1>1, <2>0
  <2>2. \A e \in i .. Len(t) : WordEnd(u, k + i, e + k) <=> WordEnd(t, i, e)
    <3> TAKE e \in i .. Len(t)
    <3>1. u[e + k] = t[e]
      <4>1. e \in 1 .. Len(t) /\ e + k = k + e
        BY <1>1, <2>0
      <4> QED BY <1>1, <4>1
    <3>2. (k + i = 1 \/ u[(k + i) - 1] = Blank) <=> (i = 1 \/ t[i - 1] = Blank)
      <4>1. CASE i = 1
        <5>1. (k + i) - 1 = k
          BY <2>0, <4>1
        <5> QED BY <1>1, <4>1, <5>1
      <4>2. CASE i # 1
        <5>1. i - 1 \in 1 .. Len(t) /\ (k + i) - 1 = k + (i - 1) /\ k + i # 1
          BY <1>1, <2>0, <4>2
        <5>2. u[k + (i - 1)] = t[i - 1]
          BY <1>1, <5>1
        <5> QED BY <4>2, <5>1, <5>2
      <4> QED BY <4>1, <4>2
    <3>3. (\A j \in k + i .. e + k : u[j] # Blank) <=> (\A j \in i .. e : t[j] # Blank)
      <4>1. ASSUME \A j \in k + i .. e + k : u[j] # Blank, NEW j \in i .. e PROVE t[j] # Blank
        <5>1. k + j \in k + i .. e + k /\ j \in 1 .. Len(t)
          BY <1>1, <2>0
        <5> QED BY <1>1, <4>1, <5>1
      <4>2. ASSUME \A j \in i .. e : t[j] # Blank, NEW j \in k + i .. e + k PROVE u[j] # Blank
        <5>1. j - k \in i .. e /\ j - k \in 1 .. Len(t) /\ k + (j - k) = j
          BY <1>1, <2>0
        <5>2. u[k + (j - k)] = t[j - k]
          BY <1>1, <5>1
        <5> QED BY <4>2, <5>1, <5>2
      <4> QED BY <4>1, <4>2
    <3>4. WordEnd(u, k + i, e + k) <=>
            /\ u[e + k] = Svc /\ (k + i = 1 \/ u[(k + i) - 1] = Blank)
            /\ \A j \in k + i .. e + k : u[j] # Blank
      BY Zenon DEF WordEnd
    <3>5. WordEnd(t, i, e) <=>
            /\ t[e] = Svc /\ (i = 1 \/ t[i - 1] = Blank) /\ \A j \in i .. e : t[j] # Blank
      BY Zenon DEF WordEnd
    <3> QED BY <3>1, <3>2, <3>3, <3>4, <3>5
  <2>3. Lasts(M, k + i) = {e \in k + i .. Len(u) : WordEnd(u, k + i, e)}
    BY <1>4, <2>1
  <2>4. Lasts(Mt, i) = {e \in i .. Len(t) : WordEnd(t, i, e)}
    BY <1>3
  <2>5. ASSUME NEW e \in k + i .. Len(u), WordEnd(u, k + i, e)
        PROVE  \E x \in Lasts(Mt, i) : e = x + k
    <3>1. e - k \in i .. Len(t) /\ e - k + k = e
      BY <1>1, <2>0
    <3>2. WordEnd(t, i, e - k)
      BY <2>2, <2>5, <3>1
    <3> QED BY <2>4, <3>1, <3>2
  <2>6. ASSUME NEW x \in Lasts(Mt, i)
        PROVE  x + k \in k + i .. Len(u) /\ WordEnd(u, k + i, x + k)
    <3>1. x \in i .. Len(t) /\ WordEnd(t, i, x)
      BY <2>4
    <3> QED BY <1>1, <2>0, <2>2, <3>1
  <2> QED BY <2>3, <2>5, <2>6
<1>8. Substitute(M, Cleaned, u) = Around(Substitute(Ms, Cleaned, s), Blank, Substitute(Mt, Cleaned, t))
  <2>1. Fit(M, u) /\ Fit(Ms, s) /\ Fit(Mt, t) /\ u = Around(s, Blank, t) /\ Cleaned \in Texts
    BY <1>2, <1>3, <1>4, LiteralsAreTexts DEF u
  <2> QED BY <1>0, <1>5, <1>6, <1>7, <2>1, SubstituteAround
<1> QED BY <1>2, <1>3, <1>4, <1>8 DEF u

-----------------------------------------------------------------------------
(* A list of blocks, and a pass over it.                                   *)

(* A list of texts.                                                        *)
Blocks(s) ==
  /\ Len(s) \in Nat /\ DOMAIN s = 1 .. Len(s) /\ (Len(s) = 0 => s = <<>>)
  /\ \A i \in 1 .. Len(s) : s[i] \in Texts

(* f is what the first blocks of s come to.                                *)
Flattens(f, s, n) ==
  /\ f = [i \in 0 .. Len(s) |-> f[i]] /\ f[0] = <<>>
  /\ \A i \in 1 .. n : f[i] = Cat(f[i - 1], s[i])

(* FlattenSeq puts the blocks together one by one.                         *)
LEMMA FlattenIs ==
  ASSUME NEW s, Blocks(s)
  PROVE  \E f : /\ Flattens(f, s, Len(s)) /\ FlattenSeq(s) = f[Len(s)]
                /\ \A i \in 0 .. Len(s) : f[i] \in Texts
<1> DEFINE n == Len(s)
           T == {m \in 0 .. n : \E f : Flattens(f, s, m)}
           Body(f) == [i \in 1 .. n |-> IF i = 1 THEN s[i] ELSE f[i - 1] \o s[i]]
           r == CHOOSE f : f = Body(f)
<1>0. n \in Nat /\ \A i \in 1 .. n : s[i] \in Texts
  BY DEF Blocks
<1>1. 0 \in T
  <2> DEFINE f == [i \in 0 .. n |-> <<>>]
  <2>1. Flattens(f, s, 0)
    BY <1>0 DEF Flattens
  <2>2. 0 \in 0 .. n
    BY <1>0
  <2> HIDE DEF f
  <2> QED BY <2>1, <2>2
<1>2. ASSUME NEW m \in T, m \in 0 .. n - 1 PROVE m + 1 \in T
  <2>1. PICK f : Flattens(f, s, m)
    OBVIOUS
  <2> DEFINE g == [i \in 0 .. n |-> IF i = m + 1 THEN Cat(f[m], s[m + 1]) ELSE f[i]]
  <2>2. g = [i \in 0 .. n |-> g[i]] /\ g[0] = <<>>
    BY <1>0, <1>2, <2>1 DEF Flattens
  <2>3. \A i \in 1 .. m + 1 : g[i] = Cat(g[i - 1], s[i])
    <3> TAKE i \in 1 .. m + 1
    <3>1. i \in 0 .. n /\ i - 1 \in 0 .. n /\ i - 1 # m + 1
      BY <1>0, <1>2
    <3>2. g[i - 1] = f[i - 1]
      BY <3>1
    <3>3. CASE i = m + 1
      <4>1. g[i] = Cat(f[m], s[m + 1]) /\ i - 1 = m
        BY <1>2, <3>1, <3>3
      <4> HIDE DEF g
      <4> QED BY <3>2, <3>3, <4>1
    <3>4. CASE i # m + 1
      <4>1. g[i] = f[i] /\ i \in 1 .. m
        BY <1>2, <3>1, <3>4
      <4>2. f[i] = Cat(f[i - 1], s[i])
        BY <2>1, <4>1 DEF Flattens
      <4> HIDE DEF g
      <4> QED BY <3>2, <4>1, <4>2
    <3> QED BY <3>3, <3>4
  <2> HIDE DEF g
  <2>4. Flattens(g, s, m + 1)
    BY <2>2, <2>3 DEF Flattens
  <2>5. m + 1 \in 0 .. n
    BY <1>0, <1>2
  <2> QED BY <2>4, <2>5
<1>3. n \in T
  <2> HIDE DEF T
  <2>1. 0 .. n \subseteq T
    BY <1>0, <1>1, <1>2, IntervalInduction
  <2> QED BY <1>0, <2>1
<1>4. PICK f : Flattens(f, s, n)
  BY <1>3
<1>5. f[0] = <<>> /\ \A i \in 1 .. n : f[i] = Cat(f[i - 1], s[i])
  BY <1>4 DEF Flattens
<1> HIDE DEF n
<1>6. \A i \in 0 .. n : f[i] \in Texts
  <2> DEFINE U == {i \in 0 .. n : f[i] \in Texts}
  <2>1. 0 \in U
    BY <1>0, <1>5, NoneIs
  <2>2. ASSUME NEW i \in U, i \in 0 .. n - 1 PROVE i + 1 \in U
    <3>1. i + 1 \in 1 .. n /\ i + 1 - 1 = i /\ i + 1 \in 0 .. n
      BY <1>0, <2>2
    <3>2. f[i + 1] = Cat(f[i], s[i + 1])
      BY <1>5, <3>1
    <3> QED BY <1>0, <3>1, <3>2, CatIs
  <2>3. 0 .. n \subseteq U
    <3> HIDE DEF U
    <3> QED BY <1>0, <2>1, <2>2, IntervalInduction
  <2> QED BY <2>3
<1>7. CASE n = 0
  <2>1. FlattenSeq(s) = <<>>
    BY <1>7 DEF FlattenSeq, Blocks, n
  <2> QED BY <1>4, <1>5, <1>6, <1>7, <2>1 DEF n
<1>8. CASE n # 0
  <2> DEFINE g == [i \in 1 .. n |-> f[i]]
  <2>1. g = Body(g)
    <3>1. ASSUME NEW i \in 1 .. n PROVE f[i] = IF i = 1 THEN s[i] ELSE g[i - 1] \o s[i]
      <4>1. CASE i = 1
        <5>1. i - 1 = 0 /\ s[i] \in Texts
          BY <1>0, <4>1
        <5>2. f[i] = Cat(<<>>, s[i])
          BY <1>5, <5>1
        <5> HIDE DEF g
        <5> QED BY <4>1, <5>1, <5>2, TextIs
      <4>2. CASE i # 1
        <5>1. i - 1 \in 1 .. n
          BY <1>0, <4>2
        <5>2. g[i - 1] = f[i - 1]
          BY <5>1
        <5>3. f[i] = Cat(g[i - 1], s[i])
          BY <1>5, <5>2
        <5> HIDE DEF g
        <5> QED BY <4>2, <5>3 DEF Cat
      <4> QED BY <4>1, <4>2
    <3>2. Body(g) = [i \in 1 .. n |-> f[i]]
      <4> HIDE DEF g
      <4> QED BY <3>1
    <3> QED BY <3>2, Zenon
  <2>2. r = Body(r)
    <3> HIDE DEF Body, g
    <3> QED BY <2>1, Zenon
  <2>3. FlattenSeq(s) = r[n]
    BY <1>8, Zenon DEF FlattenSeq, n
  <2> HIDE DEF r
  <2>4. ASSUME NEW i \in 1 .. n PROVE r[i] = IF i = 1 THEN s[i] ELSE Cat(r[i - 1], s[i])
    BY <2>2, Zenon DEF Cat
  <2> DEFINE U == {i \in 0 .. n : i # 0 => r[i] = f[i]}
  <2>5. 0 \in U
    BY <1>0
  <2>6. ASSUME NEW i \in U, i \in 0 .. n - 1 PROVE i + 1 \in U
    <3>1. i + 1 \in 1 .. n /\ i + 1 - 1 = i /\ i + 1 \in 0 .. n
      BY <1>0, <2>6
    <3>2. f[i + 1] = Cat(f[i], s[i + 1])
      BY <1>5, <3>1
    <3>3. CASE i = 0
      <4>1. r[1] = s[1] /\ f[1] = Cat(<<>>, s[1]) /\ s[1] \in Texts /\ i + 1 = 1
        BY <1>0, <1>5, <2>4, <3>1, <3>2, <3>3
      <4>2. r[1] = f[1]
        BY <4>1, TextIs
      <4> QED BY <3>1, <4>1, <4>2
    <3>4. CASE i # 0
      <4>1. r[i + 1] = Cat(r[i], s[i + 1])
        <5>1. i + 1 # 1
          BY <1>0, <3>4
        <5> QED BY <2>4, <3>1, <5>1
      <4>2. r[i] = f[i]
        BY <3>4
      <4> QED BY <3>1, <3>2, <4>1, <4>2
    <3> QED BY <3>3, <3>4
  <2>7. 0 .. n \subseteq U
    <3> HIDE DEF U
    <3> QED BY <1>0, <2>5, <2>6, IntervalInduction
  <2>8. r[n] = f[n]
    BY <1>0, <1>8, <2>7
  <2> QED BY <1>4, <1>6, <2>3, <2>8 DEF n
<1> QED BY <1>7, <1>8

(* One block, and two.                                                     *)
LEMMA FlattenFew ==
  /\ \A a \in Texts : FlattenSeq(<<a>>) = a
  /\ \A a, b \in Texts : FlattenSeq(<<a, b>>) = Cat(a, b)
<1>1. ASSUME NEW a \in Texts PROVE FlattenSeq(<<a>>) = a
  <2> DEFINE s == <<a>>
  <2>1. Len(s) = 1 /\ DOMAIN s = 1 .. 1 /\ s[1] = a
    OBVIOUS
  <2> HIDE DEF s
  <2>2. Blocks(s)
    <3>1. \A i \in 1 .. Len(s) : i = 1
      BY <2>1
    <3> QED BY <2>1, <3>1 DEF Blocks
  <2>3. PICK f : Flattens(f, s, Len(s)) /\ FlattenSeq(s) = f[Len(s)]
    BY <2>2, FlattenIs
  <2>4. f[0] = <<>> /\ f[1] = Cat(f[1 - 1], s[1])
    BY <2>1, <2>3 DEF Flattens
  <2> QED BY <2>1, <2>3, <2>4, TextIs DEF s
<1>2. ASSUME NEW a \in Texts, NEW b \in Texts PROVE FlattenSeq(<<a, b>>) = Cat(a, b)
  <2> DEFINE s == <<a, b>>
  <2>1. Len(s) = 2 /\ DOMAIN s = 1 .. 2 /\ s[1] = a /\ s[2] = b
    OBVIOUS
  <2> HIDE DEF s
  <2>2. Blocks(s)
    <3>1. \A i \in 1 .. Len(s) : i = 1 \/ i = 2
      BY <2>1
    <3> QED BY <2>1, <3>1 DEF Blocks
  <2>3. PICK f : Flattens(f, s, Len(s)) /\ FlattenSeq(s) = f[Len(s)]
    BY <2>2, FlattenIs
  <2>4. f[0] = <<>> /\ f[1] = Cat(f[1 - 1], s[1]) /\ f[2] = Cat(f[2 - 1], s[2])
    BY <2>1, <2>3 DEF Flattens
  <2>5. f[1] = a
    BY <2>1, <2>4, TextIs
  <2> QED BY <2>1, <2>3, <2>4, <2>5 DEF s
<1> QED BY <1>1, <1>2

-----------------------------------------------------------------------------
(* A pass that a token divides.                                            *)
IsPass(R, c) ==
  /\ R \in [Texts -> Texts] /\ R[<<>>] = <<>>
  /\ \A s, t \in Texts : R[Around(s, c, t)] = Around(R[s], c, R[t])

(* One pass after another is a pass.                                       *)
LEMMA PassesCompose ==
  ASSUME NEW P, NEW Q, NEW c \in Tokens, IsPass(P, c), IsPass(Q, c)
  PROVE  IsPass([u \in Texts |-> Q[P[u]]], c)
<1> DEFINE R == [u \in Texts |-> Q[P[u]]]
<1>1. \A u \in Texts : P[u] \in Texts /\ Q[u] \in Texts /\ R[u] = Q[P[u]]
  BY DEF IsPass
<1>2. R \in [Texts -> Texts]
  BY <1>1
<1>3. R[<<>>] = <<>>
  BY <1>1, NoneIs DEF IsPass
<1>4. ASSUME NEW s \in Texts, NEW t \in Texts PROVE R[Around(s, c, t)] = Around(R[s], c, R[t])
  <2>1. Around(s, c, t) \in Texts
    BY AroundIs
  <2>2. P[Around(s, c, t)] = Around(P[s], c, P[t])
    BY DEF IsPass
  <2>3. Q[Around(P[s], c, P[t])] = Around(Q[P[s]], c, Q[P[t]])
    BY <1>1 DEF IsPass
  <2> HIDE DEF R
  <2> QED BY <1>1, <2>1, <2>2, <2>3
<1> HIDE DEF R
<1>5. IsPass(R, c)
  BY <1>2, <1>3, <1>4 DEF IsPass
<1> QED BY <1>5 DEF R

(* A pass works on blocks between spaces one by one.                       *)
LEMMA PassByBlocks ==
  ASSUME NEW R, IsPass(R, Blank), NEW m \in Nat, NEW s, NEW t,
         Len(s) = 2 * m, DOMAIN s = 1 .. 2 * m, m = 0 => s = <<>>,
         Len(t) = 2 * m, DOMAIN t = 1 .. 2 * m, m = 0 => t = <<>>,
         \A j \in 1 .. m :
           /\ s[2 * j - 1] = One(Blank) /\ t[2 * j - 1] = One(Blank)
           /\ s[2 * j] \in Texts /\ t[2 * j] = R[s[2 * j]]
  PROVE  FlattenSeq(s) \in Texts /\ R[FlattenSeq(s)] = FlattenSeq(t)
<1>1. \A i \in 1 .. 2 * m : \E j \in 1 .. m : i = 2 * j - 1 \/ i = 2 * j
  <2> TAKE i \in 1 .. 2 * m
  <2>1. i = 2 * ((i + 1) \div 2) - 1 \/ i = 2 * ((i + 1) \div 2)
    OBVIOUS
  <2>2. (i + 1) \div 2 \in 1 .. m
    OBVIOUS
  <2> QED BY <2>1, <2>2
<1>2. One(Blank) \in Texts /\ Blank \in Tokens
  <2>1. Blank \in Tokens
    BY Zenon DEF Tokens, Blank
  <2> QED BY <2>1, OneIs
<1>3. \A u \in Texts : R[u] \in Texts
  BY DEF IsPass
<1>4. Blocks(s) /\ Blocks(t)
  <2>1. \A i \in 1 .. 2 * m : s[i] \in Texts /\ t[i] \in Texts
    BY <1>1, <1>2, <1>3
  <2> QED BY <2>1 DEF Blocks
<1>5. PICK f : /\ Flattens(f, s, Len(s)) /\ FlattenSeq(s) = f[Len(s)]
               /\ \A i \in 0 .. Len(s) : f[i] \in Texts
  BY <1>4, FlattenIs
<1>6. PICK g : Flattens(g, t, Len(t)) /\ FlattenSeq(t) = g[Len(t)]
  BY <1>4, FlattenIs
<1>7. /\ f[0] = <<>> /\ \A i \in 1 .. 2 * m : f[i] = Cat(f[i - 1], s[i])
      /\ g[0] = <<>> /\ \A i \in 1 .. 2 * m : g[i] = Cat(g[i - 1], t[i])
  BY <1>5, <1>6 DEF Flattens
<1> DEFINE T == {j \in 0 .. m : R[f[2 * j]] = g[2 * j]}
<1>8. 0 \in T
  BY <1>7 DEF IsPass
<1>9. ASSUME NEW j \in T, j \in 0 .. m - 1 PROVE j + 1 \in T
  <2> DEFINE k == 2 * j
  <2>1. /\ k \in 0 .. 2 * m /\ k + 1 \in 1 .. 2 * m /\ k + 2 \in 1 .. 2 * m
        /\ k + 1 - 1 = k /\ k + 2 - 1 = k + 1 /\ j + 1 \in 1 .. m
        /\ 2 * (j + 1) - 1 = k + 1 /\ 2 * (j + 1) = k + 2
    BY <1>9
  <2> HIDE DEF k
  <2>2. f[k + 1] = Cat(f[k], One(Blank)) /\ g[k + 1] = Cat(g[k], One(Blank))
    <3>1. s[2 * (j + 1) - 1] = One(Blank) /\ t[2 * (j + 1) - 1] = One(Blank)
      BY <2>1
    <3>2. s[k + 1] = One(Blank) /\ t[k + 1] = One(Blank)
      <4>1. 2 * (j + 1) - 1 = k + 1
        BY <2>1
      <4> QED BY <3>1, <4>1, Zenon
    <3>3. f[k + 1] = Cat(f[k + 1 - 1], s[k + 1]) /\ g[k + 1] = Cat(g[k + 1 - 1], t[k + 1])
      BY <1>7, <2>1
    <3>4. k + 1 - 1 = k
      BY <2>1
    <3> QED BY <3>2, <3>3, <3>4, Zenon
  <2>3. f[k + 2] = Cat(f[k + 1], s[k + 2]) /\ g[k + 2] = Cat(g[k + 1], t[k + 2])
    BY <1>7, <2>1
  <2>4. f[k + 2] = Around(f[k], Blank, s[k + 2]) /\ g[k + 2] = Around(g[k], Blank, R[s[k + 2]])
    BY <2>1, <2>2, <2>3 DEF Around
  <2>5. f[k] \in Texts /\ s[k + 2] \in Texts
    BY <1>5, <2>1
  <2>6. R[f[k + 2]] = Around(R[f[k]], Blank, R[s[k + 2]])
    BY <2>4, <2>5 DEF IsPass
  <2>7. R[f[k]] = g[k]
    BY DEF k
  <2> QED BY <2>1, <2>4, <2>6, <2>7
<1>10. 0 .. m \subseteq T
  <2> HIDE DEF T
  <2> QED BY <1>8, <1>9, IntervalInduction
<1>11. R[f[2 * m]] = g[2 * m]
  BY <1>10
<1> QED BY <1>5, <1>6, <1>11

-----------------------------------------------------------------------------
(* The passes over the files.                                              *)

(* The tokens that are looked for, and what is put in their place.         *)
Ip == "10.0.0.1"
Mac == "0a:58:0a:00:00:01"
Secret == "cGFzcw=="
IpMask == <<"x.x.x.x">>
MacMask == <<"xx:xx:xx:xx:xx:xx">>
SecretMask == <<"<REDACTED>">>

(* A text without anything but a name or a domain that is looked for.      *)
Plain(u) ==
  u \in Texts /\ Ip \notin ToSet(u) /\ Mac \notin ToSet(u) /\ Svc \notin ToSet(u) /\ Secret \notin ToSet(u)

(* The tokens of a text of one token.                                      *)
LEMMA ToSetOfOne == \A c \in Tokens : ToSet(One(c)) = {c} /\ One(c) # <<>>
BY DEF ToSet, One

(* These tokens differ.                                                    *)
LEMMA TokensAre ==
  /\ Ip \in Tokens /\ Mac \in Tokens /\ Svc \in Tokens /\ Secret \in Tokens /\ Blank \in Tokens
  /\ IpMask \in Texts /\ MacMask \in Texts /\ SecretMask \in Texts
  /\ Ip # Mac /\ Ip # Svc /\ Ip # Secret /\ Mac # Svc /\ Mac # Secret /\ Svc # Secret
  /\ Blank # Ip /\ Blank # Mac /\ Blank # Secret
<1>1. Ip \in Tokens /\ Mac \in Tokens /\ Svc \in Tokens /\ Secret \in Tokens /\ Blank \in Tokens
  BY Zenon DEF Tokens, Ip, Mac, Svc, Secret, Blank
<1>2. IpMask \in Texts /\ MacMask \in Texts /\ SecretMask \in Texts
  BY LiteralsAreTexts DEF IpMask, MacMask, SecretMask
<1>3. /\ Ip # Mac /\ Ip # Svc /\ Ip # Secret /\ Mac # Svc /\ Mac # Secret /\ Svc # Secret
      /\ Blank # Ip /\ Blank # Mac /\ Blank # Secret
  BY DEF Ip, Mac, Svc, Secret, Blank
<1> QED BY <1>1, <1>2, <1>3

(* No mask has what another pass looks for.                                *)
LEMMA MasksArePlain ==
  /\ Plain(IpMask) /\ Plain(MacMask) /\ Plain(SecretMask)
  /\ "svc" \notin ToSet(IpMask)
<1>1. ToSet(IpMask) = {"x.x.x.x"} /\ ToSet(MacMask) = {"xx:xx:xx:xx:xx:xx"}
      /\ ToSet(SecretMask) = {"<REDACTED>"}
  BY DEF ToSet, IpMask, MacMask, SecretMask
<1>2. /\ {"x.x.x.x", "xx:xx:xx:xx:xx:xx", "<REDACTED>"} \cap {Ip, Mac, Svc, Secret} = {}
  BY DEF Ip, Mac, Svc, Secret
<1> QED BY <1>1, <1>2, TokensAre DEF Plain, Svc

(* Replacing one token.                                                    *)
LEMMA OneTokenInText ==
  ASSUME NEW c \in Tokens, NEW to \in Texts
  PROVE  /\ \A u \in Texts : ReplaceEach(One(c), to, u) \in Texts
         /\ \A u \in Texts : c \notin ToSet(u) => ReplaceEach(One(c), to, u) = u
         /\ ReplaceEach(One(c), to, One(c)) = to
<1>1. One(c) \in Texts /\ Len(One(c)) = 1 /\ One(c)[1] = c /\ One(c) # <<>>
  BY OneIs, ToSetOfOne
<1>2. ASSUME NEW u \in Texts, c \notin ToSet(u) PROVE ~Occurs(One(c), u)
  <2> SUFFICES ASSUME NEW i \in DOMAIN u, OccursAt(One(c), u, i) PROVE FALSE
    BY DEF Occurs
  <2>1. i \in 1 .. Len(u) /\ Len(u) \in Nat
    BY TextIs
  <2>2. \A j \in 1 .. Len(One(c)) : u[i + j - 1] = One(c)[j]
    BY <1>1, <2>1, OccursAtIs
  <2>3. 1 \in 1 .. Len(One(c)) /\ i + 1 - 1 = i
    BY <1>1, <2>1
  <2>4. u[i] = c
    BY <1>1, <2>2, <2>3
  <2> QED BY <1>2, <2>4 DEF ToSet
<1>3. ReplaceEach(One(c), to, One(c)) = to
  <2> DEFINE o == One(c)
  <2> HIDE DEF o
  <2>1. o \in Texts /\ o # <<>> /\ Len(o) = 1
    BY <1>1 DEF o
  <2>2. 1 \in 1 .. Len(o) /\ 1 = Len(o) - Len(o) + 1 /\ 1 - 1 = 0
    BY <2>1
  <2>3. \A i \in 1 .. Len(o) : OccursAt(o, o, i) <=> i = 1
    BY <2>1, OccursInShorter
  <2>4. ReplaceEach(o, to, o) = Cat(SubSeq(o, 1, 1 - 1), to)
    BY <2>1, <2>2, <2>3, EachAtTheEnd
  <2>5. SubSeq(o, 1, 0) = <<>>
    BY SubSeqEmpty
  <2> QED BY <2>2, <2>4, <2>5, TextIs DEF o
<1> QED BY <1>1, <1>2, <1>3, EachNowhere, EachIsText

(* Replacing a text is a pass that any token divides that is not in it.    *)
LEMMA EachIsPass ==
  ASSUME NEW from \in Texts, from # <<>>, NEW to \in Texts, NEW c \in Tokens, c \notin ToSet(from)
  PROVE  IsPass([u \in Texts |-> ReplaceEach(from, to, u)], c)
<1> DEFINE R == [u \in Texts |-> ReplaceEach(from, to, u)]
<1>1. R \in [Texts -> Texts]
  BY EachIsText
<1>2. R[<<>>] = <<>>
  <2>1. <<>> \in Texts /\ ~Occurs(from, <<>>)
    BY NoneIs DEF Occurs
  <2>2. ReplaceEach(from, to, <<>>) = <<>>
    BY <2>1, EachNowhere
  <2> QED BY <2>1, <2>2
<1>3. ASSUME NEW s \in Texts, NEW t \in Texts PROVE R[Around(s, c, t)] = Around(R[s], c, R[t])
  <2>1. Around(s, c, t) \in Texts
    BY AroundIs
  <2> QED BY <2>1, EachAround
<1> HIDE DEF R
<1>4. IsPass(R, c)
  BY <1>1, <1>2, <1>3 DEF IsPass
<1> QED BY <1>4 DEF R

(* So is doing nothing.                                                    *)
LEMMA SameIsPass == \A c \in Tokens : IsPass([u \in Texts |-> u], c)
BY AroundIs, NoneIs DEF IsPass

(* So is replacing texts in turn.                                          *)
LEMMA InTurnIsPass ==
  ASSUME NEW from, NEW to, Replaces(from, to), NEW c \in Tokens,
         \A k \in 1 .. Len(from) : c \notin ToSet(from[k])
  PROVE  IsPass([u \in Texts |-> ReplaceInTurn(from, to, u)], c)
<1> DEFINE R == [u \in Texts |-> ReplaceInTurn(from, to, u)]
<1>1. R \in [Texts -> Texts]
  BY TurnsAreTexts
<1>2. R[<<>>] = <<>>
  <2>1. <<>> \in Texts /\ \A k \in 1 .. Len(from) : ~Occurs(from[k], <<>>)
    BY NoneIs DEF Occurs
  <2>2. ReplaceInTurn(from, to, <<>>) = <<>>
    BY <2>1, InTurnNowhere
  <2> QED BY <2>1, <2>2
<1>3. ASSUME NEW s \in Texts, NEW t \in Texts PROVE R[Around(s, c, t)] = Around(R[s], c, R[t])
  <2>1. Around(s, c, t) \in Texts
    BY AroundIs
  <2> QED BY <2>1, InTurnAround
<1> HIDE DEF R
<1>4. IsPass(R, c)
  BY <1>1, <1>2, <1>3 DEF IsPass
<1> QED BY <1>4 DEF R

-----------------------------------------------------------------------------
(* The passes over the files.                                              *)
NamesPass == [u \in Texts |-> ReplaceNames(u)]
IpsPass == [u \in Texts |-> IF "ips" \in options THEN ReplaceEach(One(Ip), IpMask, u) ELSE u]
MacsPass == [u \in Texts |-> IF "macs" \in options THEN ReplaceEach(One(Mac), MacMask, u) ELSE u]
DomainsPass == [u \in Texts |-> IF "domains" \in options THEN ReplaceDomains(domain, u) ELSE u]
ServicesPass == [u \in Texts |-> IF "services" \in options THEN ReplaceServices(u) ELSE u]
PatternsPass == [u \in Texts |-> ServicesPass[DomainsPass[MacsPass[IpsPass[u]]]]]
SecretsPass(ext) ==
  [u \in Texts |-> IF "secrets" \in options /\ ext \in {"yaml", "json"}
                   THEN ReplaceEach(One(Secret), SecretMask, u) ELSE u]

(* What all the passes make of a text, in a file with the extension ext.   *)
Whole(ext) == [u \in Texts |-> SecretsPass(ext)[PatternsPass[NamesPass[u]]]]

(* What the lemmas about passes ask of a state.                            *)
Ready ==
  /\ nodes \in Clusters /\ domain \in Domains /\ NamesReady
  /\ NamesStandOut(nodes) /\ DomainStandsOut(nodes, domain)

(* Spaces and "etcd-" divide the pass over names.                          *)
LEMMA NamesPassIs ==
  ASSUME nodes \in Clusters, NamesReady, NamesStandOut(nodes), NEW c \in {" ", "etcd-"}
  PROVE  IsPass(NamesPass, c)
<1>1. c \in Tokens
  BY Zenon DEF Tokens
<1>2. \A k \in 1 .. Len(hostnames) : c \notin ToSet(hostnames[k])
  <2> TAKE k \in 1 .. Len(hostnames)
  <2>1. hostnames[k] \in NodeNames(nodes)
    BY HostnamesAre
  <2>2. ToSet(hostnames[k]) \cap Reserved = {}
    BY <2>1 DEF NamesStandOut
  <2>3. c \in Reserved
    BY DEF Reserved
  <2> QED BY <2>2, <2>3
<1>3. IsPass([u \in Texts |-> ReplaceInTurn(hostnames, Renamed, u)], c)
  BY <1>1, <1>2, NamesReplace, InTurnIsPass
<1>4. NamesPass = [u \in Texts |-> ReplaceInTurn(hostnames, Renamed, u)]
  BY NamesReplace DEF NamesPass
<1> QED BY <1>3, <1>4

(* The domain's forms are replaced in turn.                                *)
LEMMA DomainReplaces ==
  ASSUME domain \in Domains
  PROVE  LET forms == DomainForms(domain)
             masks == [k \in DOMAIN forms |-> DomainMask(forms[k])]
         IN /\ Replaces(forms, masks)
            /\ \A u : ReplaceDomains(domain, u) = ReplaceInTurn(forms, masks, u)
<1> DEFINE forms == DomainForms(domain)
           masks == [k \in DOMAIN forms |-> DomainMask(forms[k])]
<1>1. /\ Len(forms) \in Nat /\ DOMAIN forms = 1 .. Len(forms)
      /\ \A k \in 1 .. Len(forms) : forms[k] \in Texts /\ forms[k] # <<>>
  BY FormsAre
<1>2. \A u : ReplaceDomains(domain, u) = ReplaceInTurn(forms, masks, u)
  BY DEF ReplaceDomains
<1> HIDE DEF forms
<1>3. Replaces(forms, masks)
  BY <1>1, MaskIs DEF Replaces
<1> QED BY <1>2, <1>3 DEF forms

(* The passes with their options, and that a space divides each of them.   *)
LEMMA PatternPassesAre ==
  ASSUME Ready
  PROVE  /\ IsPass(IpsPass, Blank) /\ IsPass(MacsPass, Blank) /\ IsPass(DomainsPass, Blank)
         /\ IsPass(ServicesPass, Blank) /\ \A ext : IsPass(SecretsPass(ext), Blank)
<1> DEFINE Same == [u \in Texts |-> u]
<1>1. IsPass(Same, Blank)
  BY SameIsPass, TokensAre
<1>2. \A c \in {Ip, Mac, Secret} : \A to \in Texts :
        IsPass([u \in Texts |-> ReplaceEach(One(c), to, u)], Blank)
  <2> TAKE c \in {Ip, Mac, Secret}
  <2> TAKE to \in Texts
  <2>1. c \in Tokens /\ Blank \in Tokens /\ Blank # c
    BY TokensAre
  <2>2. One(c) \in Texts /\ One(c) # <<>> /\ Blank \notin ToSet(One(c))
    BY <2>1, OneIs, ToSetOfOne
  <2> QED BY <2>1, <2>2, EachIsPass
<1>3. IsPass(IpsPass, Blank)
  <2>1. CASE "ips" \in options
    <3>1. IpsPass = [u \in Texts |-> ReplaceEach(One(Ip), IpMask, u)]
      BY <2>1 DEF IpsPass
    <3> QED BY <1>2, <3>1, TokensAre
  <2>2. CASE "ips" \notin options
    <3>1. IpsPass = Same
      BY <2>2 DEF IpsPass
    <3> QED BY <1>1, <3>1
  <2> QED BY <2>1, <2>2
<1>4. IsPass(MacsPass, Blank)
  <2>1. CASE "macs" \in options
    <3>1. MacsPass = [u \in Texts |-> ReplaceEach(One(Mac), MacMask, u)]
      BY <2>1 DEF MacsPass
    <3> QED BY <1>2, <3>1, TokensAre
  <2>2. CASE "macs" \notin options
    <3>1. MacsPass = Same
      BY <2>2 DEF MacsPass
    <3> QED BY <1>1, <3>1
  <2> QED BY <2>1, <2>2
<1>5. IsPass(DomainsPass, Blank)
  <2>1. CASE "domains" \in options
    <3> DEFINE forms == DomainForms(domain)
               masks == [k \in DOMAIN forms |-> DomainMask(forms[k])]
    <3>1. /\ Len(forms) \in Nat /\ (domain = <<>> => Len(forms) = 0)
          /\ \A k \in 1 .. Len(forms) : ToSet(forms[k]) \subseteq ToSet(domain)
      BY FormsAre DEF Ready
    <3>2. Replaces(forms, masks) /\ \A u : ReplaceDomains(domain, u) = ReplaceInTurn(forms, masks, u)
      BY DomainReplaces DEF Ready
    <3> HIDE DEF forms, masks
    <3>3. domain # <<>> => Blank \notin ToSet(domain)
      BY DEF Ready, DomainStandsOut, Reserved, Blank
    <3>4. \A k \in 1 .. Len(forms) : Blank \notin ToSet(forms[k])
      BY <3>1, <3>3
    <3>5. IsPass([u \in Texts |-> ReplaceInTurn(forms, masks, u)], Blank)
      BY <3>2, <3>4, TokensAre, InTurnIsPass
    <3>6. DomainsPass = [u \in Texts |-> ReplaceInTurn(forms, masks, u)]
      BY <2>1, <3>2 DEF DomainsPass
    <3> QED BY <3>5, <3>6
  <2>2. CASE "domains" \notin options
    <3>1. DomainsPass = Same
      BY <2>2 DEF DomainsPass
    <3> QED BY <1>1, <3>1
  <2> QED BY <2>1, <2>2
<1>6. IsPass(ServicesPass, Blank)
  <2>1. CASE "services" \in options
    <3>1. \A u \in Texts : ReplaceServices(u) \in Texts
      <4> TAKE u \in Texts
      <4>1. Fit(Words(u), u) /\ ReplaceServices(u) = Substitute(Words(u), Cleaned, u)
        BY WordsAre
      <4>2. Cleaned \in Texts
        BY LiteralsAreTexts
      <4> QED BY <4>1, <4>2, RestIsText
    <3>2. ReplaceServices(<<>>) = <<>>
      <4>1. Svc \notin ToSet(<<>>)
        BY DEF ToSet
      <4> QED BY <4>1, NoneIs, ServicesNowhere
    <3>3. \A s, t \in Texts : Around(s, Blank, t) \in Texts
      BY AroundIs, TokensAre
    <3>4. \A u \in Texts : ServicesPass[u] = ReplaceServices(u)
      BY <2>1 DEF ServicesPass
    <3>5. ServicesPass \in [Texts -> Texts]
      BY <2>1, <3>1 DEF ServicesPass
    <3> QED BY <3>2, <3>3, <3>4, <3>5, NoneIs, ServicesAround, ZenonT(60) DEF IsPass
  <2>2. CASE "services" \notin options
    <3>1. ServicesPass = Same
      BY <2>2 DEF ServicesPass
    <3> QED BY <1>1, <3>1
  <2> QED BY <2>1, <2>2
<1>7. ASSUME NEW ext PROVE IsPass(SecretsPass(ext), Blank)
  <2>1. CASE "secrets" \in options /\ ext \in {"yaml", "json"}
    <3>1. SecretsPass(ext) = [u \in Texts |-> ReplaceEach(One(Secret), SecretMask, u)]
      BY <2>1 DEF SecretsPass
    <3> QED BY <1>2, <3>1, TokensAre
  <2>2. CASE ~("secrets" \in options /\ ext \in {"yaml", "json"})
    <3>1. SecretsPass(ext) = Same
      BY <2>2 DEF SecretsPass
    <3> QED BY <1>1, <3>1
  <2> QED BY <2>1, <2>2
<1> QED BY <1>3, <1>4, <1>5, <1>6, <1>7

(* A space divides all the passes together.                                *)
LEMMA WholeIsPass ==
  ASSUME Ready, NEW ext
  PROVE  IsPass(Whole(ext), Blank) /\ IsPass(PatternsPass, Blank)
<1>1. Blank \in Tokens
  BY TokensAre
<1> DEFINE P1 == [u \in Texts |-> MacsPass[IpsPass[u]]]
           P2 == [u \in Texts |-> DomainsPass[P1[u]]]
           P3 == [u \in Texts |-> ServicesPass[P2[u]]]
           P4 == [u \in Texts |-> PatternsPass[NamesPass[u]]]
           P5 == [u \in Texts |-> SecretsPass(ext)[P4[u]]]
<1>2. IsPass(P1, Blank)
  BY <1>1, PatternPassesAre, PassesCompose
<1> HIDE DEF P1
<1>3. IsPass(P2, Blank)
  BY <1>1, <1>2, PatternPassesAre, PassesCompose
<1> HIDE DEF P2
<1>4. IsPass(P3, Blank)
  BY <1>1, <1>3, PatternPassesAre, PassesCompose
<1>5. PatternsPass = P3
  BY Zenon DEF PatternsPass, P1, P2
<1> HIDE DEF P3
<1>6. IsPass(NamesPass, Blank)
  BY NamesPassIs DEF Ready, Blank
<1>7. IsPass(P4, Blank)
  BY <1>1, <1>4, <1>5, <1>6, PassesCompose
<1> HIDE DEF P4
<1>8. IsPass(P5, Blank)
  BY <1>1, <1>7, PatternPassesAre, PassesCompose
<1>9. Whole(ext) = P5
  BY Zenon DEF Whole, P4
<1> QED BY <1>4, <1>5, <1>8, <1>9

(* A pass leaves alone a text without what it looks for.                   *)
LEMMA PassesKeep ==
  ASSUME NEW u \in Texts
  PROVE  /\ Ip \notin ToSet(u) => IpsPass[u] = u
         /\ Mac \notin ToSet(u) => MacsPass[u] = u
         /\ Svc \notin ToSet(u) => ServicesPass[u] = u
         /\ Secret \notin ToSet(u) => \A ext : SecretsPass(ext)[u] = u
<1>1. Ip \notin ToSet(u) => ReplaceEach(One(Ip), IpMask, u) = u
  BY TokensAre, OneTokenInText
<1>2. Mac \notin ToSet(u) => ReplaceEach(One(Mac), MacMask, u) = u
  BY TokensAre, OneTokenInText
<1>3. Svc \notin ToSet(u) => ReplaceServices(u) = u
  BY ServicesNowhere
<1>4. Secret \notin ToSet(u) => ReplaceEach(One(Secret), SecretMask, u) = u
  BY TokensAre, OneTokenInText
<1>5. Ip \notin ToSet(u) => IpsPass[u] = u
  BY <1>1 DEF IpsPass
<1>6. Mac \notin ToSet(u) => MacsPass[u] = u
  BY <1>2 DEF MacsPass
<1>7. Svc \notin ToSet(u) => ServicesPass[u] = u
  BY <1>3 DEF ServicesPass
<1>8. Secret \notin ToSet(u) => \A ext : SecretsPass(ext)[u] = u
  BY <1>4 DEF SecretsPass
<1> QED BY <1>5, <1>6, <1>7, <1>8

(* The domain's pass, where no form of the domain is found and where each  *)
(* one found is at the end.                                                *)
LEMMA DomainsKeep ==
  ASSUME domain \in Domains, NEW u \in Texts,
         domain # <<>> => \A form \in ToSet(DomainForms(domain)) : ~Occurs(form, u)
  PROVE  DomainsPass[u] = u
<1> DEFINE forms == DomainForms(domain)
           masks == [k \in DOMAIN forms |-> DomainMask(forms[k])]
<1>1. /\ Len(forms) \in Nat /\ DOMAIN forms = 1 .. Len(forms)
      /\ domain = <<>> => Len(forms) = 0
  BY FormsAre
<1>2. Replaces(forms, masks) /\ ReplaceDomains(domain, u) = ReplaceInTurn(forms, masks, u)
  BY DomainReplaces
<1> HIDE DEF masks
<1>3. \A k \in 1 .. Len(forms) : ~Occurs(forms[k], u)
  <2> HIDE DEF forms
  <2> TAKE k \in 1 .. Len(forms)
  <2>1. domain # <<>> /\ forms[k] \in ToSet(forms)
    BY <1>1 DEF ToSet
  <2> QED BY <2>1 DEF forms
<1>4. ReplaceDomains(domain, u) = u
  BY <1>2, <1>3, InTurnNowhere
<1> QED BY <1>4 DEF DomainsPass

(* In a name or a domain, the end is masked.                               *)
LEMMA DomainsMask ==
  ASSUME Ready, NEW u \in NodeNames(nodes) \cup OwnDomains, u \in Texts
  PROVE  DomainsPass[u] = IF "domains" \in options THEN MaskSuffix(u, domain) ELSE u
<1>1. domain = <<>> => ToSet(DomainForms(domain)) = {}
  BY DEF DomainForms, ToSet
<1>2. \A form \in ToSet(DomainForms(domain)) : \A i \in DOMAIN u :
        OccursAt(form, u, i) => i = Len(u) - Len(form) + 1
  BY <1>1 DEF Ready, DomainStandsOut
<1>3. domain \in Domains /\ (domain # <<>> => Last(domain) \notin {".", "x"})
  BY DEF Ready, DomainStandsOut
<1>4. ReplaceDomains(domain, u) = MaskSuffix(u, domain)
  BY <1>2, <1>3, DomainIsMasked
<1> QED BY <1>4 DEF DomainsPass

(* Masking the end of a name brings nothing in that a later pass looks for. *)
LEMMA SuffixIsPlain ==
  ASSUME NEW d \in Domains, NEW u, Plain(u)
  PROVE  Plain(MaskSuffix(u, d))
<1> DEFINE forms == {form \in ToSet(DomainForms(d)) : Ends(form, u)}
           form == CHOOSE x \in forms : \A y \in forms : Len(y) <= Len(x)
<1>1. CASE forms = {}
  <2>1. MaskSuffix(u, d) = u
    BY <1>1 DEF MaskSuffix
  <2> QED BY <2>1
<1>2. CASE forms # {}
  <2> DEFINE s == SubSeq(u, 1, Len(u) - Len(form))
             m == DomainMask(form)
  <2>1. MaskSuffix(u, d) = Cat(s, m)
    BY <1>2 DEF MaskSuffix, Cat
  <2>2. \A f \in forms : f \in Texts /\ Len(f) \in Nat /\ Len(f) <= Len(u) /\ Len(f) # 0
    BY FormsAre, TextIs DEF ToSet, Ends
  <2>3. form \in forms
    <3>1. PICK g \in forms : TRUE
      BY <1>2
    <3> HIDE DEF forms
    <3> DEFINE S == {Len(f) : f \in forms}
    <3>2. Len(u) \in Nat /\ u \in Texts
      BY TextIs DEF Plain
    <3>3. S \subseteq 1 .. Len(u) /\ S # {}
      <4>1. \A f \in forms : Len(f) \in 1 .. Len(u)
        <5> TAKE f \in forms
        <5>1. Len(f) \in Nat /\ Len(f) <= Len(u) /\ Len(f) # 0
          BY <2>2
        <5> QED BY <3>2, <5>1
      <4> QED BY <3>1, <4>1, Zenon
    <3> HIDE DEF S
    <3>4. Max(S) \in S /\ \A y \in S : Max(S) >= y
      BY <3>2, <3>3, GreatestNumber
    <3>5. PICK x \in forms : Len(x) = Max(S)
      BY <3>4 DEF S
    <3>6. \A y \in forms : Len(y) <= Len(x)
      BY <3>4, <3>5, <2>2 DEF S
    <3> QED BY <3>5, <3>6
  <2> HIDE DEF forms, form
  <2>4. u \in Texts /\ Len(u) \in Nat /\ DOMAIN u = 1 .. Len(u)
    BY TextIs DEF Plain
  <2>5. form \in Texts /\ Len(u) - Len(form) \in 0 .. Len(u)
    BY <2>2, <2>3, <2>4
  <2>6. m \in Texts /\ Len(m) = Len(form) /\ \A i \in 1 .. Len(m) : m[i] \in {".", "x"}
    BY <2>5, MaskIs
  <2>7. 1 \in 1 .. Len(u) + 1
    BY <2>4
  <2>8. s \in Texts /\ \A i \in 1 .. Len(s) : s[i] \in ToSet(u)
    <3> DEFINE b == Len(u) - Len(form)
    <3>1. b \in 0 .. Len(u)
      BY <2>5
    <3> HIDE DEF b
    <3>2. /\ SubSeq(u, 1, b) \in Texts
          /\ Len(SubSeq(u, 1, b)) = IF 1 <= b THEN b - 1 + 1 ELSE 0
          /\ \A i \in 1 .. b - 1 + 1 : SubSeq(u, 1, b)[i] = u[1 + i - 1]
      BY <2>4, <2>7, <3>1, PartIs
    <3>3. \A i \in 1 .. Len(SubSeq(u, 1, b)) : i \in 1 .. b - 1 + 1 /\ 1 + i - 1 = i /\ i \in DOMAIN u
      BY <2>4, <3>1, <3>2
    <3>4. \A i \in 1 .. Len(SubSeq(u, 1, b)) : SubSeq(u, 1, b)[i] \in ToSet(u)
      BY <3>2, <3>3 DEF ToSet
    <3> QED BY <3>2, <3>4 DEF b
  <2> HIDE DEF s, m
  <2>9. Cat(s, m) \in Texts /\ ToSet(Cat(s, m)) \subseteq ToSet(u) \cup {".", "x"}
    <3>1. /\ Cat(s, m) \in Texts /\ Len(s) \in Nat /\ Len(m) \in Nat
          /\ Len(Cat(s, m)) = Len(s) + Len(m)
          /\ \A i \in 1 .. Len(s) : Cat(s, m)[i] = s[i]
          /\ \A i \in 1 .. Len(m) : Cat(s, m)[Len(s) + i] = m[i]
      BY <2>6, <2>8, CatIs
    <3>2. DOMAIN Cat(s, m) = 1 .. Len(Cat(s, m))
      BY <3>1, TextIs
    <3> SUFFICES ASSUME NEW i \in 1 .. Len(Cat(s, m)) PROVE Cat(s, m)[i] \in ToSet(u) \cup {".", "x"}
      BY <3>1, <3>2 DEF ToSet
    <3>3. CASE i <= Len(s)
      BY <2>8, <3>1, <3>3
    <3>4. CASE i > Len(s)
      <4>1. i - Len(s) \in 1 .. Len(m) /\ Len(s) + (i - Len(s)) = i
        BY <3>1, <3>4
      <4>2. Cat(s, m)[i] = m[i - Len(s)]
        BY <3>1, <4>1
      <4> QED BY <2>6, <4>1, <4>2
    <3> QED BY <3>1, <3>3, <3>4
  <2>10. {".", "x"} \cap {Ip, Mac, Svc, Secret} = {}
    BY DEF Ip, Mac, Svc, Secret
  <2> QED BY <2>1, <2>9, <2>10 DEF Plain
<1> QED BY <1>1, <1>2

(* No name, pseudonym or domain has an address, service or secret.         *)
LEMMA NamesArePlain ==
  ASSUME nodes \in Clusters, NamesStandOut(nodes)
  PROVE  \A t \in NodeNames(nodes) \cup Pseudonyms(nodes) \cup OwnDomains : Plain(t)
<1>1. \A t \in NodeNames(nodes) \cup Pseudonyms(nodes) : t \in Texts
  BY NamesAreTexts
<1>2. OwnDomain \in Texts /\ Tail(Tail(OwnDomain)) \in Texts
  <2>1. OwnDomain \in Texts /\ Len(OwnDomain) >= 2
    BY AnonymizerAssumption, StringsAreTokens
  <2>2. OwnDomain # <<>>
    BY <2>1, TextIs, NoneIs
  <2>3. Tail(OwnDomain) \in Texts /\ Len(Tail(OwnDomain)) = Len(OwnDomain) - 1 /\ Len(OwnDomain) \in Nat
    BY <2>1, <2>2, TailOf
  <2>4. Tail(OwnDomain) # <<>>
    <3> DEFINE a == Tail(OwnDomain)
               o == OwnDomain
    <3>2. Len(a) = Len(o) - 1 /\ Len(o) \in Nat /\ Len(o) >= 2
      BY <2>1, <2>3
    <3> HIDE DEF a, o
    <3>3. Len(a) # 0
      BY <3>2
    <3>1. Len(Tail(OwnDomain)) # 0
      BY <3>3 DEF a
    <3> QED BY <3>1, NoneIs
  <2> QED BY <2>1, <2>3, <2>4, TailOf
<1>3. {Ip, Mac, Svc, Secret} \subseteq Reserved
  BY DEF Ip, Mac, Svc, Secret, Reserved, Literals
<1> QED BY <1>1, <1>2, <1>3 DEF NamesStandOut, Plain, OwnDomains

-----------------------------------------------------------------------------
(* What the passes do to each kind of data.                                *)

(* The passes, one after the other.                                        *)
LEMMA WholeIs ==
  ASSUME Ready, NEW ext, NEW u \in Texts
  PROVE  /\ NamesPass[u] = ReplaceNames(u) /\ ReplaceNames(u) \in Texts
         /\ Whole(ext)[u] =
              SecretsPass(ext)[ServicesPass[DomainsPass[MacsPass[IpsPass[ReplaceNames(u)]]]]]
<1>1. NamesPass[u] = ReplaceNames(u) /\ ReplaceNames(u) \in Texts
  BY NamesReplace DEF NamesPass, Ready
<1>2. Whole(ext)[u] = SecretsPass(ext)[PatternsPass[ReplaceNames(u)]]
  BY <1>1 DEF Whole
<1>3. PatternsPass[ReplaceNames(u)] = ServicesPass[DomainsPass[MacsPass[IpsPass[ReplaceNames(u)]]]]
  BY <1>1 DEF PatternsPass
<1> QED BY <1>1, <1>2, <1>3

(* A name or a domain: only the domain's pass changes what the names' pass *)
(* leaves.                                                                 *)
LEMMA PlainWhole ==
  ASSUME Ready, NEW ext, NEW u \in Texts, Plain(ReplaceNames(u)), Plain(DomainsPass[ReplaceNames(u)])
  PROVE  Whole(ext)[u] = DomainsPass[ReplaceNames(u)]
<1> DEFINE v == ReplaceNames(u)
           w == DomainsPass[v]
<1>1. IpsPass[v] = v /\ MacsPass[v] = v
  BY PassesKeep DEF Plain
<1>2. ServicesPass[w] = w /\ SecretsPass(ext)[w] = w
  BY PassesKeep DEF Plain
<1>3. Whole(ext)[u] = SecretsPass(ext)[ServicesPass[DomainsPass[MacsPass[IpsPass[v]]]]]
  BY WholeIs
<1> HIDE DEF v
<1> QED BY <1>1, <1>2, <1>3 DEF v

(* Addresses, services and secrets, and that one is not in the other.      *)
LEMMA OwnTexts ==
  /\ \A t \in OtherTexts : t \in Texts
  /\ One(Ip) \in OtherTexts /\ One(Mac) \in OtherTexts /\ One(Secret) \in OtherTexts
  /\ Services \in OtherTexts
  /\ Ip \notin ToSet(Services) /\ Mac \notin ToSet(Services) /\ Secret \notin ToSet(Services)
<1>1. \A t \in OtherTexts : t \in Texts
  BY LiteralsAreTexts, OneIs, TokensAre DEF OtherTexts, Literals, One, Ip, Mac, Svc, Secret
<1>2. One(Ip) \in OtherTexts /\ One(Mac) \in OtherTexts /\ One(Secret) \in OtherTexts
  BY DEF OtherTexts, Literals, One, Ip, Mac, Svc, Secret
<1>3. ToSet(Services) = {"db", ".", "ns", "svc"}
  <2>1. DOMAIN Services = {1, 2, 3, 4, 5}
    BY DEF Services
  <2>2. Services[1] = "db" /\ Services[2] = "." /\ Services[3] = "ns" /\ Services[4] = "."
        /\ Services[5] = "svc"
    BY DEF Services
  <2> QED BY <2>1, <2>2, Zenon DEF ToSet
<1>4. {Ip, Mac, Secret} \cap {"db", ".", "ns", "svc"} = {}
  BY DEF Ip, Mac, Secret
<1> QED BY <1>1, <1>2, <1>3, <1>4 DEF OtherTexts

(* No name and no domain is found in the others.                           *)
LEMMA OthersKept ==
  ASSUME Ready, NEW u \in OtherTexts
  PROVE  ReplaceNames(u) = u /\ DomainsPass[u] = u
<1>1. u \in Texts
  BY OwnTexts
<1>2. \A n \in NodeNames(nodes) : ~Occurs(n, u)
  BY DEF Ready, NamesStandOut
<1>3. domain # <<>> => \A form \in ToSet(DomainForms(domain)) : ~Occurs(form, u)
  BY DEF Ready, DomainStandsOut
<1> QED BY <1>1, <1>2, <1>3, NoNameNoChange, DomainsKeep DEF Ready

(* No mask of an address has a domain.                                     *)
LEMMA MasksHaveNoDomain ==
  ASSUME Ready
  PROVE  DomainsPass[IpMask] = IpMask /\ DomainsPass[MacMask] = MacMask
<1>1. domain # <<>> => \A form \in ToSet(DomainForms(domain)) : ~Occurs(form, IpMask) /\ ~Occurs(form, MacMask)
  BY DEF Ready, DomainStandsOut, IpMask, MacMask
<1> QED BY <1>1, TokensAre, DomainsKeep DEF Ready

(* What becomes of each of the texts.                                      *)
LEMMA NodeInWhole ==
  ASSUME Ready, NEW ext, NEW n \in NodeNames(nodes)
  PROVE  /\ n \in Texts
         /\ mapping # <<>> => n \in DOMAIN mapping /\ Whole(ext)[n] = mapping[n]
         /\ mapping = <<>> => Whole(ext)[n] = IF "domains" \in options THEN MaskSuffix(n, domain) ELSE n
<1>1. n \in Texts /\ Plain(n)
  BY NamesAreTexts, NamesArePlain DEF Ready
<1>2. ASSUME mapping # <<>> PROVE n \in DOMAIN mapping /\ Whole(ext)[n] = mapping[n]
  <2> DEFINE p == mapping[n]
  <2>1. ReplaceNames(n) = p /\ p \in Pseudonyms(nodes)
    BY <1>2, NameIsReplaced DEF Ready
  <2>2. Plain(p)
    BY <2>1, NamesArePlain DEF Ready
  <2>3. domain # <<>> => \A form \in ToSet(DomainForms(domain)) : ~Occurs(form, p)
    BY <2>1 DEF Ready, DomainStandsOut
  <2>4. DomainsPass[p] = p
    BY <2>2, <2>3, DomainsKeep DEF Ready, Plain
  <2>5. n \in DOMAIN mapping
    BY <1>2, NamesAreTexts DEF Ready, NamesReady
  <2> HIDE DEF p
  <2>6. Whole(ext)[n] = p
    BY <1>1, <2>1, <2>2, <2>4, PlainWhole
  <2> QED BY <2>5, <2>6 DEF p
<1>3. ASSUME mapping = <<>> PROVE Whole(ext)[n] = IF "domains" \in options THEN MaskSuffix(n, domain) ELSE n
  <2>1. ReplaceNames(n) = n
    BY <1>1, <1>3, NoNameNoChange DEF Ready
  <2>2. DomainsPass[n] = IF "domains" \in options THEN MaskSuffix(n, domain) ELSE n
    BY <1>1, DomainsMask
  <2>3. Plain(DomainsPass[n])
    BY <1>1, <2>2, SuffixIsPlain DEF Ready
  <2> QED BY <1>1, <2>1, <2>2, <2>3, PlainWhole
<1> QED BY <1>1, <1>2, <1>3

(* A domain is masked, by one pass.                                        *)
LEMMA DomainInWhole ==
  ASSUME Ready, NEW ext, NEW t \in OwnDomains
  PROVE  /\ t \in Texts
         /\ Whole(ext)[t] = IF "domains" \in options THEN MaskSuffix(t, domain) ELSE t
<1>1. t \in Texts /\ Plain(t)
  BY NamesArePlain DEF Ready, Plain
<1>2. ReplaceNames(t) = t
  BY <1>1, NoNameNoChange DEF Ready, NamesStandOut
<1>3. DomainsPass[t] = IF "domains" \in options THEN MaskSuffix(t, domain) ELSE t
  BY <1>1, DomainsMask
<1>4. Plain(DomainsPass[t])
  BY <1>1, <1>3, SuffixIsPlain DEF Ready
<1> QED BY <1>1, <1>2, <1>3, <1>4, PlainWhole

(* An IP address is replaced, by one pass.                                 *)
LEMMA IpInWhole ==
  ASSUME Ready, NEW ext
  PROVE  Whole(ext)[One(Ip)] = IF "ips" \in options THEN IpMask ELSE One(Ip)
<1> DEFINE u == One(Ip)
<1>1. u \in Texts /\ u \in OtherTexts /\ ToSet(u) = {Ip}
  BY OwnTexts, ToSetOfOne, TokensAre
<1>2. ReplaceNames(u) = u /\ DomainsPass[u] = u
  BY <1>1, OthersKept
<1>3. MacsPass[u] = u /\ ServicesPass[u] = u /\ SecretsPass(ext)[u] = u
  BY <1>1, TokensAre, PassesKeep
<1>4. /\ MacsPass[IpMask] = IpMask /\ DomainsPass[IpMask] = IpMask /\ ServicesPass[IpMask] = IpMask
      /\ SecretsPass(ext)[IpMask] = IpMask
  BY MasksArePlain, PassesKeep, MasksHaveNoDomain DEF Plain
<1>5. IpsPass[u] = IF "ips" \in options THEN IpMask ELSE u
  BY <1>1, TokensAre, OneTokenInText DEF IpsPass
<1>6. Whole(ext)[u] = SecretsPass(ext)[ServicesPass[DomainsPass[MacsPass[IpsPass[u]]]]]
  BY <1>1, <1>2, WholeIs
<1> HIDE DEF u
<1>7. Whole(ext)[u] = IF "ips" \in options THEN IpMask ELSE u
  BY <1>2, <1>3, <1>4, <1>5, <1>6
<1> QED BY <1>7 DEF u

(* A MAC address is replaced, by one pass.                                 *)
LEMMA MacInWhole ==
  ASSUME Ready, NEW ext
  PROVE  Whole(ext)[One(Mac)] = IF "macs" \in options THEN MacMask ELSE One(Mac)
<1> DEFINE u == One(Mac)
<1>1. u \in Texts /\ u \in OtherTexts /\ ToSet(u) = {Mac}
  BY OwnTexts, ToSetOfOne, TokensAre
<1>2. ReplaceNames(u) = u /\ DomainsPass[u] = u
  BY <1>1, OthersKept
<1>3. IpsPass[u] = u /\ ServicesPass[u] = u /\ SecretsPass(ext)[u] = u
  BY <1>1, TokensAre, PassesKeep
<1>4. /\ DomainsPass[MacMask] = MacMask /\ ServicesPass[MacMask] = MacMask
      /\ SecretsPass(ext)[MacMask] = MacMask
  BY MasksArePlain, PassesKeep, MasksHaveNoDomain DEF Plain
<1>5. MacsPass[u] = IF "macs" \in options THEN MacMask ELSE u
  BY <1>1, TokensAre, OneTokenInText DEF MacsPass
<1>6. Whole(ext)[u] = SecretsPass(ext)[ServicesPass[DomainsPass[MacsPass[IpsPass[u]]]]]
  BY <1>1, <1>2, WholeIs
<1> HIDE DEF u
<1>7. Whole(ext)[u] = IF "macs" \in options THEN MacMask ELSE u
  BY <1>2, <1>3, <1>4, <1>5, <1>6
<1> QED BY <1>7 DEF u

(* A secret is redacted, by one pass.                                      *)
LEMMA SecretInWhole ==
  ASSUME Ready, NEW ext
  PROVE  Whole(ext)[One(Secret)] =
           IF "secrets" \in options /\ ext \in {"yaml", "json"} THEN SecretMask ELSE One(Secret)
<1> DEFINE u == One(Secret)
<1>1. u \in Texts /\ u \in OtherTexts /\ ToSet(u) = {Secret}
  BY OwnTexts, ToSetOfOne, TokensAre
<1>2. ReplaceNames(u) = u /\ DomainsPass[u] = u
  BY <1>1, OthersKept
<1>3. IpsPass[u] = u /\ MacsPass[u] = u /\ ServicesPass[u] = u
  BY <1>1, TokensAre, PassesKeep
<1>5. SecretsPass(ext)[u] = IF "secrets" \in options /\ ext \in {"yaml", "json"} THEN SecretMask ELSE u
  BY <1>1, TokensAre, OneTokenInText DEF SecretsPass
<1>6. Whole(ext)[u] = SecretsPass(ext)[ServicesPass[DomainsPass[MacsPass[IpsPass[u]]]]]
  BY <1>1, <1>2, WholeIs
<1> HIDE DEF u
<1>7. Whole(ext)[u] = SecretsPass(ext)[u]
  BY <1>2, <1>3, <1>6
<1> QED BY <1>5, <1>7 DEF u

(* A service's name is cleaned, by one pass.                               *)
LEMMA ServiceInWhole ==
  ASSUME Ready, NEW ext
  PROVE  Whole(ext)[Services] = IF "services" \in options THEN Cleaned ELSE Services
<1> DEFINE u == Services
<1>1. u \in Texts /\ u \in OtherTexts
  BY OwnTexts
<1>2. ReplaceNames(u) = u /\ DomainsPass[u] = u
  BY <1>1, OthersKept
<1>3. IpsPass[u] = u /\ MacsPass[u] = u /\ SecretsPass(ext)[u] = u
  BY <1>1, OwnTexts, PassesKeep
<1>4. SecretsPass(ext)[Cleaned] = Cleaned
  <2>1. ToSet(Cleaned) = {"cleaned", ".", "svc"}
    <3>1. DOMAIN Cleaned = {1, 2, 3}
      BY DEF Cleaned
    <3>2. Cleaned[1] = "cleaned" /\ Cleaned[2] = "." /\ Cleaned[3] = "svc"
      BY DEF Cleaned
    <3> QED BY <3>1, <3>2, Zenon DEF ToSet
  <2>2. Secret \notin {"cleaned", ".", "svc"}
    BY DEF Secret
  <2> QED BY <2>1, <2>2, LiteralsAreTexts, PassesKeep
<1>5. ServicesPass[u] = IF "services" \in options THEN Cleaned ELSE u
  BY <1>1, ServiceIsCleaned DEF ServicesPass
<1>6. Whole(ext)[u] = SecretsPass(ext)[ServicesPass[DomainsPass[MacsPass[IpsPass[u]]]]]
  BY <1>1, <1>2, WholeIs
<1> HIDE DEF u
<1>7. Whole(ext)[u] = IF "services" \in options THEN Cleaned ELSE u
  BY <1>2, <1>3, <1>4, <1>5, <1>6
<1> QED BY <1>7 DEF u

-----------------------------------------------------------------------------
(* From one atom to a line, a file and all files.                          *)

(* The atoms that a line of the gathered data has.                         *)
DataAtoms ==
  {NameOf(nodes[i]) : i \in DOMAIN nodes} \cup
  {Atom("ips", <<"10.0.0.1">>), Atom("macs", <<"0a:58:0a:00:00:01">>),
   Atom("domains", OwnDomain), Atom("domains", Tail(Tail(OwnDomain))),
   Atom("services", Services), Atom("secrets", <<"cGFzcw==">>)}

(* A line of those.                                                        *)
DataList(atoms) ==
  Len(atoms) \in Nat /\ DOMAIN atoms = 1 .. Len(atoms)
  /\ \A i \in 1 .. Len(atoms) : atoms[i] \in DataAtoms

(* All the passes together make of each atom what is promised for it.      *)
LEMMA AtomIsMasked ==
  ASSUME Ready, NEW ext, NEW a \in DataAtoms
  PROVE  a.text \in Texts /\ Stand(a, ext, mapping, domain) = Whole(ext)[a.text]
<1>1. CASE \E i \in DOMAIN nodes : a = NameOf(nodes[i])
  <2>1. PICK i \in DOMAIN nodes : a = NameOf(nodes[i])
    BY <1>1
  <2>2. a.kind = "node" /\ a.text = nodes[i].name /\ a.text \in NodeNames(nodes)
    BY <2>1 DEF NameOf, Atom, NodeNames
  <2>3. /\ a.text \in Texts
        /\ mapping # <<>> => a.text \in DOMAIN mapping /\ Whole(ext)[a.text] = mapping[a.text]
        /\ mapping = <<>> => Whole(ext)[a.text] = IF "domains" \in options THEN MaskSuffix(a.text, domain) ELSE a.text
    BY <2>2, NodeInWhole
  <2>4. mapping = <<>> => a.text \notin DOMAIN mapping
    OBVIOUS
  <2> HIDE <2>1
  <2>5. Stand(a, ext, mapping, domain) =
          IF a.text \in DOMAIN mapping THEN mapping[a.text]
          ELSE IF "domains" \in options THEN MaskSuffix(a.text, domain) ELSE a.text
    BY <2>2 DEF Stand
  <2> QED BY <2>3, <2>4, <2>5
<1>2. CASE a \in {Atom("domains", OwnDomain), Atom("domains", Tail(Tail(OwnDomain)))}
  <2>1. a.kind = "domains" /\ a.text \in OwnDomains
    BY <1>2 DEF Atom, OwnDomains
  <2>2. Stand(a, ext, mapping, domain) =
          IF "domains" \in options THEN MaskSuffix(a.text, domain) ELSE a.text
    BY <2>1 DEF Stand
  <2> QED BY <2>1, <2>2, DomainInWhole
<1>3. CASE a = Atom("ips", <<"10.0.0.1">>)
  <2>1. a.kind = "ips" /\ a.text = One(Ip)
    BY <1>3 DEF Atom, One, Ip
  <2>2. Stand(a, ext, mapping, domain) = IF "ips" \in options THEN IpMask ELSE a.text
    BY <2>1 DEF Stand, IpMask
  <2> QED BY <2>1, <2>2, IpInWhole, OwnTexts
<1>4. CASE a = Atom("macs", <<"0a:58:0a:00:00:01">>)
  <2>1. a.kind = "macs" /\ a.text = One(Mac)
    BY <1>4 DEF Atom, One, Mac
  <2>2. Stand(a, ext, mapping, domain) = IF "macs" \in options THEN MacMask ELSE a.text
    BY <2>1 DEF Stand, MacMask
  <2> QED BY <2>1, <2>2, MacInWhole, OwnTexts
<1>5. CASE a = Atom("services", Services)
  <2>1. a.kind = "services" /\ a.text = Services
    BY <1>5 DEF Atom
  <2>2. Stand(a, ext, mapping, domain) = IF "services" \in options THEN Cleaned ELSE a.text
    BY <2>1 DEF Stand, Cleaned
  <2> QED BY <2>1, <2>2, ServiceInWhole, OwnTexts
<1>6. CASE a = Atom("secrets", <<"cGFzcw==">>)
  <2>1. a.kind = "secrets" /\ a.text = One(Secret)
    BY <1>6 DEF Atom, One, Secret
  <2>2. Stand(a, ext, mapping, domain) =
          IF "secrets" \in options /\ ext \in {"yaml", "json"} THEN SecretMask ELSE a.text
    BY <2>1 DEF Stand, SecretMask
  <2> QED BY <2>1, <2>2, SecretInWhole, OwnTexts
<1> QED BY <1>1, <1>2, <1>3, <1>4, <1>5, <1>6 DEF DataAtoms

(* A space stays.                                                          *)
LEMMA BlankStays ==
  ASSUME NEW ext, NEW names, NEW d
  PROVE  Other(" ").text = One(Blank) /\ Stand(Other(" "), ext, names, d) = One(Blank)
<1>1. Other(" ").kind = "other" /\ Other(" ").text = One(Blank)
  BY DEF Other, Atom, One, Blank
<1>2. Stand(Other(" "), ext, names, d) = Other(" ").text
  BY <1>1 DEF Stand
<1> QED BY <1>1, <1>2

(* The passes, over a file's text, do atom by atom what is promised.       *)
LEMMA SpacedIsMasked ==
  ASSUME Ready, NEW ext, NEW atoms, DataList(atoms)
  PROVE  /\ Text(Spaced(atoms)) \in Texts
         /\ Whole(ext)[Text(Spaced(atoms))] = Masked(Spaced(atoms), ext, mapping, domain)
<1> DEFINE m == Len(atoms)
           sp == Spaced(atoms)
           s == [i \in DOMAIN sp |-> sp[i].text]
           t == [i \in DOMAIN sp |-> Stand(sp[i], ext, mapping, domain)]
           R == Whole(ext)
<1>1. m \in Nat /\ DOMAIN atoms = 1 .. m /\ \A i \in 1 .. m : atoms[i] \in DataAtoms
  BY DEF DataList
<1>2. DOMAIN sp = 1 .. 2 * m
  BY DEF Spaced
<1>3. /\ Len(s) = 2 * m /\ DOMAIN s = 1 .. 2 * m
      /\ Len(t) = 2 * m /\ DOMAIN t = 1 .. 2 * m
  BY <1>1, <1>2
<1>4. m = 0 => s = <<>> /\ t = <<>>
  BY <1>1, <1>2
<1>5. ASSUME NEW j \in 1 .. m
      PROVE  /\ s[2 * j - 1] = One(Blank) /\ t[2 * j - 1] = One(Blank)
             /\ s[2 * j] \in Texts /\ t[2 * j] = R[s[2 * j]]
  <2>1. /\ 2 * j - 1 \in 1 .. 2 * m /\ 2 * j \in 1 .. 2 * m
        /\ (2 * j - 1) % 2 = 1 /\ (2 * j) % 2 # 1 /\ (2 * j) \div 2 = j
    BY <1>1
  <2>2. sp[2 * j - 1] = Other(" ") /\ sp[2 * j] = atoms[j]
    BY <2>1 DEF Spaced
  <2>3. /\ atoms[j].text \in Texts
        /\ Stand(atoms[j], ext, mapping, domain) = Whole(ext)[atoms[j].text]
    BY <1>1, AtomIsMasked
  <2> HIDE DEF sp
  <2>4. s[2 * j - 1] = One(Blank) /\ t[2 * j - 1] = One(Blank)
    BY <1>2, <2>1, <2>2, BlankStays
  <2>5. s[2 * j] = atoms[j].text /\ t[2 * j] = Stand(atoms[j], ext, mapping, domain)
    BY <1>2, <2>1, <2>2
  <2> QED BY <2>3, <2>4, <2>5
<1>6. Text(sp) = FlattenSeq(s) /\ Masked(sp, ext, mapping, domain) = FlattenSeq(t)
  BY DEF Text, Masked
<1>7. IsPass(R, Blank)
  BY WholeIsPass
<1> HIDE DEF m, sp, s, t, R
<1>8. FlattenSeq(s) \in Texts /\ R[FlattenSeq(s)] = FlattenSeq(t)
  BY <1>1, <1>3, <1>4, <1>5, <1>7, PassByBlocks, SMTT(30)
<1> QED BY <1>6, <1>8 DEF sp, R

(* What is gathered: the files, by what they are.                          *)
LogOf(node) ==
  File(<< <<NameOf(node)>>, <<Other("etcd-"), NameOf(node)>> >>, "log",
       Spaced(<<Atom("ips", <<"10.0.0.1">>), NameOf(node)>>))

(* The other files, and all of them.                                       *)
ManifestOf(node) ==
  File(<< <<Other("nodes")>>, <<NameOf(node)>> >>, "yaml", Spaced(<<NameOf(node)>>))
OtherFiles ==
  {File(<< <<Other("manifest")>> >>, "yaml", Everything(nodes)),
   File(<< <<Other("timestamp")>> >>, "", Everything(nodes))}
GatheredFiles ==
  {LogOf(nodes[i]) : i \in DOMAIN nodes} \cup {ManifestOf(nodes[i]) : i \in DOMAIN nodes} \cup OtherFiles

(* These are the files that are gathered.                                  *)
LEMMA GatheredIs ==
  ASSUME nodes \in Clusters
  PROVE  \A f \in DOMAIN Gathered : Gathered[f] \in GatheredFiles
<1> DEFINE G == GatheredFiles
           logs == [i \in DOMAIN nodes |-> LogOf(nodes[i])]
           manifests == [i \in DOMAIN nodes |-> ManifestOf(nodes[i])]
           others == << File(<< <<Other("manifest")>> >>, "yaml", Everything(nodes)),
                        File(<< <<Other("timestamp")>> >>, "", Everything(nodes)) >>
<1>1. Gathered = (logs \o manifests) \o others
  BY Zenon DEF Gathered, LogOf, ManifestOf
<1>2. DOMAIN nodes = 1 .. Len(nodes) /\ Len(nodes) \in Nat
  BY ListsAreSequences
<1>3. logs \in [1 .. Len(nodes) -> G] /\ manifests \in [1 .. Len(nodes) -> G]
  BY <1>2 DEF GatheredFiles
<1>4. others \in Seq(G)
  <2>1. ASSUME NEW x, NEW y, x \in G, y \in G PROVE <<x, y>> \in Seq(G)
    <3> HIDE DEF G
    <3> QED BY <2>1
  <2>2. \A x \in OtherFiles : x \in G
    BY DEF GatheredFiles
  <2> HIDE DEF G
  <2> QED BY <2>1, <2>2 DEF OtherFiles
<1> HIDE DEF G, logs, manifests, others
<1>5. logs \in Seq(G) /\ manifests \in Seq(G)
  BY <1>2, <1>3
<1>6. (logs \o manifests) \o others \in Seq(G)
  BY <1>4, <1>5
<1>7. Gathered \in Seq(G)
  BY <1>1, <1>6
<1> HIDE DEF Gathered
<1> QED BY <1>7 DEF G

(* The text of each file is a list of the atoms above.                     *)
LEMMA GatheredTexts ==
  ASSUME nodes \in Clusters, NEW f \in DOMAIN Gathered
  PROVE  \E atoms : DataList(atoms) /\ Gathered[f].text = Spaced(atoms)
<1>1. DOMAIN nodes = 1 .. Len(nodes) /\ Len(nodes) \in Nat
  BY ListsAreSequences
<1>2. ASSUME NEW atoms \in Seq(DataAtoms) PROVE DataList(atoms)
  BY DEF DataList
<1>3. ASSUME NEW i \in DOMAIN nodes
      PROVE  /\ \E atoms : DataList(atoms) /\ LogOf(nodes[i]).text = Spaced(atoms)
             /\ \E atoms : DataList(atoms) /\ ManifestOf(nodes[i]).text = Spaced(atoms)
  <2> DEFINE a == NameOf(nodes[i])
             b == Atom("ips", <<"10.0.0.1">>)
  <2>1. a \in DataAtoms /\ b \in DataAtoms
    BY DEF DataAtoms
  <2>2. LogOf(nodes[i]).text = Spaced(<<b, a>>) /\ ManifestOf(nodes[i]).text = Spaced(<<a>>)
    BY DEF LogOf, ManifestOf, File
  <2> HIDE DEF a, b
  <2>3. <<b, a>> \in Seq(DataAtoms) /\ <<a>> \in Seq(DataAtoms)
    BY <2>1
  <2> QED BY <1>2, <2>2, <2>3
<1>4. ASSUME NEW g \in OtherFiles PROVE \E atoms : DataList(atoms) /\ g.text = Spaced(atoms)
  <2> DEFINE names == [i \in DOMAIN nodes |-> NameOf(nodes[i])]
             a == Atom("ips", <<"10.0.0.1">>)
             b == Atom("macs", <<"0a:58:0a:00:00:01">>)
             c == Atom("domains", OwnDomain)
             d == Atom("domains", Tail(Tail(OwnDomain)))
             e == Atom("services", Services)
             h == Atom("secrets", <<"cGFzcw==">>)
  <2>1. g.text = Spaced(names \o <<a, b, c, d, e, h>>)
    <3>1. Everything(nodes) = Spaced(names \o <<a, b, c, d, e, h>>)
      BY Zenon DEF Everything
    <3>2. ASSUME NEW p, NEW x, NEW t PROVE File(p, x, t).text = t
      BY DEF File
    <3>3. \E p, x : g = File(p, x, Everything(nodes))
      BY Zenon DEF OtherFiles
    <3>4. g.text = Everything(nodes)
      <4>1. PICK p, x : g = File(p, x, Everything(nodes))
        BY <3>3
      <4>2. File(p, x, Everything(nodes)).text = Everything(nodes)
        BY <3>2
      <4> QED BY <4>1, <4>2
    <3> QED BY <3>1, <3>4
  <2>2. names \in [1 .. Len(nodes) -> DataAtoms]
    BY <1>1 DEF DataAtoms
  <2>3. {a, b, c, d, e, h} \subseteq DataAtoms
    BY DEF DataAtoms
  <2> HIDE DEF names, a, b, c, d, e, h
  <2>4. names \in Seq(DataAtoms) /\ <<a, b, c, d, e, h>> \in Seq(DataAtoms)
    BY <1>1, <2>2, <2>3
  <2>5. names \o <<a, b, c, d, e, h>> \in Seq(DataAtoms)
    BY <2>4
  <2> QED BY <1>2, <2>1, <2>5
<1> QED BY <1>3, <1>4, GatheredIs DEF GatheredFiles

(* What the passes make of a file, and what is promised of it.             *)
LEMMA FileIsMasked ==
  ASSUME Ready, NEW ext, NEW f \in DOMAIN Gathered
  PROVE  /\ Text(Gathered[f].text) \in Texts
         /\ Whole(ext)[Text(Gathered[f].text)] = Masked(Gathered[f].text, ext, mapping, domain)
BY GatheredTexts, SpacedIsMasked DEF Ready

(* The passes are the operators of the model.                              *)
LEMMA PassesInModel ==
  ASSUME Ready, NEW u \in Texts
  PROVE  /\ ReplaceNames(u) = NamesPass[u] /\ NamesPass[u] \in Texts
         /\ ReplacePatterns(u) = PatternsPass[u] /\ PatternsPass[u] \in Texts
         /\ \A ext \in {"yaml", "json"} : "secrets" \in options =>
              RedactBase64Values(u) = SecretsPass(ext)[u]
<1>1. ReplaceNames(u) = NamesPass[u] /\ NamesPass[u] \in Texts
  BY WholeIs
<1>2. /\ IpsPass \in [Texts -> Texts] /\ MacsPass \in [Texts -> Texts]
      /\ DomainsPass \in [Texts -> Texts] /\ ServicesPass \in [Texts -> Texts]
  BY PatternPassesAre DEF IsPass
<1>3. ReplacePatterns(u) = PatternsPass[u] /\ PatternsPass[u] \in Texts
  <2> DEFINE v == IpsPass[u]
             w == MacsPass[v]
             x == DomainsPass[w]
  <2>1. v \in Texts /\ w \in Texts /\ x \in Texts /\ ServicesPass[x] \in Texts
    BY <1>2
  <2>2. v = IF "ips" \in options THEN ReplaceEach(One(Ip), IpMask, u) ELSE u
    BY Zenon DEF IpsPass
  <2> HIDE DEF v
  <2>3. w = IF "macs" \in options THEN ReplaceEach(One(Mac), MacMask, v) ELSE v
    BY <2>1, Zenon DEF MacsPass
  <2> HIDE DEF w
  <2>4. x = IF "domains" \in options THEN ReplaceDomains(domain, w) ELSE w
    BY <2>1, Zenon DEF DomainsPass
  <2> HIDE DEF x
  <2>5. ServicesPass[x] = IF "services" \in options THEN ReplaceServices(x) ELSE x
    BY <2>1, Zenon DEF ServicesPass
  <2>6. ReplacePatterns(u) = IF "services" \in options THEN ReplaceServices(x) ELSE x
    BY <2>2, <2>3, <2>4, Zenon DEF ReplacePatterns, One, Ip, IpMask, Mac, MacMask
  <2>7. PatternsPass[u] = ServicesPass[x]
    BY Zenon DEF PatternsPass, x, w, v
  <2> QED BY <2>1, <2>5, <2>6, <2>7
<1>4. \A ext \in {"yaml", "json"} : "secrets" \in options =>
        RedactBase64Values(u) = SecretsPass(ext)[u]
  BY DEF SecretsPass, RedactBase64Values, One, Secret, SecretMask
<1> QED BY <1>1, <1>3, <1>4

-----------------------------------------------------------------------------
(* The texts, in every state.                                              *)

(* What a file's text is between two passes.                               *)
Before == {"start", "list", "extract", "map", "rename", "names"}
Was(f) == Text(Gathered[f].text)

(* A file has what the passes before have made of what was gathered.       *)
TextFits(f) ==
  /\ pc \in Before => files[f].text = Was(f)
  /\ pc = "patterns" /\ f \in TextFiles => files[f].text = NamesPass[Was(f)]
  /\ pc = "secrets" /\ f \in TextFiles =>
       "secrets" \in options /\ files[f].text = PatternsPass[NamesPass[Was(f)]]
  /\ "complete" \in log /\ f \in TextFiles => files[f].text = Whole(KindOf(f))[Was(f)]

(* The names are those of the nodes, from the step that lists them on;     *)
(* nothing runs after the line that says that all is complete.             *)
MappingInv ==
  /\ domain \in Domains /\ NamesReady
  /\ pc \in {"start", "list", "extract", "map"} => mapping = <<>> /\ hostnames = <<>>
  /\ "complete" \in log => pc = "end"

(* The inductive invariant for the texts.                                  *)
TextsInv == \A f \in DOMAIN files : TextFits(f)

(* The hypothesis: names and domains stand out from what is gathered, as   *)
(* they do in the run's inputs (MCAnonymizer).                             *)
InputsStandOut ==
  \A list \in Clusters : NamesStandOut(list) /\ \A d \in Domains : DomainStandsOut(list, d)

(* At first each file has what was gathered.                               *)
LEMMA TextsInvInit == Init => MappingInv /\ TextsInv
<1> SUFFICES ASSUME Init PROVE MappingInv /\ TextsInv
  OBVIOUS
<1>1. /\ nodes \in Clusters /\ domain \in Domains /\ pc = "start" /\ log = {}
      /\ mapping = <<>> /\ hostnames = <<>>
      /\ files = [f \in DOMAIN Gathered |-> Put(Gathered[f])]
  BY DEF Init
<1>2. ASSUME NEW f \in DOMAIN files PROVE files[f].text = Was(f)
  <2>1. f \in DOMAIN Gathered /\ files[f] = Put(Gathered[f])
    BY <1>1
  <2>2. IsFile(Gathered[f])
    BY <1>1, <2>1, GatheredAreFiles
  <2>3. ASSUME NEW g, IsFile(g) PROVE Put(g).text = Text(g.text)
    <3> DEFINE path == [i \in DOMAIN g.path |-> Text(g.path[i])]
               text == Text(g.text)
    <3>1. Put(g) = [g EXCEPT !.path = path, !.text = text]
      BY DEF Put
    <3> HIDE DEF path, text
    <3>2. Put(g).text = text
      BY <2>3, <3>1 DEF IsFile
    <3> QED BY <3>2 DEF text
  <2> QED BY <2>1, <2>2, <2>3 DEF Was
<1> QED BY <1>1, <1>2 DEF MappingInv, TextsInv, TextFits, NamesReady

(* The passes are those of the inputs and of the mapping.                  *)
LEMMA SamePasses ==
  ASSUME UNCHANGED <<inputs, mapping, hostnames>>
  PROVE  /\ NamesPass' = NamesPass /\ PatternsPass' = PatternsPass
         /\ \A ext : Whole(ext)' = Whole(ext)
         /\ NamesReady' = NamesReady
<1>1. options' = options /\ domain' = domain /\ nodes' = nodes
  BY DEF inputs
<1>2. NamesPass' = NamesPass
  BY DEF NamesPass, ReplaceNames
<1>3. /\ IpsPass' = IpsPass /\ MacsPass' = MacsPass /\ DomainsPass' = DomainsPass
      /\ ServicesPass' = ServicesPass /\ \A ext : SecretsPass(ext)' = SecretsPass(ext)
  BY <1>1 DEF IpsPass, MacsPass, DomainsPass, ServicesPass, SecretsPass
<1>4. PatternsPass' = PatternsPass
  BY <1>3 DEF PatternsPass
<1> HIDE DEF NamesPass, PatternsPass
<1>5. \A ext : Whole(ext)' = Whole(ext)
  BY <1>2, <1>3, <1>4 DEF Whole
<1>6. NamesReady' = NamesReady
  BY <1>1 DEF NamesReady
<1> QED BY <1>2, <1>4, <1>5, <1>6

(* What a pass leaves of a file's text.                                    *)
LEMMA RewriteIs ==
  ASSUME FilesAreGathered, NEW some, NEW text, Rewrite(some, text)
  PROVE  /\ DOMAIN files' = DOMAIN files
         /\ \A f \in DOMAIN files :
              /\ files'[f].ext = files[f].ext
              /\ files'[f].text = IF f \in some THEN text[f] ELSE files[f].text
<1>1. DOMAIN files' = DOMAIN files
  BY DEF Rewrite
<1>2. ASSUME NEW f \in DOMAIN files
      PROVE  /\ files'[f].ext = files[f].ext
             /\ files'[f].text = IF f \in some THEN text[f] ELSE files[f].text
  <2>1. IsFile(files[f])
    BY DEF FilesAreGathered
  <2>2. files'[f] = IF f \in some THEN [files[f] EXCEPT !.text = text[f]] ELSE files[f]
    BY DEF Rewrite
  <2> QED BY <2>1, <2>2 DEF IsFile
<1> QED BY <1>1, <1>2

(* A rename leaves texts alone.                                            *)
LEMMA RenameKeepsTexts ==
  ASSUME FilesAreGathered, NEW from, NEW to, Rename(from, to)
  PROVE  /\ DOMAIN files' \subseteq DOMAIN files
         /\ \A f \in DOMAIN files' : files'[f].ext = files[f].ext /\ files'[f].text = files[f].text
<1>1. \/ files' = files
      \/ \E over : files' = [f \in DOMAIN files \ over |->
           IF f \in Under(from)
           THEN [files[f] EXCEPT !.path = to \o SubSeq(@, Len(from) + 1, Len(@))]
           ELSE files[f]]
  BY DEF Rename
<1>2. DOMAIN files' \subseteq DOMAIN files
  BY <1>1
<1>3. ASSUME NEW f \in DOMAIN files'
      PROVE  files'[f].ext = files[f].ext /\ files'[f].text = files[f].text
  <2>1. IsFile(files[f])
    BY <1>2 DEF FilesAreGathered
  <2>2. files'[f] = files[f] \/ \E p : files'[f] = [files[f] EXCEPT !.path = p]
    BY <1>1
  <2> QED BY <2>1, <2>2 DEF IsFile
<1> QED BY <1>2, <1>3

(* Only listing the nodes makes names, and it makes those of the nodes.    *)
LEMMA MappingInvStep ==
  ASSUME AnonymizerInv, MappingInv, [Next]_vars
  PROVE  MappingInv'
<1> USE DEF Goto, Warn, Fault, Report
<1>1. UNCHANGED inputs
  BY DEF Next, Start, ListForLog, Extract, MapNodes, MapNodesFails, RenamePath, MaskNames,
     MaskPatterns, Redact, CommandIsWrong, PassFails, NamesFail, PatternsFail, RedactFails, vars
<1>2. domain' \in Domains
  BY <1>1 DEF inputs, MappingInv
<1>3. CASE MapNodes
  <2>1. /\ pc = "map" /\ pc' = "rename" /\ files' = files /\ log' = log
        /\ mapping' = BuildNodeMapping(nodes)
        /\ hostnames' \in {order \in SetToSeqs(DOMAIN mapping') :
             \A i, j \in DOMAIN order : i < j => Len(order[i]) >= Len(order[j])}
    BY <1>3 DEF MapNodes
  <2>2. NamesReady'
    BY <1>1, <2>1, SameInputs DEF NamesReady
  <2> QED BY <1>2, <2>1, <2>2 DEF MappingInv
<1>4. CASE ~MapNodes
  <2>1. UNCHANGED <<mapping, hostnames>>
    BY <1>4 DEF Next, Start, ListForLog, Extract, MapNodesFails, RenamePath, MaskNames,
       MaskPatterns, Redact, CommandIsWrong, PassFails, NamesFail, PatternsFail, RedactFails,
       vars, data
  <2>2. NamesReady'
    BY <1>1, <2>1, SamePasses DEF MappingInv
  <2>3. pc' \in {"start", "list", "extract", "map"} => mapping' = <<>> /\ hostnames' = <<>>
    BY <1>4, <2>1 DEF MappingInv, Next, Start, ListForLog, Extract, MapNodesFails, RenamePath,
       MaskNames, MaskPatterns, Redact, CommandIsWrong, PassFails, NamesFail, PatternsFail,
       RedactFails, vars
  <2>4. "complete" \in log' => pc' = "end"
    BY <1>4, <2>1 DEF MappingInv, Next, Start, ListForLog, Extract, MapNodesFails, RenamePath,
       MaskNames, MaskPatterns, Redact, CommandIsWrong, PassFails, NamesFail, PatternsFail,
       RedactFails, vars
  <2> QED BY <1>2, <2>2, <2>3, <2>4 DEF MappingInv
<1> QED BY <1>3, <1>4

(* Each pass does its part, on each file it selects; a pass that fails     *)
(* half way ends the work without the line that says that it is complete.  *)
LEMMA TextsInvStep ==
  ASSUME InputsStandOut, AnonymizerInv, MappingInv, TextsInv, [Next]_vars
  PROVE  TextsInv'
<1> USE DEF Goto, Warn, Fault, Report
<1>1. UNCHANGED inputs
  BY DEF Next, Start, ListForLog, Extract, MapNodes, MapNodesFails, RenamePath, MaskNames,
     MaskPatterns, Redact, CommandIsWrong, PassFails, NamesFail, PatternsFail, RedactFails, vars
<1>2. /\ nodes \in Clusters /\ domain \in Domains /\ NamesReady /\ FilesAreGathered
      /\ \A f \in DOMAIN files : f \in DOMAIN Gathered /\ TextFits(f)
  BY DEF AnonymizerInv, MappingInv, TextsInv, FilesAreGathered
<1>3. Ready
  BY <1>2 DEF Ready, InputsStandOut
<1>4. \A f : Was(f)' = Was(f)
  BY <1>1, SameInputs DEF Was, Text
<1>5. \A f \in DOMAIN files : Was(f) \in Texts
  BY <1>2, <1>3, FileIsMasked DEF Was
<1>7. CASE MapNodes
  <2>1. /\ pc = "map" /\ pc' = "rename" /\ files' = files /\ log' = log
    BY <1>7 DEF MapNodes
  <2>3. "complete" \notin log'
    BY <2>1 DEF MappingInv
  <2>4. \A f \in DOMAIN files' : TextFits(f)'
    BY <1>2, <1>4, <2>1, <2>3 DEF TextFits, Before
  <2> QED BY <2>4 DEF TextsInv
<1>8. CASE ~MapNodes
  <2>1. UNCHANGED <<mapping, hostnames>>
    BY <1>8 DEF Next, Start, ListForLog, Extract, MapNodesFails, RenamePath, MaskNames,
       MaskPatterns, Redact, CommandIsWrong, PassFails, NamesFail, PatternsFail, RedactFails,
       vars, data
  <2>2. /\ NamesPass' = NamesPass /\ PatternsPass' = PatternsPass /\ NamesReady'
        /\ \A ext : Whole(ext)' = Whole(ext)
    BY <1>1, <1>2, <2>1, SamePasses
  <2>5. SUFFICES ASSUME NEW f \in DOMAIN files' PROVE TextFits(f)'
    BY DEF TextsInv
  <2> DEFINE u == Was(f)
  <2>6. CASE Start \/ ListForLog \/ Extract
    <3>1. /\ files' = files /\ pc \in Before \ {"names"} /\ pc' \in Before \cup {"end"}
          /\ "complete" \in log' => "complete" \in log
      BY <2>6 DEF Start, ListForLog, Extract, data, Before
    <3>2. "complete" \notin log'
      BY <3>1 DEF MappingInv, Before
    <3> QED BY <1>2, <1>4, <2>5, <3>1, <3>2 DEF TextFits, Before
  <2>7. CASE MapNodesFails
    <3>1. /\ files' = files /\ pc = "map" /\ pc' = "patterns"
          /\ "complete" \in log' => "complete" \in log
      BY <2>7 DEF MapNodesFails, data
    <3>2. "complete" \notin log' /\ mapping = <<>>
      BY <3>1 DEF MappingInv
    <3>3. files[f].text = u /\ u \in Texts
      BY <1>2, <1>5, <2>5, <3>1 DEF TextFits, Before
    <3>4. NamesPass[u] = u
      BY <1>2, <1>3, <3>2, <3>3, NoNameNoChange, PassesInModel
    <3> QED BY <1>4, <2>2, <3>1, <3>2, <3>3, <3>4 DEF TextFits, Before
  <2>8. CASE RenamePath
    <3>1. /\ pc = "rename" /\ pc' \in {"rename", "names"} /\ log' = log
          /\ \E from, to : Rename(from, to)
      BY <2>8 DEF RenamePath
    <3>2. f \in DOMAIN files /\ files'[f].text = files[f].text
      BY <1>2, <2>5, <3>1, RenameKeepsTexts
    <3>3. "complete" \notin log'
      BY <3>1 DEF MappingInv
    <3> QED BY <1>2, <1>4, <3>1, <3>2, <3>3 DEF TextFits, Before
  <2>9. CASE MaskNames
    <3>1. /\ pc = "names" /\ pc' = "patterns" /\ log' = log /\ Rewrite(TextFiles, NamesMasked)
      BY <2>9 DEF MaskNames
    <3>2. /\ f \in DOMAIN files /\ files'[f].ext = files[f].ext
          /\ f \in TextFiles => files'[f].text = NamesMasked[f]
      BY <1>2, <2>5, <3>1, RewriteIs
    <3>3. f \in TextFiles => files'[f].text = ReplaceNames(files[f].text)
      BY <3>2 DEF NamesMasked
    <3>4. files[f].text = u /\ u \in Texts
      BY <1>2, <1>5, <3>1, <3>2 DEF TextFits, Before
    <3>5. ReplaceNames(u) = NamesPass[u]
      BY <1>3, <3>4, PassesInModel
    <3>6. "complete" \notin log' /\ (f \in TextFiles' => f \in TextFiles)
      BY <3>1, <3>2 DEF MappingInv, TextFiles
    <3> QED BY <1>4, <2>2, <3>1, <3>3, <3>4, <3>5, <3>6 DEF TextFits, Before
  <2>10. CASE MaskPatterns
    <3>1. /\ pc = "patterns" /\ Rewrite(TextFiles, PatternsMasked)
          /\ IF "secrets" \in options THEN pc' = "secrets" /\ log' = log ELSE pc' = "end"
      BY <2>10 DEF MaskPatterns
    <3>2. /\ f \in DOMAIN files /\ files'[f].ext = files[f].ext
          /\ f \in TextFiles => files'[f].text = PatternsMasked[f]
      BY <1>2, <2>5, <3>1, RewriteIs
    <3>3. f \in TextFiles => files'[f].text = ReplacePatterns(files[f].text)
      BY <3>2 DEF PatternsMasked
    <3>4. u \in Texts /\ NamesPass[u] \in Texts /\ (f \in TextFiles => files[f].text = NamesPass[u])
      BY <1>2, <1>3, <1>5, <3>1, <3>2, PassesInModel DEF TextFits
    <3>5. ReplacePatterns(NamesPass[u]) = PatternsPass[NamesPass[u]] /\ PatternsPass[NamesPass[u]] \in Texts
      BY <1>3, <3>4, PassesInModel
    <3>6. f \in TextFiles' => f \in TextFiles
      BY <3>2 DEF TextFiles
    <3>7. CASE "secrets" \in options
      <4>1. "complete" \notin log' /\ options' = options
        BY <1>1, <3>1, <3>7 DEF MappingInv, inputs
      <4> QED BY <1>4, <2>2, <3>1, <3>3, <3>4, <3>5, <3>6, <3>7, <4>1 DEF TextFits, Before
    <3>8. CASE "secrets" \notin options
      <4> DEFINE x == files[f].ext
      <4>4. KindOf(f)' = x
        BY <2>10, <3>1, <3>2 DEF MaskPatterns, AnonymizerInv, SkippedAreData, KindOf
      <4>1. SecretsPass(x)[PatternsPass[NamesPass[u]]] = PatternsPass[NamesPass[u]]
        BY <3>5, <3>8 DEF SecretsPass
      <4>2. Whole(x)[u] = PatternsPass[NamesPass[u]]
        BY <3>4, <4>1 DEF Whole
      <4>3. (Whole(KindOf(f))[u])' = Whole(x)[u]
        BY <1>4, <2>2, <4>4 DEF Whole
      <4> QED BY <1>4, <3>1, <3>3, <3>4, <3>5, <3>6, <3>8, <4>2, <4>3 DEF TextFits, Before
    <3> QED BY <3>7, <3>8
  <2>11. CASE Redact
    <3>1. PICK done \in SUBSET DataFiles :
            pc = "secrets" /\ pc' = "end" /\ Rewrite(done, SecretsRedacted) /\ skipped' = DataFiles \ done
      BY <2>11 DEF Redact
    <3>2. /\ f \in DOMAIN files /\ files'[f].ext = files[f].ext
          /\ files'[f].text = IF f \in done THEN SecretsRedacted[f] ELSE files[f].text
      BY <1>2, <2>5, <3>1, RewriteIs
    <3>3. f \in done => f \in DataFiles /\ SecretsRedacted[f] = RedactBase64Values(files[f].text)
      BY <3>1 DEF SecretsRedacted
    <3> SUFFICES ASSUME f \in TextFiles PROVE (files[f].text = Whole(KindOf(f))[u])'
      <4>1. f \in TextFiles' => f \in TextFiles
        BY <3>2 DEF TextFiles
      <4> QED BY <3>1, <4>1 DEF TextFits, Before
    <3> DEFINE x == IF f \in skipped' THEN "txt" ELSE files[f].ext
               v == PatternsPass[NamesPass[u]]
    <3>4. "secrets" \in options /\ files[f].text = v /\ u \in Texts
      BY <1>2, <1>5, <3>1, <3>2 DEF TextFits
    <3>5. v \in Texts
      BY <1>3, <3>4, PassesInModel
    <3>9. KindOf(f)' = x
      BY <3>2 DEF KindOf
    <3> HIDE DEF x
    <3>6. Whole(x)[u] = SecretsPass(x)[v]
      BY <3>4 DEF Whole
    <3>7. CASE f \in done
      <4>1. x \in {"yaml", "json"}
        BY <3>1, <3>3, <3>7 DEF DataFiles, x
      <4>2. RedactBase64Values(v) = SecretsPass(x)[v]
        BY <1>3, <3>4, <3>5, <4>1, PassesInModel
      <4>3. files'[f].text = Whole(x)[u]
        BY <3>2, <3>3, <3>4, <3>6, <3>7, <4>2
      <4> QED BY <1>4, <2>2, <3>9, <4>3
    <3>8. CASE f \notin done
      <4>1. x \notin {"yaml", "json"}
        BY <3>1, <3>2, <3>8 DEF DataFiles, x
      <4>2. SecretsPass(x)[v] = v
        BY <3>5, <4>1 DEF SecretsPass
      <4>3. files'[f].text = Whole(x)[u]
        BY <3>2, <3>4, <3>6, <3>8, <4>2
      <4> QED BY <1>4, <2>2, <3>9, <4>3
    <3> QED BY <3>7, <3>8
  <2>12. CASE CommandIsWrong \/ NamesFail \/ PatternsFail \/ RedactFails
    <3>1. pc # "end" /\ pc' = "end" /\ ("complete" \in log' => "complete" \in log)
      BY <2>12 DEF CommandIsWrong, NamesFail, PatternsFail, RedactFails, PassFails
    <3>2. "complete" \notin log'
      BY <3>1 DEF MappingInv
    <3> QED BY <3>1, <3>2 DEF TextFits, Before
  <2>13. CASE UNCHANGED vars
    <3>1. files' = files /\ pc' = pc /\ log' = log /\ options' = options /\ skipped' = skipped
      BY <2>13 DEF vars, inputs
    <3>2. TextFits(f) /\ (f \in TextFiles' <=> f \in TextFiles)
      BY <1>2, <2>5, <3>1 DEF TextFiles
    <3>3. (Whole(KindOf(f))[u])' = Whole(KindOf(f))[u]
      BY <1>4, <2>2, <3>1 DEF KindOf
    <3> QED BY <1>4, <2>2, <3>1, <3>2, <3>3 DEF TextFits
  <2> QED BY <1>8, <2>6, <2>7, <2>8, <2>9, <2>10, <2>11, <2>12, <2>13 DEF Next
<1> QED BY <1>7, <1>8

(* When the log says that the anonymization is complete, each text file    *)
(* has what was gathered with each name, address, domain, service and      *)
(* secret that was asked for replaced by its own pseudonym or mask,        *)
(* whichever passes ran before: for any nodes, domain and options whose    *)
(* names stand out.  No pass changes what another has put in.  Files that  *)
(* were left out of the redaction have kept their secrets.                 *)
THEOREM CompleteDataIsMasked ==
  ASSUME InputsStandOut
  PROVE  Spec => []CompleteIsMasked
<1>1. AnonymizerInv /\ MappingInv /\ TextsInv => CompleteIsMasked
  <2> SUFFICES ASSUME AnonymizerInv, MappingInv, TextsInv, "complete" \in log, NEW f \in TextFiles
               PROVE  files[f].text = Masked(Gathered[f].text, KindOf(f), mapping, domain)
    BY DEF CompleteIsMasked
  <2>1. f \in DOMAIN files /\ f \in DOMAIN Gathered
    BY DEF TextFiles, AnonymizerInv, FilesAreGathered
  <2>2. Ready
    BY DEF Ready, InputsStandOut, AnonymizerInv, MappingInv
  <2>3. files[f].text = Whole(KindOf(f))[Was(f)]
    BY <2>1 DEF TextsInv, TextFits
  <2> QED BY <2>1, <2>2, <2>3, FileIsMasked DEF Was
<1>2. AnonymizerInv /\ MappingInv /\ TextsInv /\ [Next]_vars => TextsInv'
  BY TextsInvStep
<1>3. AnonymizerInv /\ MappingInv /\ [Next]_vars => MappingInv'
  BY MappingInvStep
<1> QED BY AnonymizerInvInit, AnonymizerInvStep, TextsInvInit, <1>1, <1>2, <1>3, PTL DEF Spec

-----------------------------------------------------------------------------
(* Paths, as sequences of components.                                      *)

(* A path is a sequence of texts.                                          *)
Trails == Seq(Texts)
Pre(o, k) == SubSeq(o, 1, k)

(* A path, as its components.                                              *)
LEMMA TrailIs ==
  ASSUME NEW o \in Trails
  PROVE  /\ Len(o) \in Nat /\ DOMAIN o = 1 .. Len(o)
         /\ \A i \in 1 .. Len(o) : o[i] \in Texts
         /\ (Len(o) = 0 <=> o = <<>>)
<1>1. Len(o) \in Nat /\ DOMAIN o = 1 .. Len(o) /\ \A i \in 1 .. Len(o) : o[i] \in Texts
  BY LenProperties, ElementOfSeq DEF Trails
<1>2. Len(o) = 0 <=> o = <<>>
  BY EmptySeq DEF Trails
<1> QED BY <1>1, <1>2

(* Paths of the same components are the same.                              *)
LEMMA SameTrails ==
  ASSUME NEW o \in Trails, NEW p \in Trails, Len(o) = Len(p), \A i \in 1 .. Len(o) : o[i] = p[i]
  PROVE  o = p
BY SeqEqual DEF Trails

(* The first components of a path.                                         *)
LEMMA PreIs ==
  ASSUME NEW o \in Trails, NEW k \in 0 .. Len(o)
  PROVE  /\ Pre(o, k) \in Trails /\ Len(Pre(o, k)) = k
         /\ \A i \in 1 .. k : Pre(o, k)[i] = o[i]
<1>1. Len(o) \in Nat
  BY TrailIs
<1>2. CASE k = 0
  <2>1. SubSeq(o, 1, 0) = <<>>
    BY SubSeqEmpty
  <2> QED BY <1>2, <2>1, EmptySeq DEF Pre, Trails
<1>3. CASE k # 0
  <2>1. 1 \in 1 .. Len(o) /\ k \in 1 .. Len(o) /\ k - 1 + 1 = k
    BY <1>1, <1>3
  <2> DEFINE S == Texts
             q == SubSeq(o, 1, k)
  <2> HIDE DEF S
  <2>2. o \in Seq(S)
    BY DEF Trails, S
  <2>3. q \in Seq(S) /\ Len(q) = k /\ \A i \in 1 .. k : q[i] = o[i]
    BY <1>1, <2>1, <2>2
  <2> HIDE DEF q
  <2> QED BY <2>3 DEF Pre, Trails, S, q
<1> QED BY <1>2, <1>3

(* Paths begin alike when their first components are the same.             *)
LEMMA SamePre ==
  ASSUME NEW o \in Trails, NEW p \in Trails, NEW k \in 0 .. Len(o), k \in 0 .. Len(p)
  PROVE  /\ Pre(o, k) = Pre(p, k) <=> \A i \in 1 .. k : o[i] = p[i]
         /\ Pre(p, Len(p)) = p
         /\ \A j \in 0 .. k : Pre(Pre(o, k), j) = Pre(o, j)
<1>1. Len(o) \in Nat /\ Len(p) \in Nat
  BY TrailIs
<1>2. /\ Pre(o, k) \in Trails /\ Len(Pre(o, k)) = k /\ \A i \in 1 .. k : Pre(o, k)[i] = o[i]
      /\ Pre(p, k) \in Trails /\ Len(Pre(p, k)) = k /\ \A i \in 1 .. k : Pre(p, k)[i] = p[i]
  BY PreIs
<1>3. Pre(o, k) = Pre(p, k) <=> \A i \in 1 .. k : o[i] = p[i]
  BY <1>2, SameTrails
<1>4. Pre(p, Len(p)) = p
  <2>1. Len(p) \in 0 .. Len(p)
    BY <1>1
  <2>2. /\ Pre(p, Len(p)) \in Trails /\ Len(Pre(p, Len(p))) = Len(p)
        /\ \A i \in 1 .. Len(p) : Pre(p, Len(p))[i] = p[i]
    BY <2>1, PreIs
  <2> QED BY <2>2, SameTrails
<1>5. ASSUME NEW j \in 0 .. k PROVE Pre(Pre(o, k), j) = Pre(o, j)
  <2>1. j \in 0 .. Len(Pre(o, k)) /\ j \in 0 .. Len(o) /\ \A i \in 1 .. j : i \in 1 .. k
    BY <1>1, <1>2
  <2>2. /\ Pre(Pre(o, k), j) \in Trails /\ Len(Pre(Pre(o, k), j)) = j
        /\ \A i \in 1 .. j : Pre(Pre(o, k), j)[i] = Pre(o, k)[i]
    BY <1>2, <2>1, PreIs
  <2>3. /\ Pre(o, j) \in Trails /\ Len(Pre(o, j)) = j
        /\ \A i \in 1 .. j : Pre(o, j)[i] = o[i]
    BY <2>1, PreIs
  <2>4. \A i \in 1 .. j : Pre(o, k)[i] = o[i]
    BY <1>2, <2>1
  <2>5. \A i \in 1 .. j : Pre(Pre(o, k), j)[i] = Pre(o, j)[i]
    BY <2>2, <2>3, <2>4
  <2> QED BY <2>2, <2>3, <2>5, SameTrails
<1> QED BY <1>3, <1>4, <1>5

(* One path is above another when the other begins with its components.    *)
LEMMA PrefixIs ==
  ASSUME NEW p \in Trails, NEW o \in Trails
  PROVE  IsPrefix(p, o) <=> Len(p) <= Len(o) /\ \A i \in 1 .. Len(p) : o[i] = p[i]
<1>1. Len(o) \in Nat /\ Len(p) \in Nat
  BY TrailIs
<1>2. IsPrefix(p, o) <=> Len(p) <= Len(o) /\ Pre(p, Len(p)) = Pre(o, Len(p))
  BY DEF IsPrefix, Pre
<1>3. CASE Len(p) <= Len(o)
  <2>1. Len(p) \in 0 .. Len(o) /\ Len(p) \in 0 .. Len(p)
    BY <1>1, <1>3
  <2>2. Pre(o, Len(p)) = Pre(p, Len(p)) <=> \A i \in 1 .. Len(p) : o[i] = p[i]
    BY <2>1, SamePre
  <2> QED BY <1>2, <1>3, <2>2
<1> QED BY <1>2, <1>3

(* A longer path is written with more.                                     *)
LEMMA LongerIsWrittenLonger ==
  ASSUME NEW q \in Trails, NEW n \in 0 .. Len(q), n < Len(q),
         \A i \in 1 .. Len(q) : q[i] # <<>>
  PROVE  /\ Len(FlattenSeq(q)) \in Nat /\ Len(FlattenSeq(Pre(q, n))) \in Nat
         /\ Len(FlattenSeq(Pre(q, n))) < Len(FlattenSeq(q))
<1> DEFINE p == Pre(q, n)
           m == Len(q)
<1>1. /\ m \in Nat /\ DOMAIN q = 1 .. m /\ (m = 0 <=> q = <<>>)
      /\ \A i \in 1 .. m : q[i] \in Texts /\ q[i] # <<>>
  BY TrailIs
<1>2. /\ p \in Trails /\ Len(p) = n /\ \A i \in 1 .. n : p[i] = q[i]
  BY PreIs
<1>3. DOMAIN p = 1 .. n /\ (n = 0 <=> p = <<>>)
  BY <1>2, TrailIs
<1> HIDE DEF p
<1>4. n \in Nat /\ \A i \in 1 .. n : i \in 1 .. m
  BY <1>1
<1>5. Blocks(q) /\ Blocks(p)
  BY <1>1, <1>2, <1>3, <1>4 DEF Blocks
<1>6. PICK f : /\ Flattens(f, q, m) /\ FlattenSeq(q) = f[m] /\ \A i \in 0 .. m : f[i] \in Texts
  BY <1>5, FlattenIs
<1>7. PICK g : /\ Flattens(g, p, n) /\ FlattenSeq(p) = g[n] /\ \A i \in 0 .. n : g[i] \in Texts
  BY <1>2, <1>5, FlattenIs
<1>11. /\ \A j \in 1 .. m : f[j] = Cat(f[j - 1], q[j])
       /\ \A j \in 1 .. n : g[j] = Cat(g[j - 1], p[j])
  <2>1. \A j \in 1 .. m : f[j] = Cat(f[j - 1], q[j])
    BY <1>6, Zenon DEF Flattens
  <2>2. \A j \in 1 .. n : g[j] = Cat(g[j - 1], p[j])
    BY <1>7, Zenon DEF Flattens
  <2> QED BY <2>1, <2>2
<1>8. g[n] = f[n]
  <2> DEFINE T == {i \in 0 .. n : g[i] = f[i]}
  <2>1. 0 \in T
    BY <1>4, <1>6, <1>7 DEF Flattens
  <2>2. ASSUME NEW i \in T, i \in 0 .. n - 1 PROVE i + 1 \in T
    <3>1. i + 1 \in 1 .. n /\ i + 1 \in 1 .. m /\ i + 1 - 1 = i /\ g[i] = f[i] /\ i + 1 \in 0 .. n
      BY <1>4, <2>2
    <3>2. g[i + 1] = Cat(g[i + 1 - 1], p[i + 1]) /\ f[i + 1] = Cat(f[i + 1 - 1], q[i + 1])
      BY <1>11, <3>1
    <3> QED BY <1>2, <3>1, <3>2
  <2>3. 0 .. n \subseteq T
    <3> HIDE DEF T
    <3> QED BY <1>4, <2>1, <2>2, IntervalInduction
  <2> QED BY <1>4, <2>3
<1>9. \A i \in n + 1 .. m : Len(f[i]) \in Nat /\ Len(f[n]) \in Nat /\ Len(f[i]) > Len(f[n])
  <2> DEFINE T == {i \in 0 .. m : i >= n + 1 => Len(f[i]) > Len(f[n])}
  <2>0. \A i \in 0 .. m : f[i] \in Texts /\ Len(f[i]) \in Nat
    BY <1>6, TextIs
  <2>1. 0 \in T
    BY <1>1, <1>4
  <2>2. ASSUME NEW i \in T, i \in 0 .. m - 1 PROVE i + 1 \in T
    <3>1. i + 1 \in 1 .. m /\ i + 1 - 1 = i /\ i + 1 \in 0 .. m /\ i \in 0 .. m
      BY <1>1, <2>2
    <3>2. f[i + 1] = Cat(f[i + 1 - 1], q[i + 1])
      BY <1>11, <3>1
    <3>3. q[i + 1] \in Texts /\ q[i + 1] # <<>> /\ f[i] \in Texts
      BY <1>1, <2>0, <3>1
    <3>4. Len(q[i + 1]) \in Nat /\ Len(q[i + 1]) # 0
      BY <3>3, TextIs
    <3>5. Len(Cat(f[i], q[i + 1])) = Len(f[i]) + Len(q[i + 1])
      BY <3>3, CatIs
    <3> DEFINE a == Len(f[i])
               b == Len(f[i + 1])
               c == Len(q[i + 1])
               z == Len(f[n])
    <3>6. b = a + c /\ a \in Nat /\ c \in Nat /\ c # 0 /\ b \in Nat /\ z \in Nat
      BY <1>4, <2>0, <3>1, <3>2, <3>4, <3>5
    <3>7. i >= n + 1 => a > z
      BY <2>2
    <3>8. i = n => a = z
      OBVIOUS
    <3> HIDE DEF a, b, c, z
    <3>9. i + 1 >= n + 1 => b > z
      BY <1>4, <3>1, <3>6, <3>7, <3>8
    <3> QED BY <3>1, <3>9 DEF b, z
  <2>3. 0 .. m \subseteq T
    <3> HIDE DEF T
    <3> QED BY <1>1, <2>1, <2>2, IntervalInduction
  <2>4. \A i \in n + 1 .. m : i \in 0 .. m /\ i >= n + 1
    BY <1>1, <1>4
  <2> QED BY <1>4, <2>0, <2>3, <2>4
<1>10. m \in n + 1 .. m
  BY <1>1, <1>4
<1> QED BY <1>6, <1>7, <1>8, <1>9, <1>10 DEF p

-----------------------------------------------------------------------------
(* The components of gathered paths.                                       *)

(* The names of directories and files.                                     *)
Etcd == "etcd-"
EtcdOf(n) == Cat(One(Etcd), n)
Fixed == {<<"nodes">>, <<"manifest">>, <<"timestamp">>}
Components == NodeNames(nodes) \cup {EtcdOf(n) : n \in NodeNames(nodes)} \cup Fixed

(* The names of the other files and directories.                           *)
LEMMA FixedAre ==
  /\ \A t \in Fixed : t \in Texts /\ Len(t) = 1 /\ t # <<>> /\ Etcd \notin ToSet(t)
  /\ Etcd \in Tokens
<1>1. \A t \in Fixed : t \in Texts /\ Len(t) = 1 /\ t # <<>>
  <2>1. \A t \in Fixed : t \in Texts
    BY LiteralsAreTexts, Zenon DEF Fixed
  <2>2. ASSUME NEW x PROVE Len(<<x>>) = 1 /\ <<x>> # <<>>
    OBVIOUS
  <2>3. \A t \in Fixed : \E x : t = <<x>>
    BY Zenon DEF Fixed
  <2> QED BY <2>1, <2>2, <2>3
<1>2. Etcd \in Tokens
  BY Zenon DEF Tokens, Etcd
<1>3. Etcd # "nodes" /\ Etcd # "manifest" /\ Etcd # "timestamp"
  BY DEF Etcd
<1>4. \A t \in Fixed : Etcd \notin ToSet(t)
  <2>1. ASSUME NEW x PROVE ToSet(<<x>>) = {x}
    BY DEF ToSet
  <2> QED BY <1>3, <2>1 DEF Fixed
<1> QED BY <1>1, <1>2, <1>4

(* The name of a node's log.                                               *)
LEMMA EtcdOfIs ==
  ASSUME NEW n \in Texts
  PROVE  /\ EtcdOf(n) \in Texts /\ EtcdOf(n) # <<>> /\ Len(EtcdOf(n)) = Len(n) + 1 /\ Len(n) \in Nat
         /\ Etcd \in ToSet(EtcdOf(n)) /\ \A i \in 1 .. Len(n) : EtcdOf(n)[i + 1] = n[i]
<1> DEFINE e == One(Etcd)
<1>1. e \in Texts /\ Len(e) = 1 /\ e[1] = Etcd
  BY FixedAre, OneIs
<1> HIDE DEF e
<1>2. /\ Cat(e, n) \in Texts /\ Len(n) \in Nat /\ Len(Cat(e, n)) = Len(e) + Len(n)
      /\ \A i \in 1 .. Len(e) : Cat(e, n)[i] = e[i]
      /\ \A i \in 1 .. Len(n) : Cat(e, n)[Len(e) + i] = n[i]
  BY <1>1, CatIs
<1>3. Len(Cat(e, n)) = Len(n) + 1 /\ Cat(e, n)[1] = Etcd
  BY <1>1, <1>2
<1>4. DOMAIN Cat(e, n) = 1 .. Len(Cat(e, n)) /\ (Len(Cat(e, n)) = 0 <=> Cat(e, n) = <<>>)
  BY <1>2, TextIs
<1>5. 1 \in DOMAIN Cat(e, n) /\ Cat(e, n) # <<>>
  <2>1. Len(Cat(e, n)) # 0
    BY <1>2, <1>3
  <2> QED BY <1>2, <1>3, <1>4, <2>1
<1>6. Etcd \in ToSet(Cat(e, n))
  BY <1>3, <1>5 DEF ToSet
<1>7. \A i \in 1 .. Len(n) : Cat(e, n)[i + 1] = n[i]
  <2> TAKE i \in 1 .. Len(n)
  <2>1. i + 1 = Len(e) + i
    BY <1>1, <1>2
  <2> QED BY <1>2, <2>1
<1> QED BY <1>2, <1>3, <1>5, <1>6, <1>7 DEF EtcdOf, e

(* The names, the pseudonyms, what they are put behind, and the other      *)
(* names are all different.                                                *)
LEMMA NamesDiffer ==
  ASSUME nodes \in Clusters, NamesStandOut(nodes)
  PROVE  LET all == NodeNames(nodes) \cup Pseudonyms(nodes) IN
         /\ \A x \in all : x \in Texts /\ x # <<>>
         /\ \A n \in NodeNames(nodes) : \A p \in Pseudonyms(nodes) : n # p
         /\ \A x, y \in all : x # EtcdOf(y) /\ (EtcdOf(x) = EtcdOf(y) => x = y)
         /\ \A x \in all : \A t \in Fixed : x # t /\ EtcdOf(x) # t
<1> DEFINE all == NodeNames(nodes) \cup Pseudonyms(nodes)
<1>1. \A p \in Pseudonyms(nodes) : Len(p) = 2
  <2> TAKE p \in Pseudonyms(nodes)
  <2>1. PICK n \in NodeNames(nodes) : p = BuildNodeMapping(nodes)[n]
    BY DEF Pseudonyms
  <2>2. ASSUME NEW a, NEW b PROVE Len(<<a, b>>) = 2
    OBVIOUS
  <2> QED BY <2>1, <2>2, MappingOf
<1>2. \A x \in all : x \in Texts /\ x # <<>>
  <2>1. \A x \in all : x \in Texts
    BY NamesAreTexts
  <2> QED BY <1>1, <2>1, NamesAreTexts, TextIs, SMTT(30)
<1>3. \A x \in all : Etcd \notin ToSet(x)
  BY DEF NamesStandOut, Reserved, Etcd
<1>4. ASSUME NEW n \in NodeNames(nodes) PROVE Occurs(n, n)
  <2>1. n \in Texts /\ n # <<>>
    BY <1>2
  <2>2. Len(n) \in Nat /\ DOMAIN n = 1 .. Len(n) /\ Len(n) # 0
    BY <2>1, TextIs
  <2>3. 1 \in DOMAIN n /\ Len(n) >= Len(n)
    BY <2>2
  <2>4. OccursAt(n, n, 1)
    BY <2>1, <2>2, <2>3, OccursInShorter
  <2> QED BY <2>3, <2>4 DEF Occurs
<1>5. \A n \in NodeNames(nodes) : n \notin Pseudonyms(nodes) \cup Fixed
  BY <1>4 DEF NamesStandOut, Fixed
<1>6. \A x, y \in all : x # EtcdOf(y) /\ (EtcdOf(x) = EtcdOf(y) => x = y)
  <2> TAKE x, y \in all
  <2>1. x # EtcdOf(y)
    BY <1>2, <1>3, EtcdOfIs
  <2>2. ASSUME EtcdOf(x) = EtcdOf(y) PROVE x = y
    <3>1. x \in Texts /\ y \in Texts
      BY <1>2
    <3>2. /\ Len(EtcdOf(x)) = Len(x) + 1 /\ Len(x) \in Nat /\ \A i \in 1 .. Len(x) : EtcdOf(x)[i + 1] = x[i]
          /\ Len(EtcdOf(y)) = Len(y) + 1 /\ Len(y) \in Nat /\ \A i \in 1 .. Len(y) : EtcdOf(y)[i + 1] = y[i]
      BY <3>1, EtcdOfIs
    <3>3. Len(x) = Len(y)
      BY <2>2, <3>2
    <3> QED BY <2>2, <3>1, <3>2, <3>3, SameTexts
  <2> QED BY <2>1, <2>2
<1>7. \A x \in all : \A t \in Fixed : x # t /\ EtcdOf(x) # t
  <2> TAKE x \in all
  <2> TAKE t \in Fixed
  <2>1. Len(t) = 1 /\ Etcd \notin ToSet(t)
    BY FixedAre
  <2>2. Etcd \in ToSet(EtcdOf(x))
    BY <1>2, EtcdOfIs
  <2>3. x # t
    BY <1>1, <1>5, <2>1
  <2> QED BY <2>1, <2>2, <2>3
<1> QED BY <1>2, <1>5, <1>6, <1>7

(* What replacing the names makes of a name of a directory or file.        *)
LEMMA ComponentIsReplaced ==
  ASSUME nodes \in Clusters, NamesReady, NamesStandOut(nodes)
  PROVE  /\ \A c \in Components : c \in Texts /\ c # <<>>
         /\ \A t \in Texts : ReplaceNames(t) \in Texts /\ (mapping = <<>> => ReplaceNames(t) = t)
         /\ \A t \in Fixed : ReplaceNames(t) = t
         /\ mapping # <<>> => \A n \in NodeNames(nodes) :
              /\ ReplaceNames(n) = mapping[n] /\ mapping[n] \in Pseudonyms(nodes)
              /\ ReplaceNames(EtcdOf(n)) = EtcdOf(mapping[n])
<1>1. \A c \in Components : c \in Texts /\ c # <<>>
  BY NamesDiffer, FixedAre, EtcdOfIs DEF Components
<1>2. \A t \in Texts : ReplaceNames(t) \in Texts /\ (mapping = <<>> => ReplaceNames(t) = t)
  BY NamesReplace, NoNameNoChange
<1>3. \A t \in Fixed : ReplaceNames(t) = t
  <2>1. \A n \in NodeNames(nodes) : \A t \in Fixed : ~Occurs(n, t)
    BY DEF NamesStandOut, Fixed
  <2> QED BY <2>1, FixedAre, NoNameNoChange
<1>4. ASSUME mapping # <<>>, NEW n \in NodeNames(nodes)
      PROVE  /\ ReplaceNames(n) = mapping[n] /\ mapping[n] \in Pseudonyms(nodes)
             /\ ReplaceNames(EtcdOf(n)) = EtcdOf(mapping[n])
  <2>1. ReplaceNames(n) = mapping[n] /\ mapping[n] \in Pseudonyms(nodes)
    BY <1>4, NameIsReplaced
  <2>2. n \in Texts /\ mapping[n] \in Texts /\ <<>> \in Texts
    BY <2>1, NamesAreTexts, NoneIs
  <2>3. IsPass(NamesPass, Etcd)
    BY NamesPassIs DEF Etcd
  <2>4. ASSUME NEW t \in Texts PROVE Around(<<>>, Etcd, t) = EtcdOf(t)
    <3>1. One(Etcd) \in Texts
      BY FixedAre, OneIs
    <3>2. Cat(<<>>, One(Etcd)) = One(Etcd)
      BY <3>1, TextIs
    <3> QED BY <3>2 DEF Around, EtcdOf
  <2>5. NamesPass[Around(<<>>, Etcd, n)] = Around(NamesPass[<<>>], Etcd, NamesPass[n])
        /\ NamesPass[<<>>] = <<>>
    BY <2>2, <2>3 DEF IsPass
  <2>6. NamesPass[EtcdOf(n)] = EtcdOf(mapping[n])
    <3>1. NamesPass[n] = mapping[n]
      BY <2>1, <2>2 DEF NamesPass
    <3> QED BY <2>2, <2>4, <2>5, <3>1
  <2>7. EtcdOf(n) \in Texts
    BY <2>2, EtcdOfIs
  <2> QED BY <2>1, <2>6, <2>7 DEF NamesPass
<1> QED BY <1>1, <1>2, <1>3, <1>4

(* A name that is replaced becomes none that was there, and two do not     *)
(* become one.                                                             *)
LEMMA ComponentsApart ==
  ASSUME nodes \in Clusters, NamesReady, NamesStandOut(nodes), NEW c \in Components, NEW d \in Components
  PROVE  /\ ReplaceNames(c) = d => ReplaceNames(c) = c
         /\ ReplaceNames(c) = ReplaceNames(d) => c = d
<1>1. CASE mapping = <<>>
  BY <1>1, ComponentIsReplaced
<1>2. CASE mapping # <<>>
  <2> DEFINE A == NodeNames(nodes)
             P == Pseudonyms(nodes)
             R(t) == ReplaceNames(t)
  <2>1. /\ \A n \in A : R(n) = mapping[n] /\ mapping[n] \in P /\ R(EtcdOf(n)) = EtcdOf(mapping[n])
        /\ \A t \in Fixed : R(t) = t
    BY <1>2, ComponentIsReplaced
  <2>2. /\ \A n \in A : \A p \in P : n # p
        /\ \A x, y \in A \cup P : x # EtcdOf(y) /\ (EtcdOf(x) = EtcdOf(y) => x = y)
        /\ \A x \in A \cup P : \A t \in Fixed : x # t /\ EtcdOf(x) # t
    BY NamesDiffer
  <2>3. \A m, n \in A : mapping[m] = mapping[n] => m = n
    <3>1. mapping = BuildNodeMapping(nodes)
      BY <1>2 DEF NamesReady
    <3> QED BY <3>1, MappingIsInjective
  <2>4. Components = A \cup {EtcdOf(n) : n \in A} \cup Fixed
    BY DEF Components
  <2> HIDE DEF A, P, R
  <2>5. ASSUME c \in A PROVE (R(c) = d => R(c) = c) /\ (R(c) = R(d) => c = d)
    <3>1. CASE d \in A
      BY <2>1, <2>2, <2>3, <2>5, <3>1
    <3>2. CASE \E n \in A : d = EtcdOf(n)
      BY <2>1, <2>2, <2>5, <3>2
    <3>3. CASE d \in Fixed
      BY <2>1, <2>2, <2>5, <3>3
    <3> QED BY <2>4, <3>1, <3>2, <3>3
  <2>6. ASSUME NEW m \in A, c = EtcdOf(m) PROVE (R(c) = d => R(c) = c) /\ (R(c) = R(d) => c = d)
    <3>1. CASE d \in A
      BY <2>1, <2>2, <2>6, <3>1
    <3>2. CASE \E n \in A : d = EtcdOf(n)
      <4>1. PICK n \in A : d = EtcdOf(n)
        BY <3>2
      <4>2. R(c) = EtcdOf(mapping[m]) /\ R(d) = EtcdOf(mapping[n]) /\ mapping[m] \in P /\ mapping[n] \in P
        BY <2>1, <2>6, <4>1
      <4>3. R(c) # d
        BY <2>2, <4>1, <4>2
      <4>4. R(c) = R(d) => mapping[m] = mapping[n]
        BY <2>2, <4>2
      <4> QED BY <2>3, <2>6, <4>1, <4>3, <4>4
    <3>3. CASE d \in Fixed
      BY <2>1, <2>2, <2>6, <3>3
    <3> QED BY <2>4, <3>1, <3>2, <3>3
  <2>7. ASSUME c \in Fixed PROVE (R(c) = d => R(c) = c) /\ (R(c) = R(d) => c = d)
    <3>1. CASE d \in A
      BY <2>1, <2>2, <2>7, <3>1
    <3>2. CASE \E n \in A : d = EtcdOf(n)
      BY <2>1, <2>2, <2>7, <3>2
    <3>3. CASE d \in Fixed
      BY <2>1, <2>2, <2>7, <3>3
    <3> QED BY <2>4, <3>1, <3>2, <3>3
  <2>8. (R(c) = d => R(c) = c) /\ (R(c) = R(d) => c = d)
    BY <2>4, <2>5, <2>6, <2>7
  <2> QED BY <2>8 DEF R
<1> QED BY <1>1, <1>2

(* The components of a gathered path, as atoms.                            *)
RootAtoms == <<Atom("other", root)>>
ComponentAtoms ==
  {<<NameOf(nodes[i])>> : i \in DOMAIN nodes} \cup
  {<<Other("etcd-"), NameOf(nodes[i])>> : i \in DOMAIN nodes} \cup
  {<<Other("nodes")>>, <<Other("manifest")>>, <<Other("timestamp")>>}

(* A path that is gathered.                                                *)
GatheredPath(path) ==
  /\ Len(path) \in Nat /\ Len(path) >= 1 /\ DOMAIN path = 1 .. Len(path)
  /\ path[1] = RootAtoms
  /\ \A k \in 1 .. Len(path) : k # 1 => path[k] \in ComponentAtoms

(* Every gathered file has one.                                            *)
LEMMA PathsAreGathered ==
  ASSUME nodes \in Clusters, NEW f \in DOMAIN Gathered
  PROVE  GatheredPath(Gathered[f].path)
<1>1. ASSUME NEW r, NEW a, NEW b, NEW S, a \in S, b \in S
      PROVE  /\ \A p : p = <<r>> \o <<a>> =>
                  /\ Len(p) = 2 /\ DOMAIN p = 1 .. 2 /\ p[1] = r
                  /\ \A k \in 1 .. 2 : k # 1 => p[k] \in S
             /\ \A p : p = <<r>> \o <<a, b>> =>
                  /\ Len(p) = 3 /\ DOMAIN p = 1 .. 3 /\ p[1] = r
                  /\ \A k \in 1 .. 3 : k # 1 => p[k] \in S
  <2> DEFINE T == {r, a, b}
  <2>1. <<r>> \in Seq(T) /\ <<a>> \in Seq(T) /\ <<a, b>> \in Seq(T)
    <3>1. ASSUME NEW U, NEW x \in U, NEW y \in U, NEW z \in U
          PROVE  <<x>> \in Seq(U) /\ <<y>> \in Seq(U) /\ <<y, z>> \in Seq(U)
      OBVIOUS
    <3>2. r \in T /\ a \in T /\ b \in T
      OBVIOUS
    <3> QED BY <3>1, <3>2, Zenon
  <2>2. /\ Len(<<r>>) = 1 /\ Len(<<a>>) = 1 /\ Len(<<a, b>>) = 2
        /\ <<r>>[1] = r /\ <<a>>[1] = a /\ <<a, b>>[1] = a /\ <<a, b>>[2] = b
    OBVIOUS
  <2> DEFINE x == <<r>>
             y == <<a>>
             z == <<a, b>>
  <2> HIDE DEF T, x, y, z
  <2>3. /\ x \o y \in Seq(T) /\ Len(x \o y) = 2
        /\ \A i \in 1 .. 2 : (x \o y)[i] = IF i <= 1 THEN x[i] ELSE y[i - 1]
    BY <2>1, <2>2, ConcatProperties DEF x, y
  <2>4. /\ x \o z \in Seq(T) /\ Len(x \o z) = 3
        /\ \A i \in 1 .. 3 : (x \o z)[i] = IF i <= 1 THEN x[i] ELSE z[i - 1]
    BY <2>1, <2>2, ConcatProperties DEF x, z
  <2>5. x[1] = r /\ y[1] = a /\ z[1] = a /\ z[2] = b
    BY <2>2 DEF x, y, z
  <2>6. /\ DOMAIN (x \o y) = 1 .. 2 /\ (x \o y)[1] = r /\ (x \o y)[2] = a
        /\ DOMAIN (x \o z) = 1 .. 3 /\ (x \o z)[1] = r /\ (x \o z)[2] = a /\ (x \o z)[3] = b
    BY <2>3, <2>4, <2>5
  <2>7. /\ \A k \in 1 .. 2 : k # 1 => (x \o y)[k] \in S
        /\ \A k \in 1 .. 3 : k # 1 => (x \o z)[k] \in S
    <3>1. (\A k \in 1 .. 2 : k # 1 => k = 2) /\ (\A k \in 1 .. 3 : k # 1 => k = 2 \/ k = 3)
      OBVIOUS
    <3> QED BY <1>1, <2>6, <3>1
  <2> QED BY <2>3, <2>4, <2>6, <2>7 DEF x, y, z
<1>2. ASSUME NEW p, NEW a, NEW b, a \in ComponentAtoms, b \in ComponentAtoms,
             p = <<RootAtoms>> \o <<a>> \/ p = <<RootAtoms>> \o <<a, b>>
      PROVE  GatheredPath(p)
  <2>1. \/ /\ Len(p) = 2 /\ DOMAIN p = 1 .. 2 /\ p[1] = RootAtoms
           /\ \A k \in 1 .. 2 : k # 1 => p[k] \in ComponentAtoms
        \/ /\ Len(p) = 3 /\ DOMAIN p = 1 .. 3 /\ p[1] = RootAtoms
           /\ \A k \in 1 .. 3 : k # 1 => p[k] \in ComponentAtoms
    BY <1>1, <1>2
  <2> QED BY <2>1 DEF GatheredPath
<1>3. ASSUME NEW p, NEW e, NEW t PROVE File(p, e, t).path = <<RootAtoms>> \o p
  BY DEF File, RootAtoms
<1>4. Gathered[f] \in GatheredFiles
  BY GatheredIs
<1>5. ASSUME NEW i \in DOMAIN nodes
      PROVE  GatheredPath(LogOf(nodes[i]).path) /\ GatheredPath(ManifestOf(nodes[i]).path)
  <2> DEFINE a == <<NameOf(nodes[i])>>
             b == <<Other("etcd-"), NameOf(nodes[i])>>
             c == <<Other("nodes")>>
  <2>1. a \in ComponentAtoms /\ b \in ComponentAtoms /\ c \in ComponentAtoms
    BY Zenon DEF ComponentAtoms
  <2>2. LogOf(nodes[i]).path = <<RootAtoms>> \o <<a, b>>
    BY <1>3, Zenon DEF LogOf
  <2>3. ManifestOf(nodes[i]).path = <<RootAtoms>> \o <<c, a>>
    BY <1>3, Zenon DEF ManifestOf
  <2> HIDE DEF a, b, c
  <2> QED BY <1>2, <2>1, <2>2, <2>3
<1>6. ASSUME NEW g \in OtherFiles PROVE GatheredPath(g.path)
  <2> DEFINE a == <<Other("manifest")>>
             b == <<Other("timestamp")>>
  <2>1. a \in ComponentAtoms /\ b \in ComponentAtoms
    BY Zenon DEF ComponentAtoms
  <2>2. g.path = <<RootAtoms>> \o <<a>> \/ g.path = <<RootAtoms>> \o <<b>>
    BY <1>3, Zenon DEF OtherFiles
  <2> HIDE DEF a, b
  <2> QED BY <1>2, <2>1, <2>2
<1> QED BY <1>4, <1>5, <1>6 DEF GatheredFiles

(* The texts of one atom and of two.                                       *)
LEMMA OneAtom ==
  ASSUME NEW a, NEW ext, NEW names, NEW d
  PROVE  /\ Text(<<a>>) = FlattenSeq(<<a.text>>)
         /\ Masked(<<a>>, ext, names, d) = FlattenSeq(<<Stand(a, ext, names, d)>>)
<1> DEFINE T(x) == x.text
           S(x) == Stand(x, ext, names, d)
<1>1. Text(<<a>>) = FlattenSeq([i \in DOMAIN <<a>> |-> T(<<a>>[i])])
  BY Zenon DEF Text
<1>2. Masked(<<a>>, ext, names, d) = FlattenSeq([i \in DOMAIN <<a>> |-> S(<<a>>[i])])
  BY Zenon DEF Masked
<1> HIDE DEF T, S
<1>3. /\ [i \in DOMAIN <<a>> |-> T(<<a>>[i])] = <<T(a)>>
      /\ [i \in DOMAIN <<a>> |-> S(<<a>>[i])] = <<S(a)>>
  OBVIOUS
<1>4. Text(<<a>>) = FlattenSeq(<<T(a)>>) /\ Masked(<<a>>, ext, names, d) = FlattenSeq(<<S(a)>>)
  BY <1>1, <1>2, <1>3, Zenon
<1> QED BY <1>4, Zenon DEF T, S

(* The text of two atoms, and what is promised for it.                     *)
LEMMA TwoAtoms ==
  ASSUME NEW a, NEW b
  PROVE  Text(<<a, b>>) = FlattenSeq(<<a.text, b.text>>)
<1> DEFINE T(x) == x.text
<1>1. Text(<<a, b>>) = FlattenSeq([i \in DOMAIN <<a, b>> |-> T(<<a, b>>[i])])
  BY Zenon DEF Text
<1> HIDE DEF T
<1>2. [i \in DOMAIN <<a, b>> |-> T(<<a, b>>[i])] = <<T(a), T(b)>>
  OBVIOUS
<1>3. Text(<<a, b>>) = FlattenSeq(<<T(a), T(b)>>)
  BY <1>1, <1>2, Zenon
<1> QED BY <1>3, Zenon DEF T

(* What is promised for two atoms.                                         *)
LEMMA TwoMasked ==
  ASSUME NEW a, NEW b, NEW ext, NEW names, NEW d
  PROVE  Masked(<<a, b>>, ext, names, d) = FlattenSeq(<<Stand(a, ext, names, d), Stand(b, ext, names, d)>>)
<1> DEFINE S(x) == Stand(x, ext, names, d)
<1>1. Masked(<<a, b>>, ext, names, d) = FlattenSeq([i \in DOMAIN <<a, b>> |-> S(<<a, b>>[i])])
  BY Zenon DEF Masked
<1> HIDE DEF S
<1>2. [i \in DOMAIN <<a, b>> |-> S(<<a, b>>[i])] = <<S(a), S(b)>>
  OBVIOUS
<1>3. Masked(<<a, b>>, ext, names, d) = FlattenSeq(<<S(a), S(b)>>)
  BY <1>1, <1>2, Zenon
<1> QED BY <1>3, Zenon DEF S

(* A component, and what is promised for it.                               *)
LEMMA ComponentIs ==
  ASSUME nodes \in Clusters, NamesReady, NamesStandOut(nodes), NEW c \in ComponentAtoms
  PROVE  /\ Text(c) \in Components
         /\ Masked(c, "", mapping, <<>>) = ReplaceNames(Text(c))
<1> DEFINE S(a) == Stand(a, "", mapping, <<>>)
<1>1. ASSUME NEW i \in DOMAIN nodes
      PROVE  LET a == NameOf(nodes[i]) IN
             /\ a.text \in NodeNames(nodes) /\ a.text \in Texts
             /\ S(a) = IF mapping = <<>> THEN a.text ELSE mapping[a.text]
             /\ S(a) = ReplaceNames(a.text) /\ S(a) \in Texts
             /\ EtcdOf(S(a)) = ReplaceNames(EtcdOf(a.text))
  <2> DEFINE a == NameOf(nodes[i])
  <2>1. a.kind = "node" /\ a.text = nodes[i].name /\ a.text \in NodeNames(nodes)
    BY DEF NameOf, Atom, NodeNames
  <2> HIDE DEF a
  <2>2. a.text \in Texts
    BY <2>1, NamesAreTexts
  <2>3. mapping # <<>> => a.text \in DOMAIN mapping
    BY <2>1, NamesAreTexts DEF NamesReady
  <2>4. mapping = <<>> => a.text \notin DOMAIN mapping
    OBVIOUS
  <2>5. MaskSuffix(a.text, <<>>) = a.text
    <3>1. ToSet(DomainForms(<<>>)) = {}
      BY DEF ToSet, DomainForms
    <3> QED BY <3>1 DEF MaskSuffix
  <2>6. S(a) = IF a.text \in DOMAIN mapping THEN mapping[a.text]
               ELSE IF "domains" \in options THEN MaskSuffix(a.text, <<>>) ELSE a.text
    BY <2>1 DEF Stand
  <2>7. S(a) = IF mapping = <<>> THEN a.text ELSE mapping[a.text]
    BY <2>3, <2>4, <2>5, <2>6
  <2>8. EtcdOf(a.text) \in Texts
    BY <2>2, EtcdOfIs
  <2>9. /\ ReplaceNames(a.text) \in Texts
        /\ mapping = <<>> => ReplaceNames(a.text) = a.text /\ ReplaceNames(EtcdOf(a.text)) = EtcdOf(a.text)
        /\ mapping # <<>> => /\ ReplaceNames(a.text) = mapping[a.text]
                             /\ ReplaceNames(EtcdOf(a.text)) = EtcdOf(mapping[a.text])
    BY <2>1, <2>2, <2>8, ComponentIsReplaced
  <2> HIDE DEF S
  <2>10. /\ S(a) = ReplaceNames(a.text) /\ S(a) \in Texts
         /\ EtcdOf(S(a)) = ReplaceNames(EtcdOf(a.text))
    BY <2>7, <2>9
  <2> QED BY <2>1, <2>2, <2>7, <2>10 DEF a
<1>2. ASSUME NEW t
      PROVE  Other(t).text = <<t>> /\ S(Other(t)) = <<t>>
  <2>1. Other(t).kind = "other" /\ Other(t).text = <<t>>
    BY DEF Other, Atom
  <2> QED BY <2>1 DEF Stand
<1> HIDE DEF S
<1>3. CASE \E i \in DOMAIN nodes : c = <<NameOf(nodes[i])>>
  <2>1. PICK i \in DOMAIN nodes : c = <<NameOf(nodes[i])>>
    BY <1>3
  <2> DEFINE a == NameOf(nodes[i])
  <2>2. a.text \in NodeNames(nodes) /\ a.text \in Texts /\ S(a) = ReplaceNames(a.text) /\ S(a) \in Texts
    BY <1>1
  <2> HIDE DEF a
  <2>3. Text(<<a>>) = a.text /\ Masked(<<a>>, "", mapping, <<>>) = S(a)
    <3>1. Text(<<a>>) = FlattenSeq(<<a.text>>) /\ Masked(<<a>>, "", mapping, <<>>) = FlattenSeq(<<S(a)>>)
      BY OneAtom, Zenon DEF S
    <3> QED BY <2>2, <3>1, FlattenFew
  <2> QED BY <2>1, <2>2, <2>3 DEF a, Components
<1>4. CASE \E i \in DOMAIN nodes : c = <<Other("etcd-"), NameOf(nodes[i])>>
  <2>1. PICK i \in DOMAIN nodes : c = <<Other("etcd-"), NameOf(nodes[i])>>
    BY <1>4
  <2> DEFINE a == NameOf(nodes[i])
             b == Other(Etcd)
  <2>2. /\ a.text \in NodeNames(nodes) /\ a.text \in Texts /\ S(a) \in Texts
        /\ EtcdOf(S(a)) = ReplaceNames(EtcdOf(a.text))
    BY <1>1
  <2>3. b.text = One(Etcd) /\ S(b) = One(Etcd) /\ One(Etcd) \in Texts
    BY <1>2, FixedAre, OneIs DEF One
  <2>4. c = <<b, a>>
    BY <2>1 DEF Etcd
  <2> HIDE DEF a, b
  <2>5. Text(<<b, a>>) = FlattenSeq(<<b.text, a.text>>) /\ Masked(<<b, a>>, "", mapping, <<>>) = FlattenSeq(<<S(b), S(a)>>)
    <3>1. Text(<<b, a>>) = FlattenSeq(<<b.text, a.text>>)
      BY TwoAtoms, Zenon
    <3>2. Masked(<<b, a>>, "", mapping, <<>>) =
            FlattenSeq(<<Stand(b, "", mapping, <<>>), Stand(a, "", mapping, <<>>)>>)
      <4>1. ASSUME NEW x, NEW y, NEW ext, NEW names, NEW d
            PROVE  Masked(<<x, y>>, ext, names, d) =
                     FlattenSeq(<<Stand(x, ext, names, d), Stand(y, ext, names, d)>>)
        BY TwoMasked
      <4>2. ASSUME NEW ext, NEW names, NEW d
            PROVE  Masked(<<b, a>>, ext, names, d) =
                     FlattenSeq(<<Stand(b, ext, names, d), Stand(a, ext, names, d)>>)
        BY <4>1
      <4> QED BY <4>2
    <3> QED BY <3>1, <3>2, Zenon DEF S
  <2>6. Text(<<b, a>>) = EtcdOf(a.text) /\ Masked(<<b, a>>, "", mapping, <<>>) = EtcdOf(S(a))
    BY <2>2, <2>3, <2>5, FlattenFew DEF EtcdOf
  <2> QED BY <2>2, <2>4, <2>6 DEF Components
<1>5. CASE c \in {<<Other("nodes")>>, <<Other("manifest")>>, <<Other("timestamp")>>}
  <2>1. PICK t : c = <<Other(t)>> /\ <<t>> \in Fixed
    BY <1>5, Zenon DEF Fixed
  <2>2. <<t>> \in Texts /\ ReplaceNames(<<t>>) = <<t>>
    BY <2>1, FixedAre, ComponentIsReplaced
  <2>3. Text(c) = FlattenSeq(<<Other(t).text>>) /\ Masked(c, "", mapping, <<>>) = FlattenSeq(<<S(Other(t))>>)
    BY <2>1, OneAtom, Zenon DEF S
  <2>4. Text(c) = <<t>> /\ Masked(c, "", mapping, <<>>) = <<t>>
    BY <1>2, <2>2, <2>3, FlattenFew
  <2> QED BY <2>1, <2>2, <2>4 DEF Components
<1> QED BY <1>3, <1>4, <1>5 DEF ComponentAtoms

(* The path of a gathered file, and the one that is promised.              *)
Path(f) == [k \in DOMAIN Gathered[f].path |-> Text(Gathered[f].path[k])]

(* Its components, and where it is promised to be.                         *)
LEMMA PathIs ==
  ASSUME nodes \in Clusters, NamesReady, NamesStandOut(nodes), root \in Texts, root # <<>>,
         NEW f \in DOMAIN Gathered
  PROVE  LET o == Path(f) IN
         /\ o \in Trails /\ Len(o) \in Nat /\ Len(o) >= 1 /\ DOMAIN o = 1 .. Len(o) /\ o[1] = root
         /\ \A k \in 1 .. Len(o) : o[k] # <<>> /\ (k # 1 => o[k] \in Components)
         /\ RenamedPath(Gathered[f].path, mapping) =
              [k \in 1 .. Len(o) |-> IF k = 1 THEN root ELSE ReplaceNames(o[k])]
<1> DEFINE path == Gathered[f].path
           o == Path(f)
           n == Len(path)
           M(c) == Masked(c, "", mapping, <<>>)
<1>1. /\ n \in Nat /\ n >= 1 /\ DOMAIN path = 1 .. n
      /\ path[1] = RootAtoms
      /\ \A k \in 1 .. n : k # 1 => path[k] \in ComponentAtoms
  BY PathsAreGathered DEF GatheredPath
<1>2. Text(RootAtoms) = root /\ M(RootAtoms) = root
  <2> DEFINE a == Atom("other", root)
  <2>1. a.kind = "other" /\ a.text = root
    BY DEF Atom
  <2> HIDE DEF a
  <2>2. Stand(a, "", mapping, <<>>) = root
    BY <2>1 DEF Stand
  <2>3. Text(<<a>>) = FlattenSeq(<<a.text>>) /\ M(<<a>>) = FlattenSeq(<<Stand(a, "", mapping, <<>>)>>)
    BY OneAtom, Zenon
  <2> QED BY <2>1, <2>2, <2>3, FlattenFew DEF RootAtoms, a
<1>3. o = [k \in 1 .. n |-> Text(path[k])]
  BY <1>1 DEF Path
<1>4. RenamedPath(path, mapping) = [k \in 1 .. n |-> M(path[k])]
  BY <1>1 DEF RenamedPath
<1> HIDE DEF path, o, n, M
<1>5. \A k \in 1 .. n : k # 1 => o[k] \in Components /\ M(path[k]) = ReplaceNames(o[k])
  BY <1>1, <1>3, ComponentIs DEF M
<1>6. 1 \in 1 .. n /\ o[1] = root /\ M(path[1]) = root
  BY <1>1, <1>2, <1>3
<1>7. \A k \in 1 .. n : o[k] \in Texts /\ o[k] # <<>>
  BY <1>5, <1>6, ComponentIsReplaced
<1>8. o \in Trails /\ Len(o) = n /\ DOMAIN o = 1 .. n
  <2>1. o \in [1 .. n -> Texts]
    BY <1>3, <1>7
  <2> QED BY <1>1, <1>3, <2>1 DEF Trails
<1>9. [k \in 1 .. n |-> M(path[k])] = [k \in 1 .. n |-> IF k = 1 THEN root ELSE ReplaceNames(o[k])]
  BY <1>5, <1>6
<1> QED BY <1>1, <1>4, <1>5, <1>6, <1>7, <1>8, <1>9 DEF o, path

-----------------------------------------------------------------------------
(* Where the files are while paths are renamed.                            *)

(* Another beginning for a path.                                           *)
LEMMA OtherBeginning ==
  ASSUME NEW s \in Trails, NEW t \in Trails, Len(t) <= Len(s)
  PROVE  t \o SubSeq(s, Len(t) + 1, Len(s)) =
           [k \in 1 .. Len(s) |-> IF k <= Len(t) THEN t[k] ELSE s[k]]
<1> DEFINE m == Len(s)
           n == Len(t)
           r == SubSeq(s, n + 1, m)
           u == t \o r
           v == [k \in 1 .. m |-> IF k <= n THEN t[k] ELSE s[k]]
<1>1. /\ m \in Nat /\ n \in Nat /\ n <= m
      /\ \A i \in 1 .. m : s[i] \in Texts
      /\ \A i \in 1 .. n : t[i] \in Texts
  BY TrailIs
<1>2. \A i \in n + 1 .. m : s[i] \in Texts
  BY <1>1
<1>3. n + 1 \in Int /\ m \in Int /\ (n + 1 <= m => m - (n + 1) + 1 = m - n) /\ (~(n + 1 <= m) => m - n = 0)
      /\ \A i \in 1 .. m - n : (n + 1) + i - 1 = n + i
      /\ m - (n + 1) + 1 = m - n
  BY <1>1
<1> HIDE DEF m, n
<1>4. r \in Seq(Texts) /\ Len(r) = m - n /\ \A i \in 1 .. m - n : r[i] = s[n + i]
  <2>1. /\ SubSeq(s, n + 1, m) \in Seq(Texts)
        /\ Len(SubSeq(s, n + 1, m)) = IF n + 1 <= m THEN m - (n + 1) + 1 ELSE 0
        /\ \A i \in 1 .. m - (n + 1) + 1 : SubSeq(s, n + 1, m)[i] = s[(n + 1) + i - 1]
    BY <1>2, <1>3, SubSeqProperties
  <2> QED BY <1>3, <2>1
<1> HIDE DEF r
<1>5. t \in Seq(Texts)
  BY DEF Trails
<1>6. /\ u \in Seq(Texts) /\ Len(u) = n + (m - n)
      /\ \A i \in 1 .. n + (m - n) : u[i] = IF i <= n THEN t[i] ELSE r[i - n]
  <2>1. /\ t \o r \in Seq(Texts) /\ Len(t \o r) = Len(t) + Len(r)
        /\ \A i \in 1 .. Len(t) + Len(r) :
             (t \o r)[i] = IF i <= Len(t) THEN t[i] ELSE r[i - Len(t)]
    BY <1>4, <1>5, ConcatProperties, Zenon
  <2>2. Len(t) = n
    BY DEF n
  <2> QED BY <1>4, <2>1, <2>2, Zenon
<1> HIDE DEF u
<1>7. Len(u) = m /\ \A i \in 1 .. m : u[i] = IF i <= n THEN t[i] ELSE s[i]
  <2>1. n + (m - n) = m
    BY <1>1
  <2>2. ASSUME NEW i \in 1 .. m, ~(i <= n) PROVE r[i - n] = s[i]
    <3>1. i - n \in 1 .. m - n /\ n + (i - n) = i
      BY <1>1, <2>2
    <3> QED BY <1>4, <3>1
  <2> QED BY <1>6, <2>1, <2>2
<1>8. v \in Seq(Texts) /\ Len(v) = m /\ \A i \in 1 .. m : v[i] = IF i <= n THEN t[i] ELSE s[i]
  <2>1. \A k \in 1 .. m : (IF k <= n THEN t[k] ELSE s[k]) \in Texts
    BY <1>1 DEF m, n
  <2>2. v \in [1 .. m -> Texts]
    BY <2>1
  <2> QED BY <1>1, <2>2
<1> HIDE DEF v
<1>9. u = v
  BY <1>6, <1>7, <1>8, SeqEqual
<1> QED BY <1>9 DEF u, v, r, m, n

(* Where a path is, some of whose directories are still to be renamed.     *)
Now(o) == [k \in 1 .. Len(o) |-> IF Pre(o, k) \in pending THEN o[k] ELSE ReplaceNames(o[k])]

(* No file is lost, and each is there.                                     *)
PathsFit ==
  /\ DOMAIN files = DOMAIN Gathered
  /\ \A f \in DOMAIN files : files[f].path = Now(Path(f))

(* What is pending is a beginning of a gathered path, and so is all above  *)
(* it.                                                                     *)
PendingFit ==
  \A q \in pending :
    /\ \E f \in DOMAIN Gathered : \E k \in 1 .. Len(Path(f)) : q = Pre(Path(f), k)
    /\ \A j \in 1 .. Len(q) : Pre(q, j) \in pending

(* What the lemmas about renaming ask of a state.                          *)
Renaming ==
  /\ nodes \in Clusters /\ NamesReady /\ NamesStandOut(nodes)
  /\ root \in Texts /\ root # <<>>
  /\ FilesAreGathered /\ PathsFit /\ PendingFit

(* A path that nothing has been renamed in.                                *)
Original(o) ==
  /\ o \in Trails /\ Len(o) \in Nat /\ Len(o) >= 1 /\ DOMAIN o = 1 .. Len(o) /\ o[1] = root
  /\ \A k \in 1 .. Len(o) : o[k] # <<>> /\ (k # 1 => o[k] \in Components)

(* A gathered path is one.                                                 *)
LEMMA PathsAreOriginal ==
  ASSUME Renaming, NEW f \in DOMAIN Gathered
  PROVE  Original(Path(f))
BY PathIs DEF Renaming, Original

(* Its components, by what is still pending.                               *)
LEMMA NowIs ==
  ASSUME Renaming, NEW o, Original(o)
  PROVE  /\ Now(o) \in Trails /\ Len(Now(o)) = Len(o)
         /\ \A k \in 1 .. Len(o) :
              Now(o)[k] = IF Pre(o, k) \in pending THEN o[k] ELSE ReplaceNames(o[k])
<1>1. Len(o) \in Nat /\ o \in Trails /\ \A k \in 1 .. Len(o) : o[k] \in Texts
  BY TrailIs DEF Original
<1>2. \A k \in 1 .. Len(o) : ReplaceNames(o[k]) \in Texts
  BY <1>1, NamesReplace DEF Renaming
<1>3. Now(o) \in [1 .. Len(o) -> Texts]
  BY <1>1, <1>2 DEF Now
<1>4. Now(o) \in Seq(Texts) /\ Len(Now(o)) = Len(o)
  BY <1>1, <1>3
<1>5. \A k \in 1 .. Len(o) :
        Now(o)[k] = IF Pre(o, k) \in pending THEN o[k] ELSE ReplaceNames(o[k])
  BY DEF Now
<1> QED BY <1>4, <1>5 DEF Trails

(* A pending path is one, and so is all above it, and a file is below it.  *)
LEMMA PendingIs ==
  ASSUME Renaming, NEW q \in pending
  PROVE  /\ Original(q) /\ \A j \in 1 .. Len(q) : Pre(q, j) \in pending
         /\ \E f \in DOMAIN Gathered :
              Len(q) <= Len(Path(f)) /\ \A i \in 1 .. Len(q) : Path(f)[i] = q[i]
<1>0. PICK f \in DOMAIN Gathered : \E k \in 1 .. Len(Path(f)) : q = Pre(Path(f), k)
  BY DEF Renaming, PendingFit
<1>1. PICK k \in 1 .. Len(Path(f)) : q = Pre(Path(f), k)
  BY <1>0
<1> DEFINE o == Path(f)
<1>2. Original(o)
  BY PathsAreOriginal
<1> HIDE DEF o
<1>3. k \in 0 .. Len(o) /\ Len(o) \in Nat /\ o \in Trails /\ k \in 1 .. Len(o)
  BY <1>1, <1>2 DEF Original, o
<1>4. q \in Trails /\ Len(q) = k /\ \A i \in 1 .. k : q[i] = o[i]
  BY <1>1, <1>3, PreIs DEF o
<1>5. DOMAIN q = 1 .. Len(q)
  BY <1>4, TrailIs
<1>6. 1 \in 1 .. k /\ k \in Nat /\ k >= 1 /\ \A i \in 1 .. k : i \in 1 .. Len(o)
  BY <1>3
<1>7. Original(q)
  BY <1>2, <1>4, <1>5, <1>6 DEF Original
<1>8. \A j \in 1 .. Len(q) : Pre(q, j) \in pending
  BY DEF Renaming, PendingFit
<1> QED BY <1>3, <1>4, <1>6, <1>7, <1>8 DEF o

(* A path that is where a pending one is now is that one.                  *)
LEMMA FollowsPending ==
  ASSUME Renaming, NEW q \in pending, NEW o, Original(o),
         NEW m \in 0 .. Len(q), m <= Len(o), \A k \in 1 .. m : Now(o)[k] = q[k]
  PROVE  \A k \in 1 .. m : o[k] = q[k]
<1> DEFINE T == {j \in 0 .. m : \A k \in 1 .. j : o[k] = q[k]}
<1>1. /\ Original(q) /\ \A j \in 1 .. Len(q) : Pre(q, j) \in pending
  BY PendingIs
<1>2. m \in Nat /\ Len(q) \in Nat /\ Len(o) \in Nat /\ m <= Len(q) /\ m <= Len(o)
      /\ q \in Trails /\ o \in Trails
  BY <1>1 DEF Original
<1>3. 0 \in T
  BY <1>2
<1>4. ASSUME NEW j \in T, j \in 0 .. m - 1 PROVE j + 1 \in T
  <2> DEFINE k == j + 1
  <2>1. k \in 1 .. m /\ k \in 1 .. Len(o) /\ k \in 1 .. Len(q) /\ k \in 0 .. m
    BY <1>2, <1>4
  <2>2. Now(o)[k] = q[k] /\ Now(o)[k] = IF Pre(o, k) \in pending THEN o[k] ELSE ReplaceNames(o[k])
    BY <2>1, NowIs
  <2>3. CASE k = 1
    <3>1. o[k] = q[k]
      BY <1>1, <2>3 DEF Original
    <3> QED BY <1>2, <1>4, <2>1, <2>3, <3>1
  <2>4. CASE k # 1
    <3>1. o[k] \in Components /\ q[k] \in Components
      BY <1>1, <2>1, <2>4 DEF Original
    <3>2. ReplaceNames(o[k]) = q[k] => ReplaceNames(o[k]) = o[k]
      BY <3>1, ComponentsApart DEF Renaming
    <3>3. o[k] = q[k]
      BY <2>2, <3>2
    <3>4. \A i \in 1 .. k : i \in 1 .. j \/ i = k
      BY <1>2, <1>4
    <3>5. \A i \in 1 .. j : o[i] = q[i]
      BY <1>4
    <3> HIDE DEF k
    <3>6. \A i \in 1 .. k : o[i] = q[i]
      BY <3>3, <3>4, <3>5
    <3> QED BY <2>1, <3>6 DEF k
  <2> QED BY <2>3, <2>4
<1>5. 0 .. m \subseteq T
  <2> HIDE DEF T
  <2> QED BY <1>2, <1>3, <1>4, IntervalInduction
<1>6. m \in T
  BY <1>2, <1>5
<1> QED BY <1>6

(* Where a pending path is renamed to.                                     *)
Target(p) == Append(Front(p), ReplaceNames(Last(p)))

(* Only the last component changes.                                        *)
LEMMA TargetIs ==
  ASSUME Renaming, NEW p \in pending
  PROVE  /\ Target(p) \in Trails /\ Len(Target(p)) = Len(p)
         /\ \A k \in 1 .. Len(p) : Target(p)[k] = IF k = Len(p) THEN ReplaceNames(p[k]) ELSE p[k]
<1> DEFINE n == Len(p)
           s == Front(p)
           e == ReplaceNames(p[n])
<1>1. p \in Trails /\ n \in Nat /\ n >= 1
  BY PendingIs DEF Original
<1>2. n - 1 \in 0 .. Len(p) /\ n \in 1 .. Len(p)
  BY <1>1
<1>3. s = Pre(p, n - 1)
  BY DEF Front, Pre
<1> HIDE DEF n, s
<1>4. s \in Trails /\ Len(s) = n - 1 /\ \A i \in 1 .. n - 1 : s[i] = p[i]
  BY <1>1, <1>2, <1>3, PreIs
<1>5. p[n] \in Texts
  BY <1>1, <1>2, TrailIs
<1>6. e \in Texts
  BY <1>5, NamesReplace DEF Renaming
<1>7. Target(p) = Append(s, e)
  BY DEF Target, Last, s, n
<1> HIDE DEF e
<1>8. /\ Append(s, e) \in Trails /\ Len(Append(s, e)) = Len(s) + 1
      /\ \A i \in 1 .. Len(s) : Append(s, e)[i] = s[i]
      /\ Append(s, e)[Len(s) + 1] = e
  BY <1>4, <1>6, AppendProperties DEF Trails
<1>9. Len(s) + 1 = n /\ \A i \in 1 .. n : i # n => i \in 1 .. n - 1
  BY <1>1, <1>4
<1>10. \A k \in 1 .. n : Append(s, e)[k] = IF k = n THEN e ELSE p[k]
  BY <1>4, <1>8, <1>9
<1> QED BY <1>7, <1>8, <1>9, <1>10 DEF e, n

(* What is below a pending path is now below where that is.                *)
LEMMA UnderPending ==
  ASSUME Renaming, NEW p \in pending, NEW f \in DOMAIN files
  PROVE  f \in Under(p) <=> /\ Len(p) <= Len(Path(f))
                            /\ Pre(Path(f), Len(p)) = p
<1> DEFINE o == Path(f)
           n == Len(p)
<1>1. f \in DOMAIN Gathered /\ files[f].path = Now(o)
  BY DEF Renaming, PathsFit
<1>2. Original(o)
  BY <1>1, PathsAreOriginal
<1>3. Original(p) /\ \A j \in 1 .. n : Pre(p, j) \in pending
  BY PendingIs
<1> HIDE DEF o, n
<1>4. o \in Trails /\ p \in Trails /\ Len(o) \in Nat /\ n \in Nat /\ n = Len(p)
  BY <1>2, <1>3 DEF Original, n
<1>5. /\ Now(o) \in Trails /\ Len(Now(o)) = Len(o)
      /\ \A k \in 1 .. Len(o) :
           Now(o)[k] = IF Pre(o, k) \in pending THEN o[k] ELSE ReplaceNames(o[k])
  BY <1>2, NowIs
<1>6. f \in Under(p) <=> n <= Len(o) /\ \A i \in 1 .. n : Now(o)[i] = p[i]
  <2>1. f \in Under(p) <=> IsPrefix(p, Now(o))
    BY <1>1 DEF Under
  <2>2. IsPrefix(p, Now(o)) <=> Len(p) <= Len(Now(o)) /\ \A i \in 1 .. Len(p) : Now(o)[i] = p[i]
    BY <1>4, <1>5, PrefixIs
  <2> QED BY <1>4, <1>5, <2>1, <2>2
<1>7. n <= Len(o) => (Pre(o, n) = p <=> \A i \in 1 .. n : o[i] = p[i])
  <2> HAVE n <= Len(o)
  <2>1. n \in 0 .. Len(o) /\ n \in 0 .. Len(p)
    BY <1>4
  <2>2. (Pre(o, n) = Pre(p, n) <=> \A i \in 1 .. n : o[i] = p[i]) /\ Pre(p, Len(p)) = p
    BY <1>4, <2>1, SamePre
  <2> QED BY <1>4, <2>2
<1>8. ASSUME n <= Len(o), \A i \in 1 .. n : Now(o)[i] = p[i] PROVE \A i \in 1 .. n : o[i] = p[i]
  <2>1. n \in 0 .. Len(p)
    BY <1>4
  <2> QED BY <1>2, <1>8, <2>1, FollowsPending
<1>9. ASSUME n <= Len(o), \A i \in 1 .. n : o[i] = p[i] PROVE \A i \in 1 .. n : Now(o)[i] = p[i]
  <2> TAKE i \in 1 .. n
  <2>1. i \in 0 .. Len(o) /\ i \in 0 .. Len(p) /\ i \in 1 .. Len(o) /\ \A j \in 1 .. i : j \in 1 .. n
    BY <1>4, <1>9
  <2>2. Pre(o, i) = Pre(p, i)
    BY <1>4, <1>9, <2>1, SamePre
  <2> QED BY <1>3, <1>5, <1>9, <2>1, <2>2
<1>10. f \in Under(p) <=> n <= Len(o) /\ Pre(o, n) = p
  BY <1>6, <1>7, <1>8, <1>9
<1> QED BY <1>10 DEF o, n

(* Nothing is where a path is renamed to.                                  *)
LEMMA NothingAtTarget ==
  ASSUME Renaming, NEW p \in pending, ReplaceNames(Last(p)) # Last(p)
  PROVE  Under(Target(p)) = {}
<1> SUFFICES ASSUME NEW f \in Under(Target(p)) PROVE FALSE
  OBVIOUS
<1> DEFINE o == Path(f)
           n == Len(p)
           R(t) == ReplaceNames(t)
<1>1. f \in DOMAIN files /\ f \in DOMAIN Gathered /\ files[f].path = Now(o) /\ IsPrefix(Target(p), Now(o))
  BY DEF Renaming, PathsFit, Under
<1>2. Original(o)
  BY <1>1, PathsAreOriginal
<1>3. Original(p) /\ \A j \in 1 .. n : Pre(p, j) \in pending
  BY PendingIs
<1>4. R(p[n]) # p[n]
  BY DEF Last
<1>5. /\ Target(p) \in Trails /\ Len(Target(p)) = n
      /\ \A k \in 1 .. n : Target(p)[k] = IF k = n THEN R(p[k]) ELSE p[k]
  BY TargetIs
<1> HIDE DEF o, n
<1>6. o \in Trails /\ p \in Trails /\ Len(o) \in Nat /\ n \in Nat /\ n = Len(p) /\ n >= 1
  BY <1>2, <1>3 DEF Original, n
<1>7. /\ Now(o) \in Trails /\ Len(Now(o)) = Len(o)
      /\ \A k \in 1 .. Len(o) : Now(o)[k] = IF Pre(o, k) \in pending THEN o[k] ELSE R(o[k])
  BY <1>2, NowIs
<1>8. n <= Len(o) /\ \A i \in 1 .. n : Now(o)[i] = Target(p)[i]
  BY <1>1, <1>5, <1>6, <1>7, PrefixIs
<1> HIDE DEF R
<1>9. n - 1 \in 0 .. Len(p) /\ n - 1 <= Len(o) /\ n \in 1 .. n /\ n \in 1 .. Len(o)
      /\ n \in 0 .. Len(o) /\ n \in 0 .. Len(p)
      /\ (\A i \in 1 .. n - 1 : i \in 1 .. n /\ i # n) /\ (\A i \in 1 .. n : i # n => i \in 1 .. n - 1)
  BY <1>6, <1>8
<1>10. \A i \in 1 .. n - 1 : Now(o)[i] = p[i]
  BY <1>5, <1>8, <1>9
<1>11. \A i \in 1 .. n - 1 : o[i] = p[i]
  BY <1>2, <1>9, <1>10, FollowsPending
<1>12. Now(o)[n] = R(p[n])
  BY <1>5, <1>8, <1>9
<1>13. o[n] # p[n] \/ Pre(o, n) \in pending
  <2>1. o[n] = p[n] => \A i \in 1 .. n : o[i] = p[i]
    BY <1>9, <1>11
  <2>2. (\A i \in 1 .. n : o[i] = p[i]) => Pre(o, n) = Pre(p, n)
    BY <1>6, <1>9, SamePre, ZenonT(60)
  <2>3. Pre(p, n) \in pending
    BY <1>3, <1>9
  <2> QED BY <2>1, <2>2, <2>3
<1>14. CASE n = 1
  <2>1. o[n] = p[n]
    BY <1>2, <1>3, <1>14 DEF Original
  <2>2. Now(o)[n] = o[n]
    BY <1>7, <1>9, <1>13, <2>1
  <2> QED BY <1>4, <1>12, <2>1, <2>2
<1>15. CASE n # 1
  <2>1. o[n] \in Components /\ p[n] \in Components
    BY <1>2, <1>3, <1>6, <1>9, <1>15 DEF Original
  <2>2. /\ R(p[n]) = o[n] => R(p[n]) = p[n]
        /\ R(o[n]) = R(p[n]) => o[n] = p[n]
    BY <2>1, ComponentsApart DEF Renaming, R
  <2>3. Now(o)[n] = IF Pre(o, n) \in pending THEN o[n] ELSE R(o[n])
    BY <1>7, <1>9
  <2> QED BY <1>4, <1>12, <1>13, <2>2, <2>3
<1> QED BY <1>14, <1>15

(* One rename, of all that is below the path.                              *)
LEMMA RenameIs ==
  ASSUME Renaming, NEW p \in pending, Rename(p, Target(p))
  PROVE  /\ DOMAIN files' = DOMAIN files
         /\ \A f \in DOMAIN files :
              files'[f].path = [k \in 1 .. Len(Path(f)) |->
                IF Pre(Path(f), k) \in pending \ {p} THEN Path(f)[k] ELSE ReplaceNames(Path(f)[k])]
<1> DEFINE n == Len(p)
           R(t) == ReplaceNames(t)
           Then(o) == [k \in 1 .. Len(o) |-> IF Pre(o, k) \in pending \ {p} THEN o[k] ELSE R(o[k])]
           Moved(o) == n <= Len(o) /\ Pre(o, n) = p
<1>1. Original(p) /\ \A j \in 1 .. n : Pre(p, j) \in pending
  BY PendingIs
<1>2. p \in Trails /\ n \in Nat /\ n >= 1 /\ n = Len(p)
  BY <1>1 DEF Original
<1>3. /\ Target(p) \in Trails /\ Len(Target(p)) = n
      /\ \A k \in 1 .. n : Target(p)[k] = IF k = n THEN R(p[k]) ELSE p[k]
  BY TargetIs
<1>4. \A f \in DOMAIN files : f \in DOMAIN Gathered /\ Original(Path(f)) /\ files[f].path = Now(Path(f))
  BY PathsAreOriginal DEF Renaming, PathsFit
<1>5. \A f \in DOMAIN files : f \in Under(p) <=> Moved(Path(f))
  BY UnderPending
<1> HIDE DEF n
<1>6. ASSUME NEW o, Original(o)
      PROVE  /\ Now(o) \in Trails /\ Len(Now(o)) = Len(o) /\ Len(o) \in Nat
             /\ ~Moved(o) => Then(o) = Now(o)
             /\ Moved(o) => /\ \A k \in 1 .. Len(o) : Then(o)[k] = IF k <= n THEN Target(p)[k] ELSE Now(o)[k]
                            /\ o[n] = p[n] /\ Now(o)[n] = p[n] /\ n \in 1 .. Len(o)
  <2>1. o \in Trails /\ Len(o) \in Nat
    BY <1>6 DEF Original
  <2>2. /\ Now(o) \in Trails /\ Len(Now(o)) = Len(o)
        /\ \A k \in 1 .. Len(o) : Now(o)[k] = IF Pre(o, k) \in pending THEN o[k] ELSE R(o[k])
    BY <1>6, NowIs
  <2>3. ASSUME NEW k \in 1 .. Len(o), Pre(o, k) = p PROVE k = n
    <3>1. k \in 0 .. Len(o)
      BY <2>1
    <3> QED BY <1>2, <2>1, <2>3, <3>1, PreIs
  <2>4. ASSUME ~Moved(o) PROVE Then(o) = Now(o)
    <3>1. \A k \in 1 .. Len(o) : Pre(o, k) # p
      BY <2>1, <2>3, <2>4
    <3>2. \A k \in 1 .. Len(o) : Pre(o, k) \in pending \ {p} <=> Pre(o, k) \in pending
      BY <3>1
    <3> QED BY <3>2 DEF Now
  <2>5. ASSUME Moved(o)
        PROVE  /\ \A k \in 1 .. Len(o) : Then(o)[k] = IF k <= n THEN Target(p)[k] ELSE Now(o)[k]
               /\ o[n] = p[n] /\ Now(o)[n] = p[n] /\ n \in 1 .. Len(o)
    <3>1. n \in 1 .. Len(o) /\ n \in 0 .. Len(o) /\ n \in 0 .. Len(p) /\ n \in 1 .. n
      BY <1>2, <2>1, <2>5
    <3>2. Pre(p, n) = p
      BY <1>2, <2>1, <3>1, SamePre
    <3>3. \A i \in 1 .. n : o[i] = p[i]
      BY <1>2, <2>1, <2>5, <3>1, <3>2, SamePre
    <3>4. Now(o)[n] = p[n]
      BY <2>2, <2>5, <3>1, <3>3
    <3>5. ASSUME NEW k \in 1 .. Len(o) PROVE Then(o)[k] = IF k <= n THEN Target(p)[k] ELSE Now(o)[k]
      <4>1. Then(o)[k] = IF Pre(o, k) \in pending \ {p} THEN o[k] ELSE R(o[k])
        OBVIOUS
      <4> HIDE DEF Then, R
      <4>2. CASE k = n
        <5>1. Then(o)[k] = R(p[n])
          BY <2>5, <3>1, <3>3, <4>1, <4>2
        <5>2. Target(p)[k] = R(p[n])
          BY <1>3, <3>1, <4>2
        <5> QED BY <1>2, <4>2, <5>1, <5>2
      <4>3. CASE k # n
        <5>1. Pre(o, k) # p
          BY <2>3, <4>3
        <5>2. Then(o)[k] = Now(o)[k]
          BY <2>2, <4>1, <5>1
        <5>3. ASSUME k <= n PROVE Now(o)[k] = Target(p)[k]
          <6>1. k \in 1 .. n /\ k \in 0 .. Len(o) /\ k \in 0 .. Len(p) /\ \A i \in 1 .. k : i \in 1 .. n
            BY <1>2, <2>1, <5>3
          <6>2. Pre(o, k) = Pre(p, k)
            BY <1>2, <2>1, <3>3, <6>1, SamePre
          <6>3. Now(o)[k] = o[k]
            BY <1>1, <2>2, <6>1, <6>2
          <6> QED BY <1>3, <3>3, <4>3, <6>1, <6>3
        <5> QED BY <5>2, <5>3
      <4> QED BY <4>2, <4>3
    <3> QED BY <3>1, <3>3, <3>4, <3>5
  <2> QED BY <2>1, <2>2, <2>4, <2>5
<1>7. CASE R(p[n]) = p[n]
  <2>1. Target(p) = p
    <3>1. \A k \in 1 .. n : Target(p)[k] = p[k]
      BY <1>3, <1>7
    <3> QED BY <1>2, <1>3, <3>1, SameTrails
  <2>2. files' = files
    BY <2>1 DEF Rename
  <2>3. ASSUME NEW f \in DOMAIN files PROVE files[f].path = Then(Path(f))
    <3> DEFINE o == Path(f)
    <3>1. Original(o) /\ files[f].path = Now(o)
      BY <1>4, <2>3
    <3> HIDE DEF o
    <3>2. CASE ~Moved(o)
      BY <1>6, <3>1, <3>2 DEF o
    <3>3. CASE Moved(o)
      <4>1. /\ Now(o) \in Trails /\ Len(Now(o)) = Len(o) /\ Len(o) \in Nat /\ o[n] = p[n] /\ n \in 1 .. Len(o)
            /\ \A k \in 1 .. Len(o) : Now(o)[k] = IF Pre(o, k) \in pending THEN o[k] ELSE R(o[k])
        BY <1>6, <3>1, <3>3, NowIs
      <4>2. ASSUME NEW k \in 1 .. Len(o) PROVE Now(o)[k] = IF Pre(o, k) \in pending \ {p} THEN o[k] ELSE R(o[k])
        <5>1. CASE Pre(o, k) = p
          <6>1. k = n
            <7>1. o \in Trails /\ k \in 0 .. Len(o)
              BY <3>1, <4>1 DEF Original
            <7> QED BY <1>2, <5>1, <7>1, PreIs
          <6>2. Now(o)[k] = o[k]
            BY <4>1, <5>1
          <6> QED BY <1>7, <4>1, <5>1, <6>1, <6>2
        <5>2. CASE Pre(o, k) # p
          BY <4>1, <5>2
        <5> QED BY <5>1, <5>2
      <4>3. Now(o) = [k \in 1 .. Len(o) |-> Now(o)[k]]
        BY DEF Now
      <4>4. Now(o) = Then(o)
        BY <4>2, <4>3
      <4> QED BY <3>1, <4>4 DEF o
    <3> QED BY <3>2, <3>3
  <2> QED BY <2>2, <2>3
<1>8. CASE R(p[n]) # p[n]
  <2>1. Under(Target(p)) = {}
    <3>1. ReplaceNames(Last(p)) # Last(p)
      BY <1>2, <1>8 DEF Last
    <3> QED BY <3>1, NothingAtTarget
  <2>2. Under(p) # {}
    <3>1. PICK f \in DOMAIN Gathered : n <= Len(Path(f)) /\ \A i \in 1 .. n : Path(f)[i] = p[i]
      BY PendingIs DEF n
    <3> DEFINE o == Path(f)
    <3>2. f \in DOMAIN files /\ Original(o)
      BY <1>4, <3>1 DEF Renaming, PathsFit
    <3> HIDE DEF o
    <3>3. o \in Trails /\ Len(o) \in Nat
      BY <3>2 DEF Original
    <3>4. n \in 0 .. Len(o) /\ n \in 0 .. Len(p)
      BY <1>2, <3>1, <3>3 DEF o
    <3>5. Pre(o, n) = Pre(p, n) /\ Pre(p, Len(p)) = p
      BY <1>2, <3>1, <3>3, <3>4, SamePre DEF o
    <3>6. Moved(o)
      BY <1>2, <3>4, <3>5, <3>3
    <3> QED BY <1>5, <3>2, <3>6 DEF o
  <2>3. Target(p) # p
    <3>1. n \in 1 .. n
      BY <1>2
    <3> QED BY <1>3, <1>8, <3>1
  <2>4. files' = [f \in DOMAIN files |->
            IF f \in Under(p)
            THEN [files[f] EXCEPT !.path = Target(p) \o SubSeq(@, Len(p) + 1, Len(@))]
            ELSE files[f]]
    <3>1. {f \in Under(Target(p)) : files[f].path = Target(p)} = {} /\ DOMAIN files \ {} = DOMAIN files
      BY <2>1
    <3> QED BY <2>1, <2>2, <2>3, <3>1 DEF Rename
  <2>5. ASSUME NEW f \in DOMAIN files PROVE files'[f].path = Then(Path(f))
    <3> DEFINE o == Path(f)
    <3>1. Original(o) /\ files[f].path = Now(o) /\ IsFile(files[f])
      BY <1>4, <2>5 DEF Renaming, FilesAreGathered
    <3> HIDE DEF o
    <3>2. CASE ~Moved(o)
      <4>1. files'[f] = files[f]
        BY <1>5, <2>4, <3>2 DEF o
      <4> QED BY <1>6, <3>1, <3>2, <4>1 DEF o
    <3>3. CASE Moved(o)
      <4>1. files'[f].path = Target(p) \o SubSeq(Now(o), n + 1, Len(Now(o)))
        <5>1. f \in Under(p)
          BY <1>5, <3>3 DEF o
        <5> DEFINE x == Target(p) \o SubSeq(files[f].path, Len(p) + 1, Len(files[f].path))
        <5>2. files'[f] = [files[f] EXCEPT !.path = x]
          BY <2>4, <2>5, <5>1
        <5> HIDE DEF x
        <5>3. files'[f].path = x
          BY <3>1, <5>2 DEF IsFile
        <5> QED BY <1>2, <3>1, <5>3 DEF x
      <4>2. /\ Now(o) \in Trails /\ Len(Now(o)) = Len(o) /\ Len(o) \in Nat /\ n \in 1 .. Len(o)
            /\ \A k \in 1 .. Len(o) : Then(o)[k] = IF k <= n THEN Target(p)[k] ELSE Now(o)[k]
        BY <1>6, <3>1, <3>3
      <4>3. Len(Target(p)) <= Len(Now(o))
        BY <1>2, <1>3, <4>2
      <4>4. Target(p) \o SubSeq(Now(o), Len(Target(p)) + 1, Len(Now(o))) =
              [k \in 1 .. Len(Now(o)) |-> IF k <= Len(Target(p)) THEN Target(p)[k] ELSE Now(o)[k]]
        BY <1>3, <4>2, <4>3, OtherBeginning
      <4>5. files'[f].path = [k \in 1 .. Len(o) |-> IF k <= n THEN Target(p)[k] ELSE Now(o)[k]]
        BY <1>3, <4>1, <4>2, <4>4
      <4>6. Then(o) = [k \in 1 .. Len(o) |-> Then(o)[k]]
        OBVIOUS
      <4> HIDE DEF Then
      <4>7. Then(o) = [k \in 1 .. Len(o) |-> IF k <= n THEN Target(p)[k] ELSE Now(o)[k]]
        BY <4>2, <4>6
      <4> QED BY <4>5, <4>7 DEF o
    <3> QED BY <3>2, <3>3
  <2>6. DOMAIN files' = DOMAIN files
    BY <2>4
  <2> QED BY <2>5, <2>6
<1> QED BY <1>7, <1>8

-----------------------------------------------------------------------------
(* The paths, in every state.                                              *)

(* What is true of paths between two steps.                                *)
RenameInv ==
  /\ root \in Texts /\ root # <<>>
  /\ PathsFit /\ PendingFit
  /\ pc # "rename" => pending = {}
  /\ pc \in {"patterns", "secrets"} \/ "complete" \in log => ReplaceNames(root) = root

(* The hypothesis for paths: only names matter for them.                   *)
PathsStandOut == \A list \in Clusters : NamesStandOut(list)

(* As long as nothing is pending and no name is replaced, a path is where  *)
(* it was gathered.                                                        *)
LEMMA NowIsAsGathered ==
  ASSUME nodes \in Clusters, NamesReady, NEW o, Original(o), mapping = <<>>
  PROVE  Now(o) = o
<1>1. o \in Trails /\ Len(o) \in Nat /\ DOMAIN o = 1 .. Len(o)
  BY DEF Original
<1>2. \A k \in 1 .. Len(o) : ReplaceNames(o[k]) = o[k]
  BY <1>1, TrailIs, NoNameNoChange
<1>3. Now(o) = [k \in 1 .. Len(o) |-> o[k]]
  BY <1>2 DEF Now
<1>4. o = [k \in 1 .. Len(o) |-> o[k]]
  <2>1. o \in [1 .. Len(o) -> Texts]
    BY <1>1, TrailIs DEF Trails
  <2> QED BY <2>1
<1> QED BY <1>3, <1>4

(* At first each file is where it was gathered.                            *)
LEMMA RenameInvInit ==
  ASSUME PathsStandOut, Init
  PROVE  RenameInv
<1>1. /\ nodes \in Clusters /\ pc = "start" /\ log = {}
      /\ mapping = <<>> /\ hostnames = <<>> /\ pending = {}
      /\ files = [f \in DOMAIN Gathered |-> Put(Gathered[f])]
      /\ root \in IF caller = "hub" THEN Roots ELSE {<<"job">>}
  BY DEF Init
<1>2. root \in Texts /\ root # <<>>
  <2>1. CASE root \in Roots
    BY <2>1, AnonymizerAssumption, StringsAreTokens
  <2>2. CASE root = <<"job">>
    BY <2>2, LiteralsAreTexts
  <2> QED BY <1>1, <2>1, <2>2
<1>3. NamesReady /\ NamesStandOut(nodes)
  BY <1>1 DEF NamesReady, PathsStandOut
<1>4. DOMAIN files = DOMAIN Gathered
  BY <1>1
<1>5. ASSUME NEW f \in DOMAIN files PROVE files[f].path = Now(Path(f))
  <2>1. f \in DOMAIN Gathered /\ files[f] = Put(Gathered[f])
    BY <1>1
  <2>2. IsFile(Gathered[f])
    BY <1>1, <2>1, GatheredAreFiles
  <2>3. ASSUME NEW g, IsFile(g) PROVE Put(g).path = [i \in DOMAIN g.path |-> Text(g.path[i])]
    <3> DEFINE path == [i \in DOMAIN g.path |-> Text(g.path[i])]
               text == Text(g.text)
    <3>1. Put(g) = [g EXCEPT !.path = path, !.text = text]
      BY DEF Put
    <3> HIDE DEF path, text
    <3>2. Put(g).path = path
      BY <2>3, <3>1 DEF IsFile
    <3> QED BY <3>2 DEF path
  <2>4. files[f].path = Path(f)
    BY <2>1, <2>2, <2>3 DEF Path
  <2>5. Original(Path(f))
    BY <1>1, <1>2, <1>3, <2>1, PathIs DEF Original
  <2>6. Now(Path(f)) = Path(f)
    BY <1>1, <1>3, <2>5, NowIsAsGathered
  <2> QED BY <2>4, <2>6
<1>6. PathsFit
  BY <1>4, <1>5 DEF PathsFit
<1>7. PendingFit
  BY <1>1 DEF PendingFit
<1> QED BY <1>1, <1>2, <1>6, <1>7 DEF RenameInv

(* Paths and names are those of the inputs and of the mapping.             *)
LEMMA SamePaths ==
  ASSUME UNCHANGED <<inputs, mapping, hostnames>>
  PROVE  /\ root' = root /\ Gathered' = Gathered
         /\ \A f : Path(f)' = Path(f)
         /\ \A t : ReplaceNames(t)' = ReplaceNames(t)
<1>1. root' = root /\ Gathered' = Gathered
  BY SameInputs DEF inputs
<1>2. \A f : Path(f)' = Path(f)
  BY <1>1 DEF Path, Text
<1>3. \A t : ReplaceNames(t)' = ReplaceNames(t)
  BY DEF ReplaceNames
<1> QED BY <1>1, <1>2, <1>3

(* A pass over texts leaves the paths alone.                               *)
LEMMA RewriteKeepsPaths ==
  ASSUME FilesAreGathered, NEW some, NEW text, Rewrite(some, text)
  PROVE  /\ DOMAIN files' = DOMAIN files
         /\ \A f \in DOMAIN files : files'[f].path = files[f].path
<1>1. DOMAIN files' = DOMAIN files
  BY DEF Rewrite
<1>2. ASSUME NEW f \in DOMAIN files
      PROVE  files'[f].path = files[f].path
  <2>1. IsFile(files[f])
    BY DEF FilesAreGathered
  <2>2. files'[f] = IF f \in some THEN [files[f] EXCEPT !.text = text[f]] ELSE files[f]
    BY DEF Rewrite
  <2> QED BY <2>1, <2>2 DEF IsFile
<1> QED BY <1>1, <1>2

(* When no path moves and none becomes pending, all stays as it is.        *)
LEMMA PathsStay ==
  ASSUME RenameInv, UNCHANGED <<inputs, mapping, hostnames, pending>>,
         DOMAIN files' = DOMAIN files, \A f \in DOMAIN files : files'[f].path = files[f].path
  PROVE  root' \in Texts /\ root' # <<>> /\ PathsFit' /\ PendingFit'
<1>1. /\ root' = root /\ Gathered' = Gathered
      /\ \A f : Path(f)' = Path(f)
      /\ \A t : ReplaceNames(t)' = ReplaceNames(t)
  BY SamePaths
<1>2. \A f : Now(Path(f))' = Now(Path(f))
  BY <1>1 DEF Now
<1>3. PathsFit'
  BY <1>1, <1>2 DEF RenameInv, PathsFit
<1>4. PendingFit'
  BY <1>1 DEF RenameInv, PendingFit
<1> QED BY <1>1, <1>3, <1>4 DEF RenameInv

(* Listing the nodes moves no file, and makes each gathered path, and all  *)
(* above it, pending.                                                      *)
LEMMA RenamingStarts ==
  ASSUME PathsStandOut, AnonymizerInv, MappingInv, RenameInv, MapNodes
  PROVE  PathsFit' /\ PendingFit'
<1>1. /\ pc = "map" /\ pending' = Paths /\ files' = files /\ UNCHANGED inputs
  BY DEF MapNodes, Goto
<1>2. /\ nodes \in Clusters /\ NamesReady /\ mapping = <<>> /\ hostnames = <<>> /\ pending = {}
      /\ FilesAreGathered /\ NamesStandOut(nodes)
      /\ root \in Texts /\ root # <<>> /\ PathsFit /\ PendingFit
  BY <1>1 DEF AnonymizerInv, MappingInv, RenameInv, PathsStandOut
<1>3. Renaming
  BY <1>2 DEF Renaming
<1>4. ASSUME NEW f \in DOMAIN files
      PROVE  /\ f \in DOMAIN Gathered /\ files[f].path = Path(f) /\ Original(Path(f))
  <2>1. f \in DOMAIN Gathered /\ files[f].path = Now(Path(f))
    BY <1>2 DEF PathsFit
  <2>2. Original(Path(f))
    BY <1>3, <2>1, PathsAreOriginal
  <2> QED BY <1>2, <2>1, <2>2, NowIsAsGathered
<1>5. ASSUME NEW f \in DOMAIN files, NEW k \in 1 .. Len(Path(f))
      PROVE  Pre(Path(f), k) \in Paths
  <2> DEFINE o == Path(f)
  <2>1. files[f].path = o /\ o \in Trails /\ Len(o) \in Nat
    BY <1>4 DEF Original
  <2> HIDE DEF o
  <2>2. k \in 0 .. Len(o) /\ k >= 1
    BY <1>5, <2>1 DEF o
  <2>3. Pre(o, k) # <<>>
    <3>1. Len(Pre(o, k)) = k
      BY <2>1, <2>2, PreIs
    <3> QED BY <2>2, <3>1
  <2>4. Pre(o, k) \in Prefixes(files[f].path) \ {<<>>}
    BY <2>1, <2>2, <2>3 DEF Prefixes, Pre
  <2> QED BY <1>5, <2>4 DEF Paths, o
<1>6. /\ Gathered' = Gathered /\ \A f : Path(f)' = Path(f)
  <2>1. Gathered' = Gathered
    BY <1>1, SameInputs
  <2> QED BY <2>1 DEF Path, Text
<1>7. PathsFit'
  <2>1. ASSUME NEW f \in DOMAIN files PROVE files[f].path = Now(Path(f))'
    <3> DEFINE o == Path(f)
    <3>1. Now(o)' = [k \in 1 .. Len(o') |->
                       IF Pre(o', k) \in pending' THEN o'[k] ELSE ReplaceNames(o[k])']
      BY DEF Now, Pre
    <3>2. Now(o)' = [k \in 1 .. Len(o) |->
                       IF Pre(o, k) \in Paths THEN o[k] ELSE ReplaceNames(o[k])']
      BY <1>1, <1>6, <3>1
    <3>3. \A k \in 1 .. Len(o) : Pre(o, k) \in Paths
      BY <1>5, <2>1
    <3>4. Now(o)' = [k \in 1 .. Len(o) |-> o[k]]
      BY <3>2, <3>3
    <3>5. o \in [1 .. Len(o) -> Texts] /\ files[f].path = o
      BY <1>4, <2>1, TrailIs DEF Original, Trails
    <3> HIDE DEF o
    <3>6. o = [k \in 1 .. Len(o) |-> o[k]]
      BY <3>5
    <3>7. Now(o)' = o
      BY <3>4, <3>6
    <3> QED BY <3>5, <3>7 DEF o
  <2>2. DOMAIN files' = DOMAIN Gathered'
    BY <1>1, <1>2, <1>6 DEF PathsFit
  <2> QED BY <1>1, <2>1, <2>2 DEF PathsFit
<1>8. PendingFit'
  <2>1. ASSUME NEW q \in Paths
        PROVE  /\ \E f \in DOMAIN Gathered : \E k \in 1 .. Len(Path(f)) : q = Pre(Path(f), k)
               /\ \A j \in 1 .. Len(q) : Pre(q, j) \in Paths
    <3>1. PICK f \in DOMAIN files : q \in Prefixes(files[f].path) \ {<<>>}
      BY <2>1 DEF Paths
    <3> DEFINE o == Path(f)
    <3>2. f \in DOMAIN Gathered /\ files[f].path = o /\ o \in Trails /\ Len(o) \in Nat
      BY <1>4 DEF Original
    <3>3. \A k \in 1 .. Len(o) : Pre(o, k) \in Paths
      BY <1>5
    <3> HIDE DEF o
    <3>4. PICK k \in 0 .. Len(o) : q = Pre(o, k)
      BY <3>1, <3>2 DEF Prefixes, Pre
    <3>5. Len(q) = k
      BY <3>2, <3>4, PreIs
    <3>6. k # 0
      <4>1. ASSUME k = 0 PROVE q = <<>>
        <5>1. q \in Trails
          BY <3>2, <3>4, PreIs
        <5> QED BY <3>5, <4>1, <5>1, TrailIs
      <4> QED BY <3>1, <4>1
    <3>7. k \in 1 .. Len(o) /\ k \in 0 .. Len(o)
      BY <3>2, <3>6
    <3>8. ASSUME NEW j \in 1 .. Len(q) PROVE Pre(q, j) \in Paths
      <4>1. j \in 0 .. k /\ j \in 1 .. Len(o)
        BY <3>2, <3>5, <3>7, <3>8
      <4>2. Pre(Pre(o, k), j) = Pre(o, j)
        BY <3>2, <3>7, <4>1, SamePre
      <4> QED BY <3>3, <3>4, <4>1, <4>2
    <3> QED BY <3>2, <3>4, <3>7, <3>8 DEF o
  <2> QED BY <1>1, <1>6, <2>1 DEF PendingFit, Pre
<1> QED BY <1>7, <1>8

(* One path is renamed, the longest.                                       *)
LEMMA RenamingGoesOn ==
  ASSUME PathsStandOut, AnonymizerInv, MappingInv, RenameInv, RenamePath
  PROVE  PathsFit' /\ PendingFit'
<1>1. UNCHANGED <<inputs, mapping, hostnames>>
  BY DEF RenamePath
<1>2. PICK p \in ToRename : Rename(p, Append(Front(p), ReplaceNames(Last(p)))) /\ pending' = pending \ {p}
  BY DEF RenamePath
<1>3. Renaming
  BY DEF Renaming, AnonymizerInv, MappingInv, RenameInv, PathsStandOut
<1>4. p \in pending /\ \A q \in pending : Len(FlattenSeq(q)) <= Len(FlattenSeq(p))
  BY DEF ToRename
<1>5. Rename(p, Target(p))
  BY <1>2 DEF Target
<1>6. /\ DOMAIN files' = DOMAIN files
      /\ \A f \in DOMAIN files :
           files'[f].path = [k \in 1 .. Len(Path(f)) |->
             IF Pre(Path(f), k) \in pending \ {p} THEN Path(f)[k] ELSE ReplaceNames(Path(f)[k])]
  BY <1>3, <1>4, <1>5, RenameIs
<1>7. /\ Gathered' = Gathered
      /\ \A f : Path(f)' = Path(f)
      /\ \A t : ReplaceNames(t)' = ReplaceNames(t)
  BY <1>1, SamePaths
<1>8. PathsFit'
  BY <1>2, <1>6, <1>7 DEF PathsFit, Now, RenameInv
<1>9. ASSUME NEW q \in pending, q # p, NEW j \in 1 .. Len(q) PROVE Pre(q, j) # p
  <2> SUFFICES ASSUME Pre(q, j) = p PROVE FALSE
    OBVIOUS
  <2>1. Original(q)
    BY <1>3, PendingIs
  <2>2. q \in Trails /\ Len(q) \in Nat /\ \A i \in 1 .. Len(q) : q[i] # <<>>
    BY <2>1 DEF Original
  <2>3. j \in 0 .. Len(q) /\ (j # Len(q) => j < Len(q)) /\ Len(q) \in 0 .. Len(q)
    BY <1>9, <2>2
  <2>4. j # Len(q)
    BY <1>9, <2>2, <2>3, SamePre
  <2>5. /\ Len(FlattenSeq(q)) \in Nat /\ Len(FlattenSeq(p)) \in Nat
        /\ Len(FlattenSeq(p)) < Len(FlattenSeq(q))
    BY <2>2, <2>3, <2>4, LongerIsWrittenLonger
  <2>6. Len(FlattenSeq(q)) <= Len(FlattenSeq(p))
    BY <1>4, <1>9
  <2> HIDE DEF ReplaceNames
  <2> QED BY <2>5, <2>6
<1>10. ASSUME NEW q \in pending'
       PROVE  /\ \E f \in DOMAIN Gathered : \E k \in 1 .. Len(Path(f)) : q = Pre(Path(f), k)
              /\ \A j \in 1 .. Len(q) : Pre(q, j) \in pending \ {p}
  <2>1. q \in pending /\ q # p
    BY <1>2
  <2>2. /\ \E f \in DOMAIN Gathered : \E k \in 1 .. Len(Path(f)) : q = Pre(Path(f), k)
        /\ \A j \in 1 .. Len(q) : Pre(q, j) \in pending
    BY <2>1 DEF RenameInv, PendingFit
  <2> QED BY <1>9, <2>1, <2>2
<1>11. PendingFit'
  BY <1>2, <1>7, <1>10 DEF PendingFit, Pre
<1> QED BY <1>8, <1>11

(* Every step keeps what is true of paths.                                 *)
LEMMA RenameInvStep ==
  ASSUME PathsStandOut, AnonymizerInv, MappingInv, RenameInv, [Next]_vars
  PROVE  RenameInv'
<1> USE DEF Goto, Warn, Fault, Report
<1>1. UNCHANGED inputs
  BY DEF Next, Start, ListForLog, Extract, MapNodes, MapNodesFails, RenamePath, MaskNames,
     MaskPatterns, Redact, CommandIsWrong, PassFails, NamesFail, PatternsFail, RedactFails, vars
<1>2. root' \in Texts /\ root' # <<>>
  BY <1>1 DEF inputs, RenameInv
<1>3. CASE MapNodes
  <2>1. pc = "map" /\ pc' = "rename" /\ log' = log
    BY <1>3 DEF MapNodes
  <2>2. "complete" \notin log'
    BY <2>1 DEF MappingInv
  <2>3. PathsFit' /\ PendingFit'
    BY <1>3, RenamingStarts
  <2> QED BY <1>2, <2>1, <2>2, <2>3 DEF RenameInv
<1>4. CASE RenamePath
  <2>1. /\ pc = "rename" /\ log' = log /\ (pc' = "rename" \/ (pc' = "names" /\ pending' = {}))
    BY <1>4 DEF RenamePath
  <2>2. "complete" \notin log'
    BY <2>1 DEF MappingInv
  <2>3. PathsFit' /\ PendingFit'
    BY <1>4, RenamingGoesOn
  <2> QED BY <1>2, <2>1, <2>2, <2>3 DEF RenameInv
<1>5. CASE ~MapNodes /\ ~RenamePath
  <2>1. UNCHANGED <<inputs, mapping, hostnames, pending>>
    BY <1>1, <1>5 DEF Next, Start, ListForLog, Extract, MapNodesFails, MaskNames,
       MaskPatterns, Redact, CommandIsWrong, PassFails, NamesFail, PatternsFail, RedactFails,
       vars, data
  <2>2. UNCHANGED files \/ \E some, text : Rewrite(some, text)
    BY <1>5 DEF Next, Start, ListForLog, Extract, MapNodesFails, MaskNames,
       MaskPatterns, Redact, CommandIsWrong, PassFails, NamesFail, PatternsFail, RedactFails,
       vars, data
  <2>3. DOMAIN files' = DOMAIN files /\ \A f \in DOMAIN files : files'[f].path = files[f].path
    BY <2>2, RewriteKeepsPaths DEF AnonymizerInv
  <2>4. PathsFit' /\ PendingFit'
    BY <2>1, <2>3, PathsStay
  <2>5. ReplaceNames(root)' = ReplaceNames(root)
    BY <2>1 DEF ReplaceNames, inputs
  <2>6. pc' # "rename" => pending' = {}
    BY <1>5, <2>1 DEF RenameInv, Next, Start, ListForLog, Extract, MapNodesFails, MaskNames,
       MaskPatterns, Redact, CommandIsWrong, PassFails, NamesFail, PatternsFail, RedactFails, vars
  <2>7. ASSUME pc' \in {"patterns", "secrets"} \/ "complete" \in log'
        PROVE  ReplaceNames(root) = root
    <3>1. nodes \in Clusters /\ NamesReady /\ root \in Texts /\ NamesStandOut(nodes)
      BY DEF AnonymizerInv, MappingInv, RenameInv, PathsStandOut
    <3>2. CASE MapNodesFails
      <4>1. mapping = <<>>
        BY <3>2 DEF MapNodesFails, MappingInv
      <4> QED BY <3>1, <4>1, NoNameNoChange
    <3>3. CASE MaskNames
      <4>1. pending = {} /\ Under(<<root>>) # {}
        BY <3>3 DEF MaskNames, CanFind, RenameInv
      <4>2. PICK f \in DOMAIN files : IsPrefix(<<root>>, files[f].path)
        BY <4>1 DEF Under
      <4> DEFINE o == Path(f)
      <4>3. Renaming
        BY DEF Renaming, AnonymizerInv, MappingInv, RenameInv, PathsStandOut
      <4>4. f \in DOMAIN Gathered /\ files[f].path = Now(o)
        BY DEF RenameInv, PathsFit
      <4>5. Original(o)
        BY <4>3, <4>4, PathsAreOriginal
      <4> HIDE DEF o
      <4>6. /\ Now(o) \in Trails /\ Len(Now(o)) = Len(o)
            /\ \A k \in 1 .. Len(o) :
                 Now(o)[k] = IF Pre(o, k) \in pending THEN o[k] ELSE ReplaceNames(o[k])
        BY <4>3, <4>5, NowIs
      <4>7. Len(o) \in Nat /\ Len(o) >= 1 /\ o[1] = root
        BY <4>5 DEF Original
      <4>8. <<root>> \in Trails /\ Len(<<root>>) = 1 /\ <<root>>[1] = root
        BY <3>1 DEF Trails
      <4>9. Now(o)[1] = root
        <5> DEFINE r == <<root>>
        <5>1. r \in Trails /\ Len(r) = 1 /\ r[1] = root /\ IsPrefix(r, Now(o))
          BY <4>2, <4>4, <4>8
        <5> HIDE DEF r
        <5>2. \A i \in 1 .. Len(r) : Now(o)[i] = r[i]
          BY <4>6, <5>1, PrefixIs
        <5> QED BY <5>1, <5>2
      <4>10. Now(o)[1] = ReplaceNames(o[1])
        BY <4>1, <4>6, <4>7
      <4> QED BY <4>7, <4>9, <4>10
    <3>4. CASE ~MapNodesFails /\ ~MaskNames
      <4>1. pc \in {"patterns", "secrets"} \/ "complete" \in log
        BY <1>5, <2>7, <3>4 DEF Next, Start, ListForLog, Extract,
           MaskPatterns, Redact, CommandIsWrong, PassFails, NamesFail, PatternsFail, RedactFails, vars
      <4> QED BY <4>1 DEF RenameInv
    <3> QED BY <3>2, <3>3, <3>4
  <2>8. root' = root
    BY <1>1 DEF inputs
  <2>9. (ReplaceNames(root) = root)' <=> ReplaceNames(root) = root
    BY <2>5, <2>8
  <2> QED BY <1>2, <2>4, <2>6, <2>7, <2>9 DEF RenameInv
<1> QED BY <1>3, <1>4, <1>5

(* When all is renamed, each file is where it is promised to be.           *)
LEMMA PathsArePromised ==
  ASSUME PathsStandOut, AnonymizerInv, MappingInv, RenameInv
  PROVE  CompleteIsRenamed
<1> SUFFICES ASSUME "complete" \in log PROVE CompleteIsRenamed
  BY DEF CompleteIsRenamed
<1>1. pc = "end" /\ pending = {} /\ ReplaceNames(root) = root
  BY DEF MappingInv, RenameInv
<1>2. Renaming
  BY DEF Renaming, AnonymizerInv, MappingInv, RenameInv, PathsStandOut
<1>3. ASSUME NEW f \in DOMAIN files PROVE files[f].path = RenamedPath(Gathered[f].path, mapping)
  <2> DEFINE o == Path(f)
  <2>1. f \in DOMAIN Gathered /\ files[f].path = Now(o)
    BY DEF RenameInv, PathsFit
  <2>2. Now(o) = [k \in 1 .. Len(o) |-> ReplaceNames(o[k])]
    BY <1>1 DEF Now
  <2>3. /\ o[1] = root
        /\ RenamedPath(Gathered[f].path, mapping) =
             [k \in 1 .. Len(o) |-> IF k = 1 THEN root ELSE ReplaceNames(o[k])]
    BY <1>2, <2>1, PathIs DEF Renaming
  <2> HIDE DEF o
  <2>4. [k \in 1 .. Len(o) |-> ReplaceNames(o[k])] =
          [k \in 1 .. Len(o) |-> IF k = 1 THEN root ELSE ReplaceNames(o[k])]
    BY <1>1, <2>3
  <2> QED BY <2>1, <2>2, <2>3, <2>4
<1> QED BY <1>3 DEF CompleteIsRenamed, RenameInv, PathsFit

(* When the log says that the anonymization is complete no file is lost,   *)
(* and each is where its renamed directories and its renamed name put it:  *)
(* for any nodes whose names stand out, and whichever of two paths of one  *)
(* length is renamed first.                                                *)
THEOREM CompletePathsAreRenamed ==
  ASSUME PathsStandOut
  PROVE  Spec => []CompleteIsRenamed
<1>1. Init => MappingInv /\ RenameInv
  BY TextsInvInit, RenameInvInit
<1>2. AnonymizerInv /\ MappingInv /\ [Next]_vars => MappingInv'
  BY MappingInvStep
<1>3. AnonymizerInv /\ MappingInv /\ RenameInv /\ [Next]_vars => RenameInv'
  BY RenameInvStep
<1>4. AnonymizerInv /\ MappingInv /\ RenameInv => CompleteIsRenamed
  BY PathsArePromised
<1> QED BY AnonymizerInvInit, AnonymizerInvStep, <1>1, <1>2, <1>3, <1>4, PTL DEF Spec

-----------------------------------------------------------------------------
(* Two nodes' data.                                                        *)

(* Nodes are listed by name, each once.                                    *)
NodesAreNamed ==
  \A list \in Clusters : \A i, j \in DOMAIN list : list[i].name = list[j].name => i = j

(* Four blocks.                                                            *)
LEMMA FlattenFour ==
  ASSUME NEW a \in Texts, NEW b \in Texts, NEW c \in Texts, NEW d \in Texts
  PROVE  FlattenSeq(<<a, b, c, d>>) = Cat(Cat(Cat(a, b), c), d)
<1> DEFINE s == <<a, b, c, d>>
<1>1. Len(s) = 4 /\ DOMAIN s = 1 .. 4 /\ s[1] = a /\ s[2] = b /\ s[3] = c /\ s[4] = d
  OBVIOUS
<1> HIDE DEF s
<1>2. Blocks(s)
  <2>1. \A i \in 1 .. Len(s) : i = 1 \/ i = 2 \/ i = 3 \/ i = 4
    BY <1>1
  <2> QED BY <1>1, <2>1 DEF Blocks
<1>3. PICK f : Flattens(f, s, Len(s)) /\ FlattenSeq(s) = f[Len(s)]
  BY <1>2, FlattenIs
<1>4. \A i \in 1 .. 4 : f[i] = Cat(f[i - 1], s[i])
  BY <1>1, <1>3, Zenon DEF Flattens
<1>5. f[0] = <<>>
  BY <1>3 DEF Flattens
<1>6. f[1] = Cat(f[0], a) /\ f[2] = Cat(f[1], b) /\ f[3] = Cat(f[2], c) /\ f[4] = Cat(f[3], d)
  BY <1>1, <1>4
<1>7. f[1] = a
  BY <1>5, <1>6, TextIs
<1> QED BY <1>1, <1>3, <1>6, <1>7 DEF s

(* A node's log comes first, at the node's place.                          *)
LEMMA LogsComeFirst ==
  ASSUME nodes \in Clusters, NEW i \in DOMAIN nodes
  PROVE  i \in DOMAIN Gathered /\ Gathered[i] = LogOf(nodes[i])
<1> DEFINE logs == [k \in DOMAIN nodes |-> LogOf(nodes[k])]
           manifests == [k \in DOMAIN nodes |-> ManifestOf(nodes[k])]
           others == << File(<< <<Other("manifest")>> >>, "yaml", Everything(nodes)),
                        File(<< <<Other("timestamp")>> >>, "", Everything(nodes)) >>
           n == Len(nodes)
<1>1. Gathered = (logs \o manifests) \o others
  BY Zenon DEF Gathered, LogOf, ManifestOf
<1>2. DOMAIN nodes = 1 .. n /\ n \in Nat
  BY ListsAreSequences
<1>3. /\ DOMAIN logs = 1 .. n /\ Len(logs) = n /\ logs[i] = LogOf(nodes[i])
      /\ Len(manifests) = n
  BY <1>2
<1>4. Len(others) = 2
  OBVIOUS
<1> HIDE DEF logs, manifests, others, n
<1>5. i \in 1 .. n /\ i \in 1 .. n + n /\ i \in 1 .. (n + n) + 2
  BY <1>2
<1>6. Len(logs \o manifests) = n + n /\ (logs \o manifests)[i] = logs[i]
  BY <1>2, <1>3, <1>5
<1> DEFINE both == logs \o manifests
<1> HIDE DEF both
<1>7. /\ Len(both) = n + n /\ both[i] = logs[i]
  BY <1>6 DEF both
<1>8. i \in DOMAIN (both \o others) /\ (both \o others)[i] = both[i]
  BY <1>2, <1>4, <1>5, <1>7
<1> QED BY <1>1, <1>3, <1>7, <1>8 DEF both

(* What a log is.                                                          *)
LEMMA LogHas ==
  ASSUME NEW node
  PROVE  /\ LogOf(node).ext = "log"
         /\ LogOf(node).text = Spaced(<<Atom("ips", <<"10.0.0.1">>), NameOf(node)>>)
<1>1. ASSUME NEW p, NEW e, NEW t PROVE File(p, e, t).ext = e /\ File(p, e, t).text = t
  BY DEF File
<1> DEFINE p == << <<NameOf(node)>>, <<Other("etcd-"), NameOf(node)>> >>
           t == Spaced(<<Atom("ips", <<"10.0.0.1">>), NameOf(node)>>)
<1>2. LogOf(node) = File(p, "log", t)
  BY Zenon DEF LogOf
<1> HIDE DEF p, t
<1>3. LogOf(node).ext = "log" /\ LogOf(node).text = t
  BY <1>1, <1>2
<1> QED BY <1>3 DEF t

(* What is promised of a node's log, when the nodes have been listed.      *)
LEMMA LogIsMasked ==
  ASSUME Ready, mapping # <<>>, NEW i \in DOMAIN nodes
  PROVE  \E t \in Texts :
           /\ \A j \in DOMAIN nodes :
                /\ mapping[nodes[j].name] \in Texts
                /\ Masked(Gathered[j].text, "log", mapping, domain) = Cat(t, mapping[nodes[j].name])
<1> DEFINE ip == Atom("ips", <<"10.0.0.1">>)
           b == One(Blank)
           S(a) == Stand(a, "log", mapping, domain)
           t == Cat(Cat(b, S(ip)), b)
<1>1. nodes \in Clusters
  BY DEF Ready
<1>2. b \in Texts /\ S(Other(" ")) = b
  <2>1. Blank \in Tokens
    BY Zenon DEF Tokens, Blank
  <2> QED BY <2>1, OneIs, BlankStays, ZenonT(60)
<1>3. S(ip) \in Texts
  <2>1. ip \in DataAtoms
    BY DEF DataAtoms
  <2>2. ip.text \in Texts /\ S(ip) = Whole("log")[ip.text]
    BY <2>1, AtomIsMasked
  <2>3. Whole("log") \in [Texts -> Texts]
    BY WholeIsPass DEF IsPass
  <2> QED BY <2>2, <2>3
<1>4. t \in Texts
  BY <1>2, <1>3, CatIs
<1>5. ASSUME NEW j \in DOMAIN nodes
      PROVE  /\ mapping[nodes[j].name] \in Texts
             /\ Masked(Gathered[j].text, "log", mapping, domain) = Cat(t, mapping[nodes[j].name])
  <2> DEFINE a == NameOf(nodes[j])
             m == mapping[nodes[j].name]
             atoms == <<ip, a>>
  <2>1. nodes[j].name \in NodeNames(nodes)
    BY DEF NodeNames
  <2>2. m \in Texts /\ nodes[j].name \in DOMAIN mapping
    <3>1. mapping = BuildNodeMapping(nodes)
      BY DEF Ready, NamesReady
    <3> QED BY <1>1, <2>1, <3>1, NamesAreTexts
  <2>3. S(a) = m
    <3>1. a.kind = "node" /\ a.text = nodes[j].name
      BY DEF NameOf, Atom
    <3> QED BY <2>2, <3>1 DEF Stand
  <2>4. Gathered[j].text = Spaced(atoms)
    BY <1>1, LogsComeFirst, LogHas, Zenon
  <2>5. Len(atoms) = 2 /\ atoms[1] = ip /\ atoms[2] = a
    OBVIOUS
  <2> DEFINE sp == Spaced(atoms)
             s == [k \in DOMAIN sp |-> S(sp[k])]
  <2>6. Masked(sp, "log", mapping, domain) = FlattenSeq(s)
    BY Zenon DEF Masked
  <2> HIDE DEF S, ip, a, b, m, atoms
  <2>7. DOMAIN sp = 1 .. 4 /\ sp[1] = Other(" ") /\ sp[2] = ip /\ sp[3] = Other(" ") /\ sp[4] = a
    <3>1. DOMAIN sp = 1 .. 4
      BY <2>5 DEF Spaced
    <3>2. 1 % 2 = 1 /\ 3 % 2 = 1 /\ 2 % 2 # 1 /\ 4 % 2 # 1 /\ 2 \div 2 = 1 /\ 4 \div 2 = 2
      OBVIOUS
    <3>3. sp = [k \in 1 .. 4 |-> IF k % 2 = 1 THEN Other(" ") ELSE atoms[k \div 2]]
      BY <2>5 DEF Spaced
    <3> HIDE DEF sp
    <3>4. 1 \in 1 .. 4 /\ 2 \in 1 .. 4 /\ 3 \in 1 .. 4 /\ 4 \in 1 .. 4
      OBVIOUS
    <3> QED BY <2>5, <3>1, <3>2, <3>3, <3>4
  <2> HIDE DEF sp
  <2>8. s = <<b, S(ip), b, m>>
    <3>1. DOMAIN s = 1 .. 4 /\ s = [k \in 1 .. 4 |-> S(sp[k])]
      BY <2>7
    <3>2. S(sp[1]) = b /\ S(sp[2]) = S(ip) /\ S(sp[3]) = b /\ S(sp[4]) = m
      BY <1>2, <2>3, <2>7
    <3>3. \A k \in 1 .. 4 : k = 1 \/ k = 2 \/ k = 3 \/ k = 4
      OBVIOUS
    <3> QED BY <3>1, <3>2, <3>3
  <2> HIDE DEF s
  <2>9. FlattenSeq(s) = Cat(Cat(Cat(b, S(ip)), b), m)
    <3>1. FlattenSeq(<<b, S(ip), b, m>>) = Cat(Cat(Cat(b, S(ip)), b), m)
      <4>1. b \in Texts /\ S(ip) \in Texts /\ m \in Texts
        BY <1>2, <1>3, <2>2
      <4> DEFINE w == S(ip)
      <4> HIDE DEF w
      <4>2. w \in Texts
        BY <4>1 DEF w
      <4>3. FlattenSeq(<<b, w, b, m>>) = Cat(Cat(Cat(b, w), b), m)
        BY <4>1, <4>2, FlattenFour
      <4> QED BY <4>3, Zenon DEF w
    <3> QED BY <2>8, <3>1, Zenon
  <2> QED BY <2>2, <2>4, <2>6, <2>9 DEF m, sp
<1> QED BY <1>4, <1>5

(* When nodes are named apart and names stand out, and the nodes have been *)
(* listed, two nodes' data never gets one name.                            *)
THEOREM ListedNodesStayApart ==
  ASSUME InputsStandOut, NodesAreNamed
  PROVE  Spec => [](mapping # <<>> => NodesStayApart)
<1>1. ASSUME AnonymizerInv, MappingInv, RenameInv, CompleteIsMasked, mapping # <<>>
      PROVE  NodesStayApart
  <2> SUFFICES ASSUME "complete" \in log, NEW i \in DOMAIN nodes, NEW j \in DOMAIN nodes, i # j
               PROVE  /\ i \in DOMAIN files /\ j \in DOMAIN files
                      /\ files[i].text # files[j].text
    BY DEF NodesStayApart
  <2>1. Ready /\ nodes \in Clusters /\ mapping = BuildNodeMapping(nodes)
    BY <1>1 DEF Ready, InputsStandOut, AnonymizerInv, MappingInv, NamesReady
  <2>2. ASSUME NEW k \in DOMAIN nodes
        PROVE  /\ k \in DOMAIN files
               /\ files[k].text = Masked(Gathered[k].text, "log", mapping, domain)
    <3>1. k \in DOMAIN Gathered /\ Gathered[k].ext = "log"
      <4>1. k \in DOMAIN Gathered /\ Gathered[k] = LogOf(nodes[k])
        BY <2>1, LogsComeFirst
      <4>2. LogOf(nodes[k]).ext = "log"
        BY LogHas
      <4> QED BY <4>1, <4>2
    <3>2. k \in DOMAIN files /\ files[k].ext = "log"
      BY <1>1, <3>1 DEF RenameInv, PathsFit, AnonymizerInv, FilesAreGathered
    <3>3. k \in TextFiles /\ KindOf(k) = "log"
      BY <1>1, <3>2 DEF TextFiles, DataFiles, KindOf, AnonymizerInv, SkippedAreData
    <3> QED BY <1>1, <3>2, <3>3 DEF CompleteIsMasked
  <2>3. PICK t \in Texts : \A k \in DOMAIN nodes :
          /\ mapping[nodes[k].name] \in Texts
          /\ Masked(Gathered[k].text, "log", mapping, domain) = Cat(t, mapping[nodes[k].name])
    BY <1>1, <2>1, LogIsMasked
  <2> DEFINE p == mapping[nodes[i].name]
             q == mapping[nodes[j].name]
  <2>4. p \in Texts /\ q \in Texts /\ p # q
    <3>1. nodes[i].name # nodes[j].name
      BY <2>1 DEF NodesAreNamed
    <3>2. nodes[i].name \in NodeNames(nodes) /\ nodes[j].name \in NodeNames(nodes)
      BY DEF NodeNames
    <3> QED BY <2>1, <2>3, <3>1, <3>2, MappingIsInjective
  <2>5. Cat(t, p) # Cat(t, q)
    <3> HIDE DEF p, q
    <3>1. /\ Len(t) \in Nat /\ Len(p) \in Nat /\ Len(q) \in Nat
          /\ Len(Cat(t, p)) = Len(t) + Len(p) /\ Len(Cat(t, q)) = Len(t) + Len(q)
          /\ \A k \in 1 .. Len(p) : Cat(t, p)[Len(t) + k] = p[k]
          /\ \A k \in 1 .. Len(q) : Cat(t, q)[Len(t) + k] = q[k]
      BY <2>4, CatIs
    <3>2. Cat(t, p) = Cat(t, q) => Len(p) = Len(q)
      BY <3>1
    <3>3. Cat(t, p) = Cat(t, q) => \A k \in 1 .. Len(p) : p[k] = q[k]
      BY <3>1, <3>2
    <3> QED BY <2>4, <3>2, <3>3, SameTexts
  <2> QED BY <2>2, <2>3, <2>5
<1>2. PathsStandOut
  BY DEF InputsStandOut, PathsStandOut
<1>3. Spec => []CompleteIsMasked
  BY CompleteDataIsMasked
<1>4. Init => MappingInv /\ RenameInv
  BY <1>2, TextsInvInit, RenameInvInit
<1>5. AnonymizerInv /\ MappingInv /\ [Next]_vars => MappingInv'
  BY MappingInvStep
<1>6. AnonymizerInv /\ MappingInv /\ RenameInv /\ [Next]_vars => RenameInv'
  BY <1>2, RenameInvStep
<1>7. AnonymizerInv /\ MappingInv /\ RenameInv /\ CompleteIsMasked => (mapping # <<>> => NodesStayApart)
  BY <1>1
<1> QED BY AnonymizerInvInit, AnonymizerInvStep, <1>3, <1>4, <1>5, <1>6, <1>7, PTL DEF Spec
=============================================================================
