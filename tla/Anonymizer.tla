----------------------------- MODULE Anonymizer -----------------------------
(***************************************************************************)
(* One anonymization of gathered data: BuildNodeMapping, FastAnonymize and *)
(* what it calls (src/internal/mustgather/mustgather.go), for a gather of  *)
(* this cluster ("oc" or "native") and for the archive of a managed        *)
(* cluster that the hub retrieves ("hub", anonymizeArchive in              *)
(* src/internal/acm/acm.go).                                               *)
(* The data is rewritten in passes over all files, each pass on what the   *)
(* one before left.                                                        *)
(*                                                                         *)
(* A text is a sequence of tokens.  What was gathered is a sequence of     *)
(* atoms, [kind, text], whose texts are put together in the file: a node's *)
(* name, a domain name, a service's DNS name, an address, a base64 value   *)
(* under "data", or anything else.                                         *)
(***************************************************************************)
EXTENDS Naturals, SequencesExt

CONSTANTS
  Clusters,   \* node lists: sequences, by name, of [name, roles]
  Domains,    \* the OpenShift.ClusterDomain of the one that anonymizes
  OwnDomain,  \* that of the cluster the data comes from
  Callers,    \* subset of {"oc", "native", "hub"}
  Options,    \* what a user may ask for
  Roots       \* names of the directory the hub extracts an archive to

Kinds == {"ips", "macs", "domains", "services", "secrets"}

ASSUME AnonymizerAssumption ==
  /\ Callers \subseteq {"oc", "native", "hub"}
  /\ Options \subseteq (SUBSET Kinds) \ {{}}
  /\ \A list \in Clusters : list \in Seq(ToSet(list))
  /\ \A list \in Clusters : \A i \in DOMAIN list : list[i].name \in Seq(STRING) \ {<<>>}
  /\ Domains \subseteq Seq(STRING) /\ Roots \subseteq Seq(STRING) \ {<<>>}
  /\ \A d \in Domains : d # <<>> /\ Head(d) = "apps" => Len(d) >= 5
  /\ OwnDomain \in Seq(STRING) /\ Len(OwnDomain) >= 2

VARIABLES
  caller, options, domain, nodes, root,  \* the inputs
  pc,
  mapping,    \* nodeMapping: node name -> pseudonym
  hostnames,  \* its names in the order they are replaced
  pending,    \* paths that are still to be renamed
  files,      \* file -> [path, ext, text]
  log,        \* the lines the user sees: "warning", "complete", "step"
  skipped,    \* history: data files that the redaction has left out
  faulted     \* history: a request, a command or a file has failed

inputs == <<caller, options, domain, nodes, root>>
vars == <<inputs, pc, mapping, hostnames, pending, files, log, skipped, faulted>>

----------------------------------------------------------------------------
(* BuildNodeMapping.  The roles of a node's labels are in sorted order.    *)

RoleFor(roles) ==
  IF ToSet(roles) \cap {"master", "control-plane"} # {} THEN "master"
  ELSE IF "infra" \in ToSet(roles) THEN "infra"
  ELSE IF "worker" \in ToSet(roles) \/ roles = <<>> THEN "worker"
  ELSE Head(roles)

(* Numbers that differ, and roles that differ, are written differently.    *)
ASSUME WritingAssumption ==
  \A list \in Clusters : \A i, j \in DOMAIN list :
    /\ ToString(i) \in STRING /\ (ToString(i) = ToString(j) => i = j)
    /\ LET r == RoleFor(list[i].roles)
           s == RoleFor(list[j].roles)
       IN r \o "-" \in STRING /\ (r \o "-" = s \o "-" => r = s)

(* Wrong: sort.SearchStrings counts from zero.                             *)
BuildNodeMappingFromZero(list) ==
  [n \in {list[i].name : i \in DOMAIN list} |->
     LET at == CHOOSE i \in DOMAIN list : list[i].name = n
         role == RoleFor(list[at].roles)
     IN <<role \o "-", ToString(Cardinality({i \in 1 .. at - 1 : RoleFor(list[i].roles) = role}))>>]

(* Wrong: by how many nodes its role has.                                  *)
BuildNodeMappingByCount(list) ==
  [n \in {list[i].name : i \in DOMAIN list} |->
     LET at == CHOOSE i \in DOMAIN list : list[i].name = n
         role == RoleFor(list[at].roles)
     IN <<role \o "-", ToString(Cardinality({i \in DOMAIN list : RoleFor(list[i].roles) = role}))>>]

(* A node is numbered by its place among the nodes of its role.            *)
BuildNodeMapping(list) ==
  [n \in {list[i].name : i \in DOMAIN list} |->
     LET at == CHOOSE i \in DOMAIN list : list[i].name = n
         role == RoleFor(list[at].roles)
     IN <<role \o "-", ToString(Cardinality({i \in 1 .. at : RoleFor(list[i].roles) = role}))>>]

----------------------------------------------------------------------------
(* The data: each node has a directory with a log and a manifest named     *)
(* after it, another manifest has data of every kind, and "timestamp" has  *)
(* no extension.  A path is the sequence of its components.                *)

Atom(kind, text) == [kind |-> kind, text |-> text]
Other(token) == Atom("other", <<token>>)
NameOf(node) == Atom("node", node.name)
Spaced(atoms) ==
  [i \in 1 .. 2 * Len(atoms) |-> IF i % 2 = 1 THEN Other(" ") ELSE atoms[i \div 2]]

Services == <<"db", ".", "ns", ".", "svc">>

Everything(list) ==
  Spaced([i \in DOMAIN list |-> NameOf(list[i])] \o
    <<Atom("ips", <<"10.0.0.1">>), Atom("macs", <<"0a:58:0a:00:00:01">>),
      Atom("domains", OwnDomain), Atom("domains", Tail(Tail(OwnDomain))),
      Atom("services", Services), Atom("secrets", <<"cGFzcw==">>)>>)

File(path, ext, atoms) ==
  [path |-> <<<<Atom("other", root)>>>> \o path, ext |-> ext, text |-> atoms]

Gathered ==
  [i \in DOMAIN nodes |->
     File(<< <<NameOf(nodes[i])>>, <<Other("etcd-"), NameOf(nodes[i])>> >>, "log",
          Spaced(<<Atom("ips", <<"10.0.0.1">>), NameOf(nodes[i])>>))] \o
  [i \in DOMAIN nodes |->
     File(<< <<Other("nodes")>>, <<NameOf(nodes[i])>> >>, "yaml", Spaced(<<NameOf(nodes[i])>>))] \o
  << File(<< <<Other("manifest")>> >>, "yaml", Everything(nodes)),
     File(<< <<Other("timestamp")>> >>, "", Everything(nodes)) >>

Text(atoms) == FlattenSeq([i \in DOMAIN atoms |-> atoms[i].text])
Put(g) == [g EXCEPT !.path = [i \in DOMAIN g.path |-> Text(g.path[i])], !.text = Text(g.text)]

(* The files a pass over contents selects (find -name *.log -o ...).       *)
TextFiles == {f \in DOMAIN files : files[f].ext \in {"log", "yaml", "json", "txt"}}
DataFiles == {f \in DOMAIN files : files[f].ext \in {"yaml", "json"}}

Under(dir) == {f \in DOMAIN files : IsPrefix(dir, files[f].path)}
Paths == UNION {Prefixes(files[f].path) \ {<<>>} : f \in DOMAIN files}

----------------------------------------------------------------------------
(* Replacing in a text, as strings.ReplaceAll and s/from/to/g do: from     *)
(* left to right, and what has been put in is not looked at again.  A      *)
(* match is a pair <<first, last>> of positions; the longest is taken.     *)
Substitute(matches, to, text) ==
  LET Lasts(i) == {m[2] : m \in {n \in matches : n[1] = i}}
      rest[i \in 1 .. Len(text) + 1] ==
        IF i = Len(text) + 1 THEN <<>>
        ELSE IF Lasts(i) = {} THEN <<text[i]>> \o rest[i + 1]
        ELSE to \o rest[Max(Lasts(i)) + 1]
  IN rest[1]

OccursAt(part, text, i) == IsPrefix(part, SubSeq(text, i, Len(text)))
Occurs(part, text) == \E i \in DOMAIN text : OccursAt(part, text, i)

ReplaceEach(from, to, text) ==
  Substitute({<<i, i + Len(from) - 1>> : i \in {j \in DOMAIN text : OccursAt(from, text, j)}},
             to, text)

(* One after the other, each on what the ones before it left.              *)
ReplaceInTurn(from, to, text) ==
  LET done[k \in 0 .. Len(from)] ==
        IF k = 0 THEN text ELSE ReplaceEach(from[k], to[k], done[k - 1])
  IN done[Len(from)]

ReplaceNames(text) ==
  ReplaceInTurn(hostnames, [k \in DOMAIN hostnames |-> mapping[hostnames[k]]], text)

DomainMask(d) == [i \in DOMAIN d |-> IF d[i] = "." THEN "." ELSE "x"]

(* The expressions for a domain: itself, and without "apps." and then      *)
(* without the cluster's name.                                             *)
DomainForms(d) ==
  IF d = <<>> THEN <<>>
  ELSE IF Head(d) # "apps" THEN <<d>>
  ELSE LET fqdn == Tail(Tail(d)) IN <<d, fqdn, Tail(Tail(fqdn))>>

ReplaceDomains(d, text) ==
  LET forms == DomainForms(d)
  IN ReplaceInTurn(forms, [k \in DOMAIN forms |-> DomainMask(forms[k])], text)

(* [a-zA-Z0-9._-]+ before ".svc.cluster.local" goes with it.               *)
ReplaceServices(text) ==
  LET InWord(m) == /\ m[1] <= m[2] /\ (m[1] = 1 \/ text[m[1] - 1] = " ")
                   /\ \A i \in m[1] .. m[2] : text[i] # " "
  IN Substitute({m \in (DOMAIN text) \X (DOMAIN text) : text[m[2]] = "svc" /\ InWord(m)},
                <<"cleaned", ".", "svc">>, text)

(* Does sed get any expression?  With none it takes a file for its script. *)
HasExpressions ==
  \/ options \cap {"ips", "macs", "services"} # {}
  \/ "domains" \in options /\ domain # <<>>

ReplacePatterns(text) ==
  LET Asked(kind, s, replaced) == IF kind \in options THEN replaced ELSE s
      ips == Asked("ips", text, ReplaceEach(<<"10.0.0.1">>, <<"x.x.x.x">>, text))
      macs == Asked("macs", ips, ReplaceEach(<<"0a:58:0a:00:00:01">>, <<"xx:xx:xx:xx:xx:xx">>, ips))
      domains == Asked("domains", macs, ReplaceDomains(domain, macs))
  IN Asked("services", domains, ReplaceServices(domains))

RedactBase64Values(text) == ReplaceEach(<<"cGFzcw==">>, <<"<REDACTED>">>, text)

(* The passes: what each makes of the text of the files it selects.        *)
NamesMasked == [f \in TextFiles |-> ReplaceNames(files[f].text)]
PatternsMasked == [f \in TextFiles |-> ReplacePatterns(files[f].text)]
SecretsRedacted == [f \in DataFiles |-> RedactBase64Values(files[f].text)]

(* A pass gets through some of its files.                                  *)
Rewrite(some, text) ==
  files' = [f \in DOMAIN files |->
              IF f \in some THEN [files[f] EXCEPT !.text = text[f]] ELSE files[f]]

----------------------------------------------------------------------------
Init ==
  /\ caller \in Callers /\ options \in Options /\ domain \in Domains /\ nodes \in Clusters
  /\ root \in IF caller = "hub" THEN Roots ELSE {<<"job">>}
  /\ pc = "start"
  /\ mapping = <<>> /\ hostnames = <<>> /\ pending = {}
  /\ files = [f \in DOMAIN Gathered |-> Put(Gathered[f])]
  /\ log = {} /\ skipped = {} /\ faulted = FALSE

Goto(from, to) == pc = from /\ pc' = to
Fault == faulted' = TRUE
Warn == log' = log \cup {"warning"}
data == <<mapping, hostnames, pending, files, skipped>>

(* What is logged at the end: that it is complete, or a warning.  A gather *)
(* with oc then says that the step is complete, in either case.            *)
Report(line) == log' = log \cup {line} \cup (IF caller = "oc" THEN {"step"} ELSE {})

(* A gather of this cluster always calls FastAnonymize; the hub does not   *)
(* when only secrets are to be redacted.                                   *)
Start ==
  /\ Goto("start", IF caller # "hub" THEN "map"
                   ELSE IF options \ {"secrets"} # {} THEN "list" ELSE "end")
  /\ UNCHANGED <<inputs, data, log, faulted>>

(* The hub lists the nodes once to log the mapping, and extracts.          *)
ListForLog ==
  /\ Goto("list", "extract")
  /\ \/ UNCHANGED <<log, faulted>>
     \/ Warn /\ Fault
  /\ UNCHANGED <<inputs, data>>

Extract ==
  /\ \/ Goto("extract", "map") /\ UNCHANGED <<log, faulted>>
     \/ Goto("extract", "end") /\ Warn /\ Fault
  /\ UNCHANGED <<inputs, data>>

(* Wrong: in the order of the map.                                         *)
MapNodesUnsorted ==
  /\ Goto("map", "rename")
  /\ mapping' = BuildNodeMapping(nodes)
  /\ hostnames' \in SetToSeqs(DOMAIN mapping')
  /\ pending' = Paths
  /\ UNCHANGED <<inputs, files, log, skipped, faulted>>

(* The host names are sorted longest first; equal lengths are in any order.*)
MapNodes ==
  /\ Goto("map", "rename")
  /\ mapping' = BuildNodeMapping(nodes)
  /\ hostnames' \in {order \in SetToSeqs(DOMAIN mapping') :
        \A i, j \in DOMAIN order : i < j => Len(order[i]) >= Len(order[j])}
  /\ pending' = Paths
  /\ UNCHANGED <<inputs, files, log, skipped, faulted>>

(* Without the list no name is replaced.  The hub does not look at the     *)
(* error of its second list.                                               *)
MapNodesFails ==
  /\ Goto("map", "patterns") /\ Fault
  /\ IF caller = "hub" THEN UNCHANGED log ELSE Warn
  /\ UNCHANGED <<inputs, data>>

(* os.Rename(from, to), whose error is ignored: from may be gone, to may   *)
(* exist.  A file replaces a file.                                         *)
Rename(from, to) ==
  LET over == {f \in Under(to) : files[f].path = to}
      fails == \/ Under(from) = {}
               \/ Under(to) # {} /\ ~(over # {} /\ \E f \in Under(from) : files[f].path = from)
  IN IF from = to \/ fails THEN UNCHANGED files
     ELSE files' = [f \in DOMAIN files \ over |->
            IF f \in Under(from)
            THEN [files[f] EXCEPT !.path = to \o SubSeq(@, Len(from) + 1, Len(@))]
            ELSE files[f]]

(* Wrong: a directory is renamed before what is below it.                  *)
ToRenameParentsFirst ==
  {p \in pending : \A q \in pending : Len(FlattenSeq(q)) >= Len(FlattenSeq(p))}

(* The longest path is renamed first; equal lengths come in any order.     *)
ToRename == {p \in pending : \A q \in pending : Len(FlattenSeq(q)) <= Len(FlattenSeq(p))}

RenamePath ==
  /\ pc = "rename"
  /\ \E p \in ToRename :
       /\ Rename(p, Append(Front(p), ReplaceNames(Last(p))))
       /\ pending' = pending \ {p}
       /\ pc' = IF pending' = {} THEN "names" ELSE pc
  /\ UNCHANGED <<inputs, mapping, hostnames, log, skipped, faulted>>

(* xargs sed -i over the text files below the directory.                   *)
CanFind == Under(<<root>>) # {}

MaskNames ==
  /\ CanFind
  /\ Goto("names", "patterns")
  /\ Rewrite(TextFiles, NamesMasked)
  /\ UNCHANGED <<inputs, mapping, hostnames, pending, log, skipped, faulted>>

MaskPatterns ==
  /\ HasExpressions
  /\ IF "secrets" \in options
       THEN Goto("patterns", "secrets") /\ UNCHANGED log
       ELSE Goto("patterns", "end") /\ Report("complete")
  /\ Rewrite(TextFiles, PatternsMasked)
  /\ UNCHANGED <<inputs, mapping, hostnames, pending, skipped, faulted>>

(* A file that cannot be read, parsed or put together again is left as it  *)
(* is, and nobody is told.                                                 *)
Redact ==
  /\ Goto("secrets", "end") /\ Report("complete")
  /\ \E done \in SUBSET DataFiles :
       /\ Rewrite(done, SecretsRedacted)
       /\ skipped' = DataFiles \ done
       /\ faulted' = (faulted \/ done # DataFiles)
  /\ UNCHANGED <<inputs, mapping, hostnames, pending>>

(* A command that cannot succeed: the directory itself has been renamed,   *)
(* or sed has no expression.                                               *)
CommandIsWrong ==
  /\ \/ ~CanFind /\ Goto("names", "end")
     \/ ~HasExpressions /\ Goto("patterns", "end")
  /\ Report("warning")
  /\ UNCHANGED <<inputs, data, faulted>>

(* A pass fails after some of the files: what follows is not done, and the *)
(* data is archived as it is.                                              *)
PassFails(at, text) ==
  /\ Goto(at, "end") /\ Report("warning") /\ Fault
  /\ \E done \in SUBSET DOMAIN text : done # DOMAIN text /\ Rewrite(done, text)
  /\ UNCHANGED <<inputs, mapping, hostnames, pending, skipped>>

NamesFail == CanFind /\ PassFails("names", NamesMasked)
PatternsFail == HasExpressions /\ PassFails("patterns", PatternsMasked)
RedactFails == PassFails("secrets", SecretsRedacted)

Next ==
  \/ Start \/ ListForLog \/ Extract \/ MapNodes \/ MapNodesFails \/ RenamePath
  \/ MaskNames \/ MaskPatterns \/ Redact \/ CommandIsWrong
  \/ NamesFail \/ PatternsFail \/ RedactFails

Spec == Init /\ [][Next]_vars

----------------------------------------------------------------------------
(* What is promised, atom by atom: each is replaced by what stands for it, *)
(* whatever surrounds it.  names is a mapping, d a domain.                 *)

Ends(form, text) == Len(form) <= Len(text) /\ OccursAt(form, text, Len(text) - Len(form) + 1)

MaskSuffix(text, d) ==
  LET forms == {form \in ToSet(DomainForms(d)) : Ends(form, text)}
      form == CHOOSE x \in forms : \A y \in forms : Len(y) <= Len(x)
  IN IF forms = {} THEN text
     ELSE SubSeq(text, 1, Len(text) - Len(form)) \o DomainMask(form)

Stand(atom, ext, names, d) ==
  CASE atom.kind = "node" /\ atom.text \in DOMAIN names -> names[atom.text]
    [] /\ "domains" \in options
       /\ atom.kind = "domains" \/ (atom.kind = "node" /\ atom.text \notin DOMAIN names)
       -> MaskSuffix(atom.text, d)
    [] atom.kind = "ips" /\ "ips" \in options -> <<"x.x.x.x">>
    [] atom.kind = "macs" /\ "macs" \in options -> <<"xx:xx:xx:xx:xx:xx">>
    [] atom.kind = "services" /\ "services" \in options -> <<"cleaned", ".", "svc">>
    [] atom.kind = "secrets" /\ "secrets" \in options /\ ext \in {"yaml", "json"} -> <<"<REDACTED>">>
    [] OTHER -> atom.text

Masked(atoms, ext, names, d) ==
  FlattenSeq([i \in DOMAIN atoms |-> Stand(atoms[i], ext, names, d)])

RenamedPath(path, names) ==
  [i \in DOMAIN path |-> Masked(path[i], "", names, <<>>)]

(* Every variable stays in its type.                                       *)
TypeOK ==
  /\ pc \in {"start", "list", "extract", "map", "rename", "names", "patterns", "secrets", "end"}
  /\ log \subseteq {"warning", "complete", "step"} /\ faulted \in BOOLEAN
  /\ skipped \subseteq DataFiles
  /\ \A n \in DOMAIN mapping :
       mapping[n][2] \in {ToString(i) : i \in DOMAIN nodes}
  /\ ToSet(hostnames) = DOMAIN mapping
  /\ DOMAIN files \subseteq DOMAIN Gathered
  /\ \A f \in DOMAIN files : files[f].ext = Gathered[f].ext

(* When the log says that the obfuscation or anonymization is complete,    *)
(* each text file has what was gathered with exactly the names, addresses, *)
(* domains, services and secrets replaced that were asked for, each by its *)
(* own pseudonym or mask, whichever passes ran before on the same text;    *)
(* the domain is the one the caller has given.  A data file that was left  *)
(* out of the redaction has kept its secrets, and nothing else: it is like *)
(* a text file.  That the step is complete says nothing.                   *)
KindOf(f) == IF f \in skipped THEN "txt" ELSE files[f].ext

CompleteIsMasked ==
  "complete" \in log =>
    \A f \in TextFiles :
      files[f].text = Masked(Gathered[f].text, KindOf(f), mapping, domain)

(* No file is lost, and each is where its renamed directory and its        *)
(* renamed name put it: renaming a directory does not hide what is below   *)
(* it from a later rename.                                                 *)
CompleteIsRenamed ==
  "complete" \in log =>
    /\ DOMAIN files = DOMAIN Gathered
    /\ \A f \in DOMAIN files : files[f].path = RenamedPath(Gathered[f].path, mapping)

(* Each node has a pseudonym of its own, in whichever roles and order the  *)
(* nodes are listed (BuildNodeMapping: "a map of real hostname ->          *)
(* role-based pseudonym").                                                 *)
PseudonymsDiffer ==
  \A m, n \in DOMAIN mapping : mapping[m] = mapping[n] => m = n

(* What it takes for that: a node's name is no address, service or secret, *)
(* and is not found in a pseudonym or in anything else that was gathered...*)
Literals == {"10.0.0.1", "0a:58:0a:00:00:01", "svc", "cGFzcw=="}
Reserved == Literals \cup {" ", "etcd-"}
NodeNames(list) == {list[i].name : i \in DOMAIN list}
Pseudonyms(list) == {BuildNodeMapping(list)[n] : n \in NodeNames(list)}
OwnDomains == {OwnDomain, Tail(Tail(OwnDomain))}
OtherTexts == {<<token>> : token \in Literals} \cup {Services}

NamesStandOut(list) ==
  /\ \A t \in NodeNames(list) \cup Pseudonyms(list) \cup OwnDomains : ToSet(t) \cap Reserved = {}
  /\ \A n \in NodeNames(list) :
       \A t \in Pseudonyms(list) \cup OwnDomains \cup OtherTexts \cup
               {<<"nodes">>, <<"manifest">>, <<"timestamp">>} : ~Occurs(n, t)

(* ... and a domain is found in names and domains, at their ends.          *)
DomainStandsOut(list, d) ==
  d # <<>> =>
    /\ Last(d) \notin {".", "x"} /\ ToSet(d) \cap Reserved = {}
    /\ \A form \in ToSet(DomainForms(d)) :
         /\ \A t \in NodeNames(list) \cup OwnDomains : \A i \in DOMAIN t :
              OccursAt(form, t, i) => i = Len(t) - Len(form) + 1
         /\ \A t \in Pseudonyms(list) \cup OtherTexts \cup
                     {<<"x.x.x.x">>, <<"xx:xx:xx:xx:xx:xx">>} : ~Occurs(form, t)

(* Data of two nodes is never put under one name (BuildNodeMapping: "a map *)
(* of real hostname -> role-based pseudonym").                             *)
NodesStayApart ==
  "complete" \in log =>
    \A i, j \in DOMAIN nodes : i # j =>
      /\ i \in DOMAIN files /\ j \in DOMAIN files
      /\ files[i].text # files[j].text

(* When no request and no command has failed, the data that was gathered   *)
(* is masked as the user asked.                                            *)
RequestIsHonoured ==
  pc = "end" /\ ~faulted =>
    \A f \in TextFiles :
      files[f].text = Masked(Gathered[f].text, files[f].ext, BuildNodeMapping(nodes), OwnDomain)

=============================================================================
