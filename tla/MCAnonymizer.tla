---------------------------- MODULE MCAnonymizer ----------------------------
(***************************************************************************)
(* Anonymizer for TLC.                                                     *)
(***************************************************************************)
EXTENDS Anonymizer

Node(name, roles) == [name |-> name, roles |-> roles]
Of(cluster) == <<"apps", ".", cluster, ".", "base", ".", "com">>
Dotted(name, cluster) == name \o <<".">> \o Tail(Tail(Of(cluster)))

(* One name is a prefix of another; roles of every kind.                   *)
Short == << Node(<<"n", "1">>, <<"control-plane", "worker">>),
            Node(<<"n", "1", "0">>, <<"gpu", "storage">>),
            Node(<<"n", "2">>, <<"gpu">>) >>

(* Names with the domain, whose first part is another node's pseudonym.    *)
Long == << Node(Dotted(<<"worker-", "0">>, "c"), <<"worker">>),
           Node(Dotted(<<"worker-", "1">>, "c"), <<>>) >>

(* Host names as an installer gives them.                                  *)
Numbered == << Node(<<"worker-", "0">>, <<"worker">>), Node(<<"worker-", "1">>, <<"worker">>) >>

MCClusters == {Short, Long}
MCNumbered == {Numbered}
MCDomains == {Of("c"), <<"cloud", ".", "base", ".", "com">>, <<>>}
MCOwn == Of("c")
MCOwnOnly == {Of("c")}
MCOptions == {Kinds, {"ips", "domains"}, {"macs", "services"}, {"secrets"}}
MCAll == {Kinds}
MCRoots == {<<"prod">>, <<"n", "1">>}

(* What the theorems of AnonymizerProofs ask of their inputs holds for the *)
(* short and the long names.                                               *)
ASSUME InputsStandOut ==
  /\ \A list \in MCClusters : NamesStandOut(list) /\ \A d \in MCDomains : DomainStandsOut(list, d)
  /\ \A list \in MCClusters : \A i, j \in DOMAIN list : list[i].name = list[j].name => i = j
=============================================================================
