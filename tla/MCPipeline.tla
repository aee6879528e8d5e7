------------------------------ MODULE MCPipeline ------------------------------
(***************************************************************************)
(* Pipeline for TLC: two departments, three article files, one article an  *)
(* admin may create, and one reload in which a file has changed, another   *)
(* is gone and the third is withheld.                                      *)
(***************************************************************************)
EXTENDS Pipeline

CONSTANTS net, hr, vpn, dns, leave, local, cmd, url

MCDepartments == {net, hr}

MCArticles == {vpn, dns, leave, local}

MCPathOrder == <<leave, dns, vpn>>

ArticleFile(dept, served, load) ==
    [state |-> "present", dept |-> dept, served |-> served, load |-> load, source |-> "file"]

NoFile(dept) == [state |-> "absent", dept |-> dept, served |-> TRUE, load |-> 0, source |-> "none"]

MCInitialKB ==
    (vpn :> ArticleFile(net, TRUE, 0)) @@ (dns :> ArticleFile(net, TRUE, 0)) @@
    (leave :> ArticleFile(hr, TRUE, 0)) @@ (local :> NoFile(net))

MCFileOf ==
    <<(vpn :> ArticleFile(net, TRUE, 1)) @@ (dns :> NoFile(net)) @@
      (leave :> ArticleFile(hr, FALSE, 1)) @@ (local :> NoFile(net))>>

Chunk(a, load, says, warns) == [article |-> a, load |-> load, says |-> says, warns |-> warns]

MCChunks ==
    <<Chunk(vpn, 1, {cmd}, {}), Chunk(vpn, 0, {}, {cmd, url}), Chunk(dns, 0, {cmd}, {}),
      Chunk(local, 0, {url}, {}), Chunk(leave, 0, {cmd}, {}), Chunk(leave, 1, {cmd}, {})>>

MCScorings ==
    {[keyword |-> <<2, 1, 0, 0, 1, 1>>, dense |-> <<1, 3, 2, 0, 3, 3>>,
      rerank |-> <<0, 1, 2, 2, 0, 0>>, probe |-> 2],
     [keyword |-> <<0, 0, 1, 1, 0, 0>>, dense |-> <<2, 2, 1, 3, 1, 1>>,
      rerank |-> <<2, 1, 0, 0, 1, 1>>, probe |-> None]}

Plain(t) == [text |-> t, secret |-> FALSE]

Secret(t) == [text |-> t, secret |-> TRUE]

\* An address in two fields and as a secret, a word that only a secret makes sensitive;
\* and a placeholder someone typed, in the clear and as a secret.
MCTickets ==
    {[subject |-> <<Plain(Raw("EMAIL", 2)), Plain(Raw("none", 1))>>,
      description |-> <<Plain(Raw("PHONE", 1)), Plain(Raw("EMAIL", 2)), Secret(Raw("EMAIL", 1))>>,
      attachment |-> <<Plain(Raw("EMAIL", 1)), Secret(Raw("none", 1)), Plain(Raw("CARD", 1))>>],
     [subject |-> <<Plain(Placeholder("EMAIL", 1))>>,
      description |-> <<Secret(Placeholder("EMAIL", 1)), Plain(Raw("EMAIL", 1))>>,
      attachment |-> <<>>]}

Instruction(text, runs, cites) == [text |-> text, runs |-> runs, cites |-> cites]

Word1 == Placeholder("EMAIL", 1)

MCReplies ==
    LET good     == Instruction(Word1, {cmd}, {1})
        careful  == Instruction(Raw("none", 2), {url}, {1, 2})
        blank    == Instruction(Blank, {}, {1})
        uncited  == Instruction(Word1, {}, {})
        invented == Instruction(Word1, {}, {3})
        Answer(can, steps) == [form |-> "object", canAnswer |-> can, steps |-> steps]
    IN  {Answer(TRUE, <<good>>), Answer(TRUE, <<careful, good>>), Answer(TRUE, <<good, blank>>),
         Answer(TRUE, <<uncited>>), Answer(TRUE, <<good, invented>>),
         Answer(TRUE, <<good, good, good>>), Answer(TRUE, <<>>), Answer(FALSE, <<good>>),
         Answer(FALSE, <<>>), [form |-> "text", canAnswer |-> FALSE, steps |-> <<>>]}

\* A score just below a threshold is stored as equal to it.
MCThresholds ==
    {[fast |-> 3, assisted |-> 0, minDeptProb |-> 1, minProbeMargin |-> 0],
     [fast |-> None, assisted |-> 3, minDeptProb |-> None, minProbeMargin |-> None]}

MCBareUrls == {url}
=============================================================================
