---------------------------- MODULE MCWorkerTasks ---------------------------
(* Small instances of WorkerTasks: every load gives one handler all the inputs *)
(* it can have within the bounds, and the others a fixed one.                  *)
EXTENDS WorkerTasks, TLC

CONSTANTS self, other

MCTasks == 1..3
MCHeader == <<"h1", "h2">>

\* Source files: all of two lines, and the usual headers with a line or a comment of
\* two lines above, or with lines above and below.
MCLines(style) ==
  {<<>>, <<"text">>, <<"h1">>, <<"h2">>, <<"text", "h1">>, <<Single, "h1">>, <<Single, "h2">>}
  \cup (IF Opening(style) = "none" THEN {} ELSE
        {<<Opening(style)>>, <<Closing(style)>>, <<Opening(style), "h1">>, <<"h2", Closing(style)>>,
         <<Opening(style), "text", Closing(style)>>, <<Closing(style), "text">>, <<Star, "h1">>, <<Star, "h2">>})
MCTexts(style) ==
  SeqOf(MCLines(style), 2)
  \cup {<<line>> \o header : line \in MCLines(style), header \in UsualHeaders(style)}
  \cup {<<<<Single, "text">>, <<"text">>>> \o header \o <<line>> : line \in MCLines(style), header \in UsualHeaders(style)}
  \cup {<<first, second>> \o header :
          first \in {<<"text">>, <<Opening(style)>>, <<Opening(style), "text">>, <<Opening(style), "text", Closing(style)>>},
          second \in {<<"text">>, <<Closing(style)>>, <<"text", Closing(style)>>, <<Star, "text">>},
          header \in UsualHeaders(style)}
MCFiles == UNION {[style : {s}, lines : MCTexts(s)] : s \in Styles}

MCMember(tops, bases, kinds, sizes, texts) ==
  [top : tops, base : bases, kind : kinds, size : sizes, text : texts]
MCSourceArchives ==
  SeqOf(MCMember({"r"}, {"source"}, {"file"}, {1}, MCFiles), 1)
MCPlainArchives ==
  SeqOf(MCMember({"r", "s", "", ".."}, {"LICENSE", "other"}, {"file", "directory", "broken"}, {1}, {"plain"}), 2)
  \cup SeqOf(MCMember({"r"}, {"NOTICE", "other"}, {"file"}, {1}, {"plain", "binary"}), 2)
MCSizedArchives ==
  SeqOf(MCMember({"r"}, {"a"}, {"file"}, 0..3, {"plain"})
        \cup MCMember({"r"}, {"b"}, {"file"}, 1..2, {"plain"})
        \cup MCMember({"r"}, {"a"}, {"link", "directory"}, {0}, {"plain"})
        \cup MCMember({"r"}, {""}, {"file", "directory"}, {1}, {"plain"}), 3)
MCArchives == MCSourceArchives \cup MCPlainArchives \cup MCSizedArchives

MCReports ==
  {{}, {[approved |-> TRUE, family |-> "known"]},
   {[approved |-> TRUE, family |-> "known"], [approved |-> FALSE, family |-> "Unknown license"]},
   {[approved |-> FALSE, family |-> "missing"]},
   {[approved |-> FALSE, family |-> "known"], [approved |-> FALSE, family |-> "Unknown license"]}}

\* Sites: b has pages d and e, artifacts z (also in b/d) and a signature.
B == <<"b">>
U(pieces) == B \o pieces
MCSites ==
  [{B} -> {<<U(<<"d">>), U(<<"z">>), U(<<"z">>), <<"o">>, U(<<"?C">>), B>>,
           <<U(<<"d", "e">>), U(<<"d">>), U(<<"d", "z">>)>>,
           <<U(<<"e">>), U(<<"d">>)>>}]
  \cup {[p \in {B, U(<<"d">>), U(<<"d", "e">>), U(<<"e">>)} |->
           CASE p = B -> toB
             [] p = U(<<"d">>) -> <<U(<<"d", "e">>), U(<<"d", "z">>), B, U(<<"z">>)>>
             [] p = U(<<"d", "e">>) -> <<U(<<"d", "e", "z">>), U(<<"d", "e", "z.asc">>), U(<<"d", "e", "e">>)>>
             [] p = U(<<"e">>) -> <<U(<<"e">>), U(<<"z">>)>>] :
        toB \in {<<U(<<"d">>), U(<<"z">>), U(<<"d", "e">>)>>,
                 <<U(<<"d", "e">>), U(<<"d">>), U(<<"d", "z">>)>>,
                 <<U(<<"e">>), U(<<"d">>), U(<<"z">>)>>}}

MCLoad(handlers, checks, archives, recipients, sites, depths) ==
  [handlers : {handlers}, check : checks, archive : archives,
   recipient : recipients, site : sites, depth : depths]
One(h) == <<"elsewhere", h, "elsewhere">>
Two(h, k) == <<"elsewhere", h, k>>
ASite == CHOOSE s \in MCSites : TRUE
AnArchive == <<[top |-> "r", base |-> "a", kind |-> "file", size |-> 2, text |-> "plain"]>>

MCLoads ==
  MCLoad(One("archive"), {"verify_license_headers"}, MCSourceArchives, {"dev"}, {ASite}, {1})
  \cup MCLoad(One("archive"), Checks, MCPlainArchives, {"dev"}, {ASite}, {1})
  \cup MCLoad(One("archive"), Tools, MCSizedArchives, {"dev"}, {ASite}, {1})
  \cup MCLoad(Two("archive", "bulk"), {"verify_rat_license"}, {AnArchive}, {"dev"}, {ASite}, {2})
  \cup MCLoad(Two("mail", "archive"), {"verify_rat_license"}, {AnArchive}, {"dev", "other"}, {ASite}, {2})
  \cup MCLoad(Two("signature", "vote"), {"verify_rat_license"}, {AnArchive}, {"dev"}, {ASite}, {2})
  \cup MCLoad(One("bulk"), {"verify_rat_license"}, {AnArchive}, {"dev"}, MCSites, 1..3)
=============================================================================
