---------------------------- MODULE MCCommandLine ----------------------------
(***************************************************************************)
(* All command lines of up to four arguments, and names with dots at every place. *)
(***************************************************************************)
EXTENDS CommandLine

File(name) == [dir |-> <<>>, name |-> name]

MCHere == File(<<".">>)

Names == {<<"app">>, <<"app", "exe">>, <<"", "app">>, <<"app", "">>, <<"app", "patch">>,
          <<"app", "readable">>, <<"app", "patched">>, <<"app", "patched", "exe">>}

MCPaths == {File(name) : name \in Names}

MCOriginals == {File(<<"app", "exe">>), File(<<"", "app">>), File(<<"app", "patch">>)}

Words == {"pack", "patch", "apply-patch", "-h", "--out-dir", "--no-rename", "--from", "--out",
          "--input", "--other"}

Arguments ==
  {[flag |-> word, path |-> File(<<word>>)] : word \in Words}
  \cup {[flag |-> "", path |-> File(name)] : name \in {<<"app">>, <<"app", "readable">>}}

MCCommandLines ==
  UNION {[1 .. n -> Arguments] : n \in 0 .. 4}
  \cup {<<[flag |-> "", path |-> path]>> : path \in MCPaths}
  \cup {<<[flag |-> "apply-patch", path |-> File(<<"apply-patch">>)],
          [flag |-> "", path |-> File(<<"app", "patch">>)],
          [flag |-> "", path |-> path]>> : path \in MCPaths}

=============================================================================
