---------------------------- MODULE MCRawExtract ----------------------------
(***************************************************************************)
(* Up to three files of five names and thirteen contents.                    *)
(***************************************************************************)
EXTENDS RawExtract

Text    == Cell("text", 0)
Break   == Cell("break", 0)
N(n)    == Cell("number", n)
Name(n) == Cell("name", n)

MCExtension == <<"js", "wasm", "txt", "png", "node">>

(* The contents by the name of the file: marked scripts, one with a path in a single line
   and one with a second marker; modules whole, empty and with a section out of order;
   texts; images whole, cut off, and with a last chunk beyond the end; Mach-O files with
   data and without commands. *)
Contents ==
  << {<<Marker, Break, Text>>, <<Marker, Text, Root, Name(2), Text>>,
      <<Marker, Text, Marker, Text, Break>>, <<Text, Text, Break>>},
     {<<Cell("wasm", 0), N(1), N(1), Text, N(3), N(0)>>, <<Cell("wasm", 0)>>},
     {<<Text>>, <<Text, Break, Text, Text, Text>>},
     {<<Cell("png", 0), N(2), N(1), Text, N(0), N(0)>>, <<Cell("png", 0), N(2), N(3), Text>>,
      <<Cell("png", 0), N(0), N(3), Text>>},
     {<<Cell("macho", 0), N(1), N(3), N(3), N(6), N(2), Text, Text>>,
      <<Cell("macho", 0), N(0), N(1), Text>>} >>

MCEntries ==
  UNION {{[scheme |-> s, name |-> Name(n), content |-> c] :
            s \in IF n <= 2 THEN BOOLEAN ELSE {FALSE}, c \in Contents[n]} :
           n \in DOMAIN Contents}

MCImages ==
  {images \in UNION {[1 .. n -> MCEntries] : n \in 1 .. 3} :
     \A i, j \in DOMAIN images : i # j => images[i].name # images[j].name}

MCHost == <<Text, Marker, Text, Nul>>

MCTails == {<<>>, <<Nul, Nul>>, <<Text, Break>>, <<Break, N(3), N(0)>>}

=============================================================================
