----------------------------- MODULE RawExtract -----------------------------
(***************************************************************************)
(* Files carved out of a __BUN section that has no readable graph:               *)
(* src/src/embedded/raw/files.rs and src/src/embedded/detect.rs; and the source  *)
(* of such an input: src/src/extract.rs.                                   *)
(*                                                                         *)
(* Bytes are grouped to cells: a prefix of a path, a file name, a marker, a magic *)
(* number, a number, or a piece of text is one cell.  The two markers are one,   *)
(* and so are the prefixes of Windows and Unix.  Bun writes the path and the      *)
(* contents of each file, each with a NUL behind it.                        *)
(***************************************************************************)
EXTENDS Integers, SequencesExt

CONSTANTS
  Reach,       \* how far behind a path a marker is looked for (128 bytes)
  Host,        \* the cells of the executable in front of the section
  Extension,   \* of a name: "js", "txt", or another
  Images,      \* sequences of files [scheme, name, content] that Bun may have embedded
  Tails,       \* what may follow the files in the section
  Missing

VARIABLES
  entries,     \* the files that are embedded
  section,     \* the cells of the section
  paths,       \* where paths begin in it that were not looked at yet
  files,       \* what was extracted, by path
  source       \* the JavaScript that is transformed; Missing before that

RawVars == <<entries, section, paths, files, source>>

Cell(tag, n) == [is |-> tag, n |-> n]

Nul    == Cell("nul", 0)
Scheme == Cell("scheme", 0)      \* file://
Root   == Cell("root", 0)        \* /$bunfs/root/
Marker == Cell("marker", 0)      \* // @bun

IsNul(cell)     == cell.is \in {"nul", "wasm"}       \* the magic of wasm begins with a NUL
Printable(cell) == cell.is \in {"scheme", "root", "name", "marker", "text"}

(* What a cell is where a number is read; text is greater than any kind or size here. *)
Value(cells, k) == IF cells[k].is \in {"nul", "number"} THEN cells[k].n ELSE Len(cells) + 13

(* Where the first NUL is, 0 for none. *)
Terminated(cells) == SelectInSeq(cells, IsNul)

UpToNul(cells) ==
  IF Terminated(cells) = 0 THEN cells ELSE SubSeq(cells, 1, Terminated(cells) - 1)

Rest(cells, k) == SubSeq(cells, k, Len(cells))

-----------------------------------------------------------------------------
(* Paths *)

(* collect_path_occurrences: a path has no character that is not printable. *)
Occurrences(cells) ==
  LET starts(k) == \/ cells[k] = Root
                   \/ cells[k] = Scheme /\ k < Len(cells) /\ cells[k + 1] = Root
  IN {k \in DOMAIN cells :
        starts(k) /\ \A cell \in Range(UpToNul(Rest(cells, k))) : Printable(cell)}

PathAt(k) == UpToNul(Rest(section, k))

(* normalize_virtual_path *)
Normalized(path) == SelectSeq(path, LAMBDA cell : cell # Scheme)

\* Mutant: the marker is looked for up to the end.
AnyMarker(k) ==
  LET after == k + Len(PathAt(k)) + 1
      mark  == SelectInSeq(Rest(section, after), LAMBDA cell : cell = Marker)
  IN IF after > Len(section) THEN Missing
     ELSE IF mark # 0 THEN after + mark - 1 ELSE after

(* find_content_start: behind the NUL, or at a marker that is near. *)
ContentStart(k) ==
  LET after == k + Len(PathAt(k)) + 1
      mark  == SelectInSeq(Rest(section, after), LAMBDA cell : cell = Marker)
  IN IF after > Len(section) THEN Missing
     ELSE IF mark # 0 /\ mark - 1 <= Reach THEN after + mark - 1
     ELSE after

(* The kinds whose end is found by their structure. *)
Bounded == {"wasm", "png", "macho"}

(* detect_kind.  Names end with what they are; html, css and manifests are text. *)
Kind(path, cells) ==
  LET last == path[Len(path)]
      text == cells[1].is = "text" /\ last.is = "name" /\ Extension[last.n] \in {"js", "txt"}
  IN
    IF cells[1] = Marker THEN "js"
    ELSE IF cells[1].is \in Bounded THEN cells[1].is
    ELSE IF text THEN Extension[last.n] ELSE Missing

-----------------------------------------------------------------------------
(* Lengths; a number of cells, Missing if the cells are not of the kind. *)

Larger(m, n) == IF m < n THEN n ELSE m

(* wasm_length: sections in order, as far as whole ones go. *)
WasmLength(cells) ==
  LET from[at \in (1 .. Len(cells) + 1) \X (0 .. 12)] ==
        LET k    == at[1]
            last == at[2]
            id   == Value(cells, k)
            size == Value(cells, k + 1)
        IN IF k > Len(cells) THEN k - 1
           ELSE IF id > 12 THEN k - 1
           ELSE IF k = Len(cells) THEN Missing
           ELSE IF k + 1 + size > Len(cells) THEN k - 1
           ELSE IF id # 0 /\ id < last THEN k - 1
           ELSE from[<<k + 2 + size, IF id = 0 THEN last ELSE id>>]
  IN from[<<2, 0>>]

(* png_length: up to the chunk IEND, here the number 0. *)
PngLength(cells) ==
  LET from[k \in 1 .. Len(cells) + 1] ==
        LET size == Value(cells, k + 1) IN
          IF k + 1 > Len(cells) THEN Missing
          ELSE IF cells[k] = Cell("number", 0) THEN k + 1 + size
          ELSE IF k + 2 + size > Len(cells) THEN Missing
          ELSE from[k + 2 + size]
  IN from[2]

(* macho_length: the furthest end of what a command names.  A command is its size, and
   the offset and size of its data; n of them are left. *)
MachoLength(cells) ==
  LET header == 3
      furthest[at \in (0 .. Value(cells, 2)) \X (Nat \ {0}) \X Nat] ==
        LET n    == at[1]
            k    == at[2]
            size == Value(cells, k)
        IN IF n = 0 THEN at[3]
           ELSE IF k + 2 > Len(cells) THEN Missing
           ELSE IF size < 3 \/ k + size - 1 > Len(cells) THEN Missing
           ELSE furthest[<<n - 1, k + size,
                           Larger(at[3], Value(cells, k + 1) + Value(cells, k + 2))>>]
      end == furthest[<<Value(cells, 2), 4, header + Value(cells, 3)>>]
  IN IF Len(cells) < 3 \/ header + Value(cells, 3) > Len(cells) \/ end = Missing THEN Missing
     ELSE IF end < Len(cells) THEN end ELSE Len(cells)

-----------------------------------------------------------------------------
(* Extraction *)

Length(kind, cells) ==
  CASE kind = "wasm"  -> WasmLength(cells)
    [] kind = "png"   -> PngLength(cells)
    [] kind = "macho" -> MachoLength(cells)

(* The cells in front of the next path, which begins at the bound. *)
Window(start, bound) ==
  SubSeq(section, start,
         IF bound > 1 /\ section[bound - 1] = Nul THEN bound - 2 ELSE bound - 1)

\* Mutant: what is cut off ends with the section.
EndUnbounded(kind, start, bound) ==
  LET cells  == IF kind \in Bounded THEN Window(start, bound)
                ELSE UpToNul(Rest(section, start))
      length == IF kind \notin Bounded THEN Len(cells)
                ELSE IF cells = <<>> THEN 0 ELSE Length(kind, cells)
  IN IF length = Missing THEN Len(section) ELSE start - 1 + length

(* The last cell of a content: nul_terminated_end, bounded_content_end. *)
End(kind, start, bound) ==
  LET cells  == IF kind \in Bounded THEN Window(start, bound)
                ELSE UpToNul(Rest(section, start))
      length == IF kind \notin Bounded \/ cells = <<>> THEN Missing ELSE Length(kind, cells)
  IN start - 1 + (IF length = Missing THEN Len(cells) ELSE length)

(* Where the next path begins. *)
Bound(k) ==
  LET later == {j \in Occurrences(section) : j > k}
  IN IF later = {} THEN Len(section) + 1 ELSE Min(later)

(* The loop of extract_embedded_files: the first content of a path is kept. *)
Carve ==
  /\ paths # {}
  /\ paths' = paths \ {Min(paths)}
  /\ LET at    == Min(paths)
         path  == PathAt(at)
         name  == Normalized(path)
         start == ContentStart(at)
         kind  == IF start = Missing THEN Missing ELSE Kind(path, Rest(section, start))
         end   == End(kind, start, Bound(at))
         file  == [kind |-> kind, at |-> at, content |-> SubSeq(section, start, end)]
     IN files' = IF start = Missing \/ kind = Missing THEN files
                 ELSE IF end > Len(section) \/ name \in DOMAIN files THEN files
                 ELSE [p \in DOMAIN files \cup {name} |-> IF p = name THEN file ELSE files[p]]
  /\ UNCHANGED <<entries, section, source>>

\* Mutant: the first text is taken.
FirstSlice(cells) ==
  IF Marker \notin Range(cells) THEN Missing
  ELSE UpToNul(Rest(cells, SelectInSeq(cells, LAMBDA cell : cell = Marker)))

(* find_best_slice: the longest text from a marker to a NUL, the first of those. *)
BestSlice(cells) ==
  LET starts   == {m \in DOMAIN cells : cells[m] = Marker}
      slice(m) == UpToNul(Rest(cells, m))
      better(m, n) == \/ Len(slice(m)) > Len(slice(n))
                      \/ Len(slice(m)) = Len(slice(n)) /\ m <= n
  IN IF starts = {} THEN Missing
     ELSE slice(CHOOSE m \in starts : \A n \in starts : better(m, n))

(* ExtractedSource::from_path, of an input that is not text as a whole. *)
Slice ==
  /\ paths = {} /\ source = Missing
  /\ source' = BestSlice(Host \o section)
  /\ source' # Missing
  /\ UNCHANGED <<entries, section, paths, files>>

EntryCells(entry) ==
  (IF entry.scheme THEN <<Scheme>> ELSE <<>>) \o <<Root, entry.name, Nul>> \o entry.content
  \o <<Nul>>

RawInit ==
  /\ entries \in Images
  /\ \E tail \in Tails :
       section = FlattenSeq([k \in DOMAIN entries |-> EntryCells(entries[k])]) \o tail
  /\ paths = Occurrences(section)
  /\ files = [path \in {} |-> Missing]
  /\ source = Missing

RawNext == Carve \/ Slice

RawSpec == RawInit /\ [][RawNext]_RawVars

-----------------------------------------------------------------------------
(* What Bun embeds, and into what *)

Tags == {"nul", "wasm", "png", "macho", "number", "scheme", "root", "name", "marker", "text", "break"}

Cells == Seq([is : Tags, n : Nat])

Entry == [scheme : BOOLEAN, name : [is : {"name"}, n : Nat], content : Cells]

Script(content) == content # << >> /\ content[1] = Marker

(* What has a marker is a script: it begins with one and is text. *)
TextOnly(content) ==
  Marker \in Range(content) => Script(content) /\ \A cell \in Range(content) : ~IsNul(cell)

ContentsOf(image) == {image[k].content : k \in DOMAIN image}

(* A marked text of the executable itself ends in it, and is shorter than any script. *)
Short(m) ==
  \E n \in m .. Len(Host) :
    /\ IsNul(Host[n])
    /\ \A image \in Images : \A content \in ContentsOf(image) :
         Script(content) => n - m < Len(content)

ASSUME RawAssumption ==
  /\ \A image \in Images : image \in Seq(Entry) /\ \A content \in ContentsOf(image) : TextOnly(content)
  /\ \A tail \in Tails : tail \in Cells /\ Marker \notin Range(tail)
  /\ Host \in Cells /\ \A m \in DOMAIN Host : Host[m] = Marker => Short(m)

-----------------------------------------------------------------------------
(* Properties *)

Path(k) == <<Root, entries[k].name>>

Done == paths = {}

(* Where the content of the k-th file begins. *)
Offset(k) ==
  Len(FlattenSeq([i \in 1 .. k |-> EntryCells(entries[i])])) - Len(entries[k].content)

Recognised(k) == Kind(Path(k), entries[k].content) # Missing

(* The files whose content is found: no marker of a later file is near; if the end is
   found by structure, that is in the content, and the path has no scheme (else there is a
   second path inside the path, and the content would have to end before it); and no
   zeros follow a wasm file that could be sections. *)
Carvable(k) ==
  LET start == Offset(k)
      stop  == start + Len(entries[k].content)
  IN
    /\ entries[k].content[1] = Marker \/
         \A m \in start .. Len(section) : section[m] = Marker => m - start > Reach
    /\ entries[k].content[1].is \in Bounded =>
         /\ ~entries[k].scheme
         /\ Length(entries[k].content[1].is, entries[k].content) \in 0 .. Len(entries[k].content)
    /\ entries[k].content[1].is = "wasm" /\ stop < Len(section) => ~IsNul(section[stop + 1])

(* README: "carve out embedded BunFS files like index.js, ..., png, txt, wasm, and native
   .node blobs".  Each file that can be told from its neighbours is extracted with its own
   content and nothing else, whatever lies around it. *)
OwnContent ==
  Done => \A k \in DOMAIN entries : Recognised(k) /\ Carvable(k) =>
            /\ Path(k) \in DOMAIN files
            /\ files[Path(k)].content = entries[k].content

(* A PNG whose last chunk has data, which png_length counts without a look at where the
   cells end. *)
Overlong(file) ==
  file.kind = "png" /\ \E i \in 1 .. Len(file.content) - 1 :
    file.content[i] = Cell("number", 0) /\ Value(file.content, i + 1) # 0

(* bounded_content_end: no path begins in a wasm, PNG or Mach-O file, even where its own
   structure is cut off, or was never one. *)
EndsBeforePath ==
  \A path \in DOMAIN files :
    LET start == ContentStart(files[path].at)
        stop  == start + Len(files[path].content) - 1
    IN files[path].kind \in Bounded /\ ~Overlong(files[path]) =>
         \A k \in Occurrences(section) : k \notin start .. stop

(* The text that is transformed when there is no entry point is the whole content of one
   embedded file, if one is marked: neither a part of one nor of the executable. *)
SourceIsAFile ==
  source # Missing /\ (\E k \in DOMAIN entries : Script(entries[k].content)) =>
    \E k \in DOMAIN entries : source = entries[k].content

=============================================================================
