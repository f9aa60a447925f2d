---------------------------- MODULE MCContainers ----------------------------
(***************************************************************************)
(* Instances of Containers for TLC: small executables of the three formats,  *)
(* with the variations that their writers tell apart.  A page has four cells, *)
(* the payload of an input is one byte behind its length.                    *)
(***************************************************************************)
EXTENDS Containers

CONSTANTS MaxElfPayload, MaxMachoPayload, MaxPePayload    \* bounds of the model

PayloadsUpTo(max) == UNION {[1 .. n -> {7}] : n \in 1 .. max} \cup {<<0, 8>>}

AllPayloads == [f \in Formats |-> PayloadsUpTo(CASE f = "Elf"     -> MaxElfPayload
                                                 [] f = "MachO64" -> MaxMachoPayload
                                                 [] f = "Pe"      -> MaxPePayload)]

-----------------------------------------------------------------------------
(* ELF: header and program headers in 0 .. 3; .bun from 4 on, with padding up to
   the segment's end, which need not be the end of a page; then section names,
   section headers, bytes of no section. *)

(* end: where the segment ends; pad: the last byte of the padding; next: a
   section in the padding; names: where the section names begin; table: where
   the section headers are; bss: memory without bytes; note: another program
   header; base: the address of the file's first byte. *)
ElfLayouts ==
  [end : {7, 8, 10}, pad : {0, 5}, next : {0, 1}, names : {0, 1}, table : {"behind", "head", "padding"},
   bss : {0, 1}, note : {"none", "head", "tail", "above", "far", "bss", "empty"},
   base : {40, 41}, writable : BOOLEAN]

ElfHeader(nobits, offset, size, addr) ==
  [nobits |-> nobits, offset |-> offset, size |-> size, addr |-> addr]

(* The other program header: PT_NOTE, or PT_LOAD at the end of the segment's
   memory, with memory or without, or a page behind. *)
ElfNote(l) ==
  [load     |-> l.note \in {"above", "far", "bss", "empty"},
   writable |-> FALSE,
   offset   |-> IF l.note \in {"none", "bss", "empty"} THEN 0 ELSE IF l.note = "tail" THEN l.end ELSE 1,
   vaddr    |-> IF l.note \in {"above", "empty"} THEN l.base + l.end + l.bss ELSE l.base + l.end + 8,
   filesz   |-> IF l.note \in {"none", "bss", "empty"} THEN 0 ELSE 2,
   memsz    |-> IF l.note \in {"none", "empty"} THEN 0 ELSE 2]

ElfByte(l, i) ==
  IF i = 4 THEN 1
  ELSE IF i = 5 THEN 7
  ELSE IF i = 6 /\ l.next = 1 THEN 9
  ELSE IF i = l.end - 1 /\ l.end > 7 THEN l.pad
  ELSE IF i \in 6 .. l.end - 1 THEN 0
  ELSE 10 + i

ElfFile(l) ==
  LET size == l.end + 6 IN
    [size |-> size,
     bytes |-> [i \in 0 .. size - 1 |-> ElfByte(l, i)],
     phoff |-> 1, phend |-> 2,
     shoff |-> CASE l.table = "behind" -> l.end + 2 [] l.table = "head" -> 2
                 [] l.table = "padding" -> l.end - 1,
     shend |-> CASE l.table = "behind" -> l.end + 4 [] l.table = "head" -> 4
                 [] l.table = "padding" -> l.end,
     sections |->
       [x \in {"bun", "next", "names", "zero"} |->
          IF x = "bun" THEN ElfHeader(FALSE, 4, 2, l.base + 4)
          ELSE IF x = "next" THEN ElfHeader(FALSE, 6, l.next, l.base + 6)
          ELSE IF x = "names" THEN ElfHeader(FALSE, l.end - l.names, 2, 0)
          ELSE ElfHeader(TRUE, l.end, 3, 0)],
     segments |->
       [s \in {"data", "note"} |->
          IF s = "note" THEN ElfNote(l)
          ELSE [load |-> TRUE, writable |-> l.writable, offset |-> 0, vaddr |-> l.base,
                filesz |-> l.end, memsz |-> l.end + l.bss]]]

ElfInputs ==
  {ElfFile(l) : l \in {k \in ElfLayouts :
     /\ k.next = 1 => k.end > 7
     /\ k.table = "padding" => k.end > 7 /\ k.names = 0
     /\ k.table # "behind" => k.note = "none"
     /\ k.base = 41 => k.note = "none" /\ k.writable
     /\ ~k.writable => k.note = "none"}}

-----------------------------------------------------------------------------
(* Mach-O: header, load commands and __TEXT in 0 .. 3; __BUN from 4 on; then
   __LINKEDIT of three cells, and a cell of nothing. *)

(* bun: size of __BUN; hole: cells between it and __LINKEDIT; extra: memory of
   __BUN without bytes; data: where a further segment is; table, note, crypt: the
   references; section: the address of the section header. *)
MachoLayouts ==
  [bun : {4, 6, 8}, hole : {0, 1}, extra : {0, 4}, data : {"none", "head", "tail", "bss", "empty"},
   table : {0, 1, 3}, note : {"none", "head", "inside", "behind"},
   crypt : {"none", "plain", "encrypted", "fileset"}, section : {0, 1}]

MachoCommand(fileoff, filesize, vmaddr, vmsize) ==
  [fileoff |-> fileoff, filesize |-> filesize, vmaddr |-> vmaddr, vmsize |-> vmsize]

MachoRef(kind, offset, size, crypt) ==
  [kind |-> kind, offset |-> offset, size |-> size, crypt |-> crypt]

MachoFile(l) ==
  LET end  == 4 + l.bun
      link == end + l.hole
      size == link + 4
      top  == 100
  IN
    [size |-> size,
     bytes |-> [i \in 0 .. size - 1 |->
                  IF i = 4 THEN 1 ELSE IF i = 5 THEN 7 ELSE IF i \in 6 .. end - 1 THEN 0 ELSE 10 + i],
     commandsEnd |-> 3,
     segments |->
       [s \in {"bun", "linkedit", "data"} |->
          IF s = "bun" THEN MachoCommand(4, l.bun, top, l.bun + l.extra)
          ELSE IF s = "linkedit" THEN MachoCommand(link, 3, top + l.bun + l.extra, 4)
          ELSE CASE l.data = "none" -> MachoCommand(0, 0, 0, 0)
                 [] l.data = "head" -> MachoCommand(0, 4, 40, 4)
                 [] l.data = "tail" -> MachoCommand(link + 3, 1, 40, 4)
                 [] l.data = "bss"  -> MachoCommand(0, 0, 40, 4)
                 [] l.data = "empty" -> MachoCommand(0, 0, top + l.bun + l.extra, 0)],
     section |-> [offset |-> 4, addr |-> top + l.section, size |-> 2],
     refs |->
       [r \in {"table", "note", "crypt"} |->
          IF r = "table"
          THEN MachoRef("linkedit", IF l.table = 0 THEN 0 ELSE link + l.table,
                   IF l.table = 3 THEN 0 ELSE l.table, FALSE)
          ELSE IF r = "note"
          THEN CASE l.note = "none"   -> MachoRef("note", 0, 0, FALSE)
                 [] l.note = "head"   -> MachoRef("note", 1, 2, FALSE)
                 [] l.note = "inside" -> MachoRef("note", link, 1, FALSE)
                 [] l.note = "behind" -> MachoRef("note", link + 3, 1, FALSE)
          ELSE CASE l.crypt = "none"      -> MachoRef("encryption", 0, 0, FALSE)
                 [] l.crypt = "plain"     -> MachoRef("encryption", 0, 2, FALSE)
                 [] l.crypt = "encrypted" -> MachoRef("encryption", 2, 2, TRUE)
                 [] l.crypt = "fileset"   -> MachoRef("fileset", 1, 1, FALSE)]]

(* One deviation from Bun's layout at a time. *)
MachoInputs ==
  {MachoFile(l) : l \in {k \in MachoLayouts :
     /\ k.hole = 1 \/ k.extra = 4 \/ k.bun = 6 \/ k.section = 1 =>
          /\ k.table = 1
          /\ k.note \in {"none", "inside"}
          /\ k.crypt = "none"
          /\ k.data \in {"none", "head"}}}

-----------------------------------------------------------------------------
(* PE: headers in 0 .. 1; .text in 2 .. 3, at address 4; .bun from 4 on, at
   address 12; then a section that is not the last one, or an overlay. *)

(* raw: raw size of .bun; other: a further section; symbols, entry: file
   pointers; debug: where the debug directory is. *)
PeLayouts ==
  [raw : {2, 4, 5}, other : {"none", "before", "behind", "bss", "above"},
   symbols : {"none", "text", "first", "last"}, entry : {"none", "first", "last"},
   debug : {"none", "text", "nowhere"}, signed : BOOLEAN, pe64 : BOOLEAN]

PeHeader(vsize, vaddr, raw, ptr) ==
  [vsize |-> vsize, vaddr |-> vaddr, raw |-> raw, ptr |-> ptr]

PeOther(l) ==
  CASE l.other = "none"   -> PeHeader(0, 0, 0, 0)
    [] l.other = "before" -> PeHeader(4, 8, 0, 0)
    [] l.other = "behind" -> PeHeader(1, 8, 2, 4 + l.raw)
    [] l.other = "bss"    -> PeHeader(3, 20, 0, 0)
    [] l.other = "above"  -> PeHeader(1, 20, 2, 4 + l.raw)

PePlace(l, name) ==
  CASE name = "none"  -> [offset |-> 0, size |-> 0]
    [] name = "text"  -> [offset |-> 2, size |-> 2]
    [] name = "first" -> [offset |-> 4 + l.raw, size |-> 1]
    [] name = "last"  -> [offset |-> 4 + l.raw + 1, size |-> 2]

PeFile(l) ==
  LET size     == 4 + l.raw + 3
      sections == [x \in {"text", "bun", "other"} |->
                     IF x = "text" THEN PeHeader(2, 4, 2, 2)
                     ELSE IF x = "bun" THEN PeHeader(2, 12, l.raw, 4)
                     ELSE PeOther(l)]
  IN
    [size |-> size,
     bytes |-> [i \in 0 .. size - 1 |->
                  IF i = 4 THEN 1 ELSE IF i = 5 THEN 7
                  ELSE IF i \in 6 .. 3 + l.raw THEN 0 ELSE 10 + i],
     headersEnd |-> 2,
     signed |-> l.signed,
     pe64 |-> l.pe64,
     imageSize |-> IF l.other \in {"bss", "above"} THEN 24 ELSE 12 + AlignUp(l.raw, SectionAlign),
     sections |-> sections,
     pointers |-> [p \in {"symbols", "entry"} |->
                     IF p = "symbols" THEN PePlace(l, l.symbols)
                     ELSE IF l.debug = "none" THEN PePlace(l, "none") ELSE PePlace(l, l.entry)],
     debug |-> CASE l.debug = "none" -> [rva |-> 0, size |-> 0]
                 [] l.debug = "text" -> [rva |-> 4, size |-> 1]
                 [] l.debug = "nowhere" -> [rva |-> 9, size |-> 1]]

PeInputs == {PeFile(l) : l \in {k \in PeLayouts : k.signed => ~k.pe64}}

-----------------------------------------------------------------------------
AllInputs == [f \in Formats |-> CASE f = "Elf"     -> ElfInputs
                                 [] f = "MachO64" -> MachoInputs
                                 [] f = "Pe"      -> PeInputs]

=============================================================================
