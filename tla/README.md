# A TLA+ model of debun

debun takes a Bun standalone executable apart (`unpack`), puts edited files
back into it (`pack`), turns the edits into a portable bundle (`patch`) and
applies such a bundle to an executable (`apply-patch`).  This directory models
the parts of it that keep state, that run next to other processes, or whose
correctness is a statement about more than one call: what a reader of the
output file sees, what `pack` finds in a workspace that something else is
writing, what patches mean and how they travel, how the container writers move
bytes, whether a bundle that was taken apart still does what it did, and what
the readers make of bytes that are not what they should be.

Two kinds of evidence are used.  TLC checks each module on a small instance
(the `.cfg` files); TLAPS checks proofs that hold for every value of the
constants (the `*Proofs.tla` modules).  PROJECT.json maps each definition to the
source lines it stands for.

    tlc -workers 2 -config AtomicFile.cfg MCAtomicFile.tla
    tlapm AtomicFileProofs.tla

## 1. Inventory

Paths are relative to `src/src/`.

| component | state | operations | hard part | what makes it correct |
|---|---|---|---|---|
| output writer, `pack_support.rs` | destination file, temporary siblings | `write_repacked_executable`, `write_atomic_file`, `create_temporary_sibling`, `replace_destination`, `resign_if_needed` | other runs, failing calls, kills, power loss | the destination is always complete; temporary files are private and do not pile up |
| workspace, `output/writer.rs`, `output/mod.rs` | `.debun/` (base executable, original path), `embedded/`, reports | `write_outputs`, `replace_pack_support`, `write_embedded_outputs`, `write_new_file` | a run interrupted or overtaken at any call | the base executable is never partial or lost; the files and the base belong together |
| pack, `pack.rs` | none of its own: reads the workspace, writes the output | `pack_binary`, `collect_replacements` | reads the base once and then file after file | what it writes is the base of one run with the files of that run and the edits |
| patch, `patch.rs` | the patch file | `create_patch`, `apply_patch`, `build_replacements`, encode / decode | applied to other releases, twice, after other patches | a patch means what pack means, and never overwrites a part it was not made for |
| validation, `replacement_workspace.rs` | - | `validate_workspace_files`, `read_module_part` | absent, empty, unknown and decoded files | nothing is ignored silently |
| standalone graph, `standalone/{model,parse,write}.rs` | module table, body, footer | `inspect_executable`, `repack_executable` | five record layouts, which are guessed from sizes | what is written is read back |
| containers, `standalone/{container,layout}.rs` | payload range of the file | `extract_container`, `parse_offsets`, `write_appended_payload` | a length prefix of two widths, footer or section | the payload read is the payload written |
| ELF writer, `standalone/elf.rs` | section and program headers, file bytes | `write_bun_section`, `relocate_elf_tail` | growth in place, growth at the end of the segment, repeated repacks | all other sections and segments keep their bytes and addresses |
| Mach-O writer, `standalone/macho.rs` | load commands, file bytes | `write_bun_section`, `shift_linkedit_offsets` | every file offset behind `__BUN` moves exactly once | the same |
| PE writer, `standalone/pe.rs` | section table, optional header, overlay | `write_bun_section`, overlay and debug pointers, checksum | file and memory alignment, unsigned files only | the same |
| renamer, `js/rename.rs` | names given so far, per scope | `rename_symbols`, `next_name` | shadowing and capture | no reference changes its binding |
| JavaScript pipeline, `js/*.rs` | one program text | parse, unbundle, transform, print (crate oxc) | done by the library | - |
| splitting, `split/*.rs` | candidates, names taken, statements assigned | `collect_candidates`, `extract_modules`, `assign_file_names` | statements between candidates, equal names | every statement is in one module |
| reference rewriting, `rewrite/*` | targets, dependencies, exports | `plan`, `analyze` | cycles between modules | each reference reaches the declaring module |
| module runtime, `output/runtime.rs` | whether a module was initialised | `createLazyInit`, `createCommonJs` | cycles and throwing modules | each module runs once |
| sidecar decoders, `standalone_decode/*` | cursor in a byte string | `decode_module_info`, `decode_sourcemap` | lengths and counts from the file | no read past the end, no loop without progress |
| raw extraction, `embedded/raw/*`, `embedded/detect.rs` | files found so far | `extract_embedded_files`, `detect_kind` | neighbours, marks and lengths inside of contents | a file is extracted with its own content |
| source extraction, `extract.rs` | - | `find_best_slice` | texts that mention the marker | the source is one whole file |
| workspace paths, `workspace_path.rs` | - | pure functions | `..`, absolute paths, symlinks | a path stays in its root |
| command line, `args/*`, `main.rs`, `lib.rs` | parser position, options | `parse_args`, `default_*` | options and places that name the same thing, dots in names | nothing that is given is dropped, no original is overwritten by default |
| reports, `output/{manifest,summary,state}.rs`, `json.rs`, `binary.rs` | - | formatting, byte reads | - | - |

How they interact.  `unpack` inspects its input with the standalone graph
(which asks the containers for the payload), and hands the result to the
workspace writer and, if a JavaScript entry was found, to the JavaScript
pipeline, splitting and rewriting.  `pack` and `patch` resolve the workspace,
inspect the saved base executable again, validate the files against it and
compare them part by part.  `pack` and `apply-patch` turn replacements into a
new payload, let the container writer place it, and give the bytes to the output
writer.  There are no threads and no messages inside one run: the concurrency is
between runs of the program, the user and the file system, and the shared state
is the workspace and the destination.  The behaviours that are hard to test are
listed as `hazards` in PROJECT.json, each at its line.

## 2. Modules

    AtomicReplace                       what an output writer promises
      ^ implemented by
    AtomicFile  <- MCAtomicFile         pack_support.rs, call by call
      ^ AtomicFileProofs

    Standalone                          record layouts, parts, repack
      ^ EXTENDS
    PackPatch   <- MCPackPatch          unpack, edit, pack, patch, apply-patch
      ^ PackPatchProofs

    Standalone  promises what is read back in
    Payload     <- MCPayload            cells of a payload, and the guesses of its reader

    Workspace   <- MCWorkspace          .debun and embedded, call by call
      ^ WorkspaceProofs

    BunSlot                             what a container writer promises
      ^ implemented by
    Containers  <- MCContainers         a file of one format, repacked again and again
      | INSTANCEs
    ElfSection, MachoSegment, PeSection the writers; they EXTEND FileBytes
                                        (gaps, payloads behind a length)
      ^ ContainersProofs

    Rename      <- MCRename             new names for symbols
      ^ RenameProofs

    Bundle                              what a bundle does when it runs
      ^ implemented by
    SplitBundle <- MCSplitBundle        split, rewrite, unbundle, and the runtime
      ^ SplitBundleProofs

    ByteWords                           strings of bytes with numbers in them
      ^ EXTENDS
    PatchFile   <- MCPatchFile          the patch file, written, damaged and read
    Sidecars    <- MCSidecars           module_info and sourcemaps
    RawExtract  <- MCRawExtract         carving files out of a section
      ^ ByteWordsProofs                 about these three

    CommandLine <- MCCommandLine        arguments and default paths
      ^ CommandLineProofs

`Workspace` and `PackPatch` are two views of one system.  `PackPatch` takes each
command as one step and looks at what it does to parts; `Workspace` takes each
system call as a step and looks at which run wrote what.  Both refer to
`AtomicFile` for the last step of a command: a command that fails there leaves
its output alone.  `Payload` says how the parts of `Standalone` become a payload and
what the reader makes of it; the three writers start where `Payload` ends, with a
payload that is a string of bytes, and say where in the file it goes.

### AtomicFile

A run (`w \in Writers`) goes through the labels of `pc`, one per system call of
`write_atomic_file_with`: `stat` (only `write_atomic_file` asks the destination
for its permissions), `parent`, `create` (one turn of the loop of
`create_temporary_sibling` per step), `write`, `perm`, `sync`, `finalize`,
`replace`, and `discard` for the clean-up. Files are records: whose content,
whether all of it was written, whether the permissions were set, whether the
finalizer reworked it, whether its data is on the disk. `dest` is the
destination, `temps` the temporary names `.<name>.debun-tmp-<pid>-<n>`. The
process id of a run is chosen freely in `Init`, so two runs may have the same
one (containers that share a directory, an id used again after a crash). The
process-wide counter of the code is the number of names the run has tried,
because a command writes one output.

The surroundings: `Kill` between any two calls, `UserDeletes`, and a power loss.
The code syncs the data of a file but not its directory; so `survivors` holds
every version of the destination since the journal was last committed
(`Settle`), and `PowerLoss` picks one of them, torn if its data was not synced.

`AtomicReplace` is the abstract specification: `content` changes in one
step to the content of a run, which then is "ok"; a run that ends in "error"
never changed it; power loss goes back to a `fallback`.

### Standalone and PackPatch

An executable is a record layout, a container, the room in it, and a map from modules to
parts (`contents`, `sourcemap`, `bytecode`, `module_info`).  `Repack` is
`repack_executable` followed by the inspection of its result: a part the layout has no
pointer for is gone, and a part of length zero reads back as absent (`optional_part`).

Whether a write is refused depends on what is written.  Each byte string has a `Length`;
what else a payload has in it stays the same, so that the sum of the lengths (`Size`) is
compared with the room.  Of the containers there is what they do to it: a signed PE file
takes nothing (`signed`); one that can grow has more room than anything is large, and one
that cannot (32-bit Mach-O, ELF with bytes behind `.bun` that are not zero but named by a
header) keeps its room (`lasting`); an ELF file whose section is followed by bytes that
no header names and that are not zero has as its room the section, which after a smaller
write is smaller (`shrinking`).  So two patches of disjoint parts that fit one by one may not fit
together, which `DisjointPatchesCommute` says: the second is refused only for want of room,
and by both orders alike unless the room shrinks.

`PackPatch` has
an action for each command and for each thing a user does to a workspace: write
or remove a file, touch a decoded helper, leave a symlink or an unknown file,
take another release.  SHA-256 is taken to be injective.  That the layout
detected after a repack is the one before it is an assumption of this module,
and a property of `Payload`.

### Payload

A payload does not say which of five record layouts, which of two offsets layouts
and which width of the length prefix it has.  `Serialize` is `serialize_payload`:
strings, the module table, the offsets and the trailer.  `Written` is
`write_container`, and `Inspected` undoes both the way `container.rs` and
`parse.rs` do: `WidthOf` tries a length of 8 bytes and then one of 4,
`DetectOffsets` takes the first layout whose byte count and pointers fit, and
`DetectRecords` reads the table in each layout whose record size divides it and
takes the one with the most modules under the BunFS root.

The unit is the cell.  A cell is a word of four bytes or a piece of text, and of text
the reader tells apart only the BunFS prefix, control characters (a terminator is a
zero) and bytes that are not UTF-8.  The variable `file` has the cells; `binary`
is what the executable holds if `Standalone` is right, and every `Repack` applies
`Standalone!Repack` to it.  The four containers are the ones that differ for the
payload: appended, a section that fits its payload exactly (ELF), one that keeps
its room (PE, and 64-bit Mach-O), one that cannot grow (32-bit Mach-O).

`RefusesAsPromised` compares refusals with those of `Standalone`, whose room is worked out once,
for the first executable (`Room`): terminators, pointers and what is copied must take up the same
number of cells after any number of repacks, or a write that `Standalone` promises is refused.

### Containers, ElfSection, MachoSegment, PeSection

`Containers` is `write_container`: the format of a file is found once and chooses the
writer.  The writers have one variable, `file`: its bytes as a function on offsets, and the headers as
fields of a record, together with the place where the file has them.  There is an
action for each way a writer takes: into the room there is, or after making more
of it.  An action's guard is every check of the code, and a write that is refused is
no step.  `Inputs` are executables, so each writer says what makes one
(`Valid`, which `StaysLoadable` checks after every write, too): tables and sections
lie in the file, `.bun` has room for its length, segments do not share memory.  A segment of no
size occupies none, wherever its address is: linkers put such segments at the end of
another one, and a writer may well grow that one over the address.
`BunSlot` is the promise all three share: the payload is another one, the address
of `.bun` and whatever else headers point to stay.  `SwapsPayloadOnly` is that
promise under a refinement mapping that follows each header to the bytes it names,
which is why a header that is shifted wrongly shows.

- ELF: `WriteInPlace` uses the zero padding behind `.bun` as far as the segment and
  the next thing in the file allow (`Capacity`); `Relocate` lengthens the segment by
  whole pages and moves section headers and unmapped sections back.
- Mach-O: `WriteInPlace`; `Grow` lengthens `__BUN` by whole pages and shifts
  `__LINKEDIT` and every load command that points behind `__BUN`.  The commands are
  four kinds of references that the code treats differently.
- PE: `Write` rounds to file and section alignment, moves the overlay, and
  shifts the symbol table and the debug directory with it.

### Workspace

Each unpack run goes through the calls of `replace_pack_support` (create the
staged directory, copy, write the path file, remove `.debun` entry by entry,
rename) and `write_embedded_outputs` (remove `embedded` entry by entry, make
it, create and fill each file with `create_new`).  A directory and a file carry
the run that created them, which is what the kernel knows them by: a
`remove_dir_all` works on the directory it opened, a write on the file it
created.  A run may fail at each call or be killed.  `fs::copy` opens the input
a second time, so it may copy another executable than was inspected.  A
pack run reads the base, its permissions and then file after file.

An input is one of three kinds.  With a module graph, `.debun` and `embedded` are replaced.
Without one but with raw sections (`Graphless`), the carved files are still written to
`embedded`, and `.debun` is removed.  One in which nothing is found (`Plain`) leaves neither.

### Rename

The symbols of a program get their turns in an order that the module leaves open.
`Keep`, `TakePreferred` and `TryGenerated` are what `rename_symbols` does at a turn, the
last once per turn of the loop in `next_name`.  A name is a word and an ordinal:
`<<"var", 2>>` is `<module>_var_2`.  `local_name_available` compares a new name with those
of the symbol's own scope only.  `BindingsKept` asks whether that is enough, by
comparing what each name means in each scope before and after.

### Bundle and SplitBundle

`Bundle` is a JavaScript engine that runs a bundle: bodies of modules behind
wrappers, variables all of them share, functions that change a variable.  It is
external.  `SplitBundle` is `build_split_modules` as a function from a bundle to
files, one operator for each pass of the code, and then the engine again on these
files: `Load` is `require`, `Call` a rewritten call of a wrapper, `Start` and
`CallStarted` the two ways through `createLazyInit`.  A body is cut into expressions;
an expression calls a wrapper, sets, uses or changes a variable.

The passes matter because each looks at a text that another has changed:
`FinalExports` completes the exports of a module with the names that are bound nowhere
after its calls were rewritten, `Narrowed` reduces what a call binds to names the
raw text needs, and `Rewritten` turns operands of a comma into functions in
which such names are bound.  Where names are bound (`declared`, `local`, `inner`)
decides which value a `Use` sees.

The first pass, which looks for exports of lazy modules, fails if a rewritten text does not parse
(`Splits`).  The second is best effort (`js/transform.rs:58`): of such a text
nothing is left, and an empty file is written (`LoadEmpty`).  A lazy module that requires an
empty file for a function to call fails; the call of a CommonJs module is only its `require`,
which returns `{}`, and goes on as if the body had run.  `AllRan` therefore leaves out
the bodies of empty files and what only they would have called.  A file with a name that is declared by
`let` and by `var` parses, as far as the code looks, but the engine refuses it.

`RunsLikeBundle` says that the files implement `Bundle`, for bundles that are
`Direct`: renamed, each variable declared behind the wrapper of one lazy module,
changed by that module's body only, and used by modules that called it before, in
statements of their own; no cycles.  Outside of that the files do differ, by
design of the code: a lazy module returns values, not variables, so that later
changes are not seen (a re-export, a function that sets a variable after its module
has returned); names in front of the first wrapper, or in the statement of a
wrapper, belong to no file; a call that starts the bundle is put into the last module,
where it names that module itself or runs too early; bundles that are not
renamed get no implicit exports; and a name that nobody exports is declared again by each
module that looks at it.  For bundles of all sorts the other properties
say what still holds: statements are given out once, every body that ran in the bundle runs unless
its file was written empty, and a name is missing inside of a cycle only.  Assumed: each helper wraps two modules at least, so that it is
recognised, and names are as `rename_symbols` makes them.

### ByteWords and PatchFile

`Written` is the file that `write_patch_bundle` makes.  `Damage` cuts it, lengthens it
or changes one byte, and then `parse_patch_bundle` reads it, an action for each
field (`pc` is the field, `at` the offset).  A byte has five values and a length
is one byte, so that lengths that do not fit exist.  The number of records is
believed until the bytes end, as in the code, which allocates nothing for it.  A bundle has one
record for a part of a module, because `create_patch` goes through modules and parts once;
this takes the modules of an executable to have different paths, which is Bun's doing.

### Sidecars

`InfoBytes` and `MapBytes` are Bun's writers, `DecodeInfo` and `DecodeMap` the decoders
of debun.  A field is read with `Take` or `TakeCounted`, and a missing one makes the
rest `None`, as `?` does.  In module_info the fields lie one behind the other,
the kinds padded to whole words; numbers near the largest one stand for names that are
in no table.  In a sourcemap, pointers go anywhere.  A compressed frame is a mark
and a size: zstd is external, and what counts is how much there is and who stops it.
The limit is one on bytes: the text that `from_utf8_lossy` makes of them, which may be up to three
times as large, is not modelled.  Of names and mappings it is (`Lossy`): bytes that are no text
are replaced.
`WellFormed` is what is assumed of the bytes, of what is no text (names and attributes with
numbers of their own, and `None`) and of what Bun records: a record has as many names as
its kind, there are no flags but the two that debun shows, no source is beyond the limit,
and a sidecar is no larger than the numbers in it can say.  TLC evaluates it for the
instance of the run, as `SidecarsAssumption`.  The specification is called `SidecarSpec`, and
its parts likewise, because `ByteWordsProofs` extends this module, `PatchFile` and
`RawExtract`.

### RawExtract

The unit is a cell again: a NUL, a prefix of a path, a name, a marker, a magic
number, a number, or text.  `section` has the files as Bun lays them out, a
path and a content each with a NUL behind it.  `Carve` is a turn of
the loop of `extract_embedded_files`, for the first of the paths that are left; `Slice` is
what `ExtractedSource` takes when there is no entry point.  The lengths of wasm, PNG and
Mach-O files are recursive functions on places, since they are proved about.
`Carvable` is the condition under which `OwnContent` holds for the images of the run; what it
excludes is in section 5.  `RawAssumption` is what the code relies on when it looks for the source:
a content with a marker in it is a script, begins with the marker and has no NUL; and a
marked text of the executable itself (the runtime has some) has a NUL behind it
and is shorter than any script, which is why `find_best_slice` takes the longest.

### CommandLine

One step per argument.  A path is a directory and the parts of a name between
dots, since all that the defaults do is to look at dots.  `source` remembers which
argument each value came from, and `given` which slot each argument was given to: an
argument may be overridden only by an option that names the very slot it had
(`Accounted`).

## 3. Runs

| run | instance | states | shows |
|---|---|---|---|
| `atomic_file` | a re-signing packer, a packer, a patch writer; one process id; 2 names each | 633 k | the destination is complete, temporary files are exclusive and are cleaned up, the calls implement `AtomicReplace`, every run ends |
| `pack_patch` | 2 extracted modules, 1 foreign, byte strings of length 0, 1 and 2, 5 releases of 3 kinds of containers, 2 edits | 598 k | patch and pack agree, patches are harmless twice, commute when disjoint as far as there is room, change only what was meant; pack keeps every file |
| `workspace` | 2 unpack runs (one fed with the saved base) and a pack run, 2 versions, an executable with raw sections and a plain one, 1 edit | 10.3 M | the base is never partial, is not lost by a kill; the files are of one run; pack puts together one run's base with its files and the edits |
| `workspace_original` | 1 unpack run fed with the saved base | violation | the finding of section 5 |
| `payload` | 170 executables, 2 to 13 modules, 10 replacements, any number of times | 6.8 k | layouts and widths are guessed right, what is read back and what is refused is what `Standalone` says |
| `containers` | 2308 ELF, Mach-O and PE files that deviate from the usual layout in one or two places, empty segments among them; pages of 4 cells, alignments 2 and 4, payloads of 1 to 12 | 15 k | the file stays loadable, memory keeps its values, room to write is not lost, only the payload changes |
| `patch_file` | 6 k bundles of up to two records, five values of a byte | 194 k | only what `create_patch` writes is accepted, and what arrives whole is understood |
| `split_bundle` | bundles of four modules with two variables and a function: those without cycles, and those with cycles, commas, calls at the top, declarations anywhere | 69 k | statements are given out once, all bodies run but those of empty files, names are missing in cycles only; the files of a direct bundle implement `Bundle` |
| `sidecars` | all kinds of records, requests, names and sizes, each whole or with one damage; ten values of a byte, one of them no text | 233 k | what Bun recorded is shown, a part of it never is, nothing unfolds beyond the limit |
| `raw_extract` | up to 3 files of 5 names and 13 contents, 4 ends of the section | 66 k | a file has its own content and ends before the next path; the source is a whole file |
| `command_line` | all lines of up to 4 of 12 arguments, names with dots at all places | 324 k | nothing is dropped, no original is a default output, neighbours have outputs of their own |
| `rename` | 7284 programs: 3 symbols in 3 scopes, nested or side by side | 30 k | names of a scope stay distinct, no generated name captures a reference, the loop ends |

Why the bounds are enough. Three symbols are one that is renamed, one that holds
the new name and one that holds the next; three scopes put them around each
other or side by side. Temporary names collide as soon as two runs share a
process id, and run out at two (`MaxAttempts`, 32 in the code), since the third
run finds both taken. One power loss per behaviour: runs do not survive it, and
a second one has only a settled state to hit. Two edits reach every pair of a
changed part and another changed part, a helper or an unknown file, and together
with another release the case where a patch is made, the workspace is edited
again and both patches are applied in either order; the proofs of section 4
remove this bound. Two embedded files, contents and a sidecar, are the smallest
set where a run can stop between two files, and where a missing file means
"remove" for one and "refuse" for the other. The tables of `payload` have as
many modules as another layout's record has words, the smallest number for which
both sizes divide the table; all record sizes have no common factor, so these
are all the collisions there are, up to multiples. The writers' payloads reach
from one byte to past the second page, so that a file grows twice, by one page
and by two, and shrinks between; segments end at the end of a page and within
one. Their states stay few because a file returns to what it was.  `workspace` has two
unpack runs because the harm a run can do, it does to one other, and one of them
is fed with the saved base; its runs forget what they will not use again, which
keeps the states apart that matter.  No run uses symmetry.

Two records are what a duplicate needs, and a byte that is not text, an empty and an
overlong content are the cases of a field; every damage of one byte, and every length to
which a file can be cut, is tried.  Words of two bytes in `Sidecars` give padding of none and
one, and three records a buffer in which widths differ.  Four modules allow a cycle of
three with one outside of it, an export that is used through another module, and a module that
needs two others; two operands and four are the shortest comma and one whose tail
has calls of its own.  Three files are one that is looked at and one on either side.
Four arguments are a command, an option with its value, and a path.

Deadlock is checked for `PackPatch` only; in the other modules the runs end and
nothing is left to do, or every payload of the instance is refused.

Fairness. `AtomicFile` has `WF_vars(Advance(w))` for each run: a process that is
not killed goes on to its next call. It is the operating system's scheduling,
not a promise of the code, and nothing is assumed of failures, kills or the
user. `Rename` has `WF_vars(Next)`: a sequential loop goes on. The loop over
temporary names ends because its counter is bounded, the one over symbol names
because the ordinals are never used again.

## 4. Proofs

`AtomicFileProofs` (any number of runs, process ids and attempts; constants as
in `ConstantsAssumption` and `NoFileAssumption`):

- `TypeCorrect`, `TempsExclusive`, `DestAlwaysComplete`, `NoTempsLeft`:
  `Spec` implies the type invariant and the three invariants of `atomic_file`.
- `Refinement`: `Spec` implements `AtomicReplace!Spec`.

None of the invariants is inductive.  `DestComplete` says nothing of the file a
run is about to rename, `NoLitter` nothing of the files in `survivors`, and
exclusiveness needs to know why a name a run holds cannot be given to another.
The inductive invariant adds: a run that holds a name owns the file under it
(`Owned`), the file has reached the stage its `pc` says, all survivors are
complete files, and what is synced.  Exclusiveness then follows because a file has one owner,
and `create_new` only creates under a free name.  Refinement follows from the same invariant: the only step
that changes the content of `dest` by a run is `Replace`, and it moves a file
of that run.

`PackPatchProofs` (any set of modules, byte strings, releases and edits):

- `TypeCorrect`: executables keep to what their record layout can hold.
- `PatchAndPackAgree`: on a workspace that patch accepts, applying the patch to
  the base is possible exactly if pack is, with the same result.
- `ReapplyIsHarmless`, `PatchesCommute`: about patches on any executable, whatever its
  container takes.
- `AppliedChangesWereMeant`: an applied patch changes only parts that were the
  base's; they become the user's, or are gone where that is an empty sidecar or the record
  has no field for it, and all other parts stay.
- `PackKeepsTheFiles`: pack and unpack give the files back, but for empty
  sidecars and parts without a field.

The inductive invariant is `TypeOK` and `PatchOfOrigin`: the patch file is what
`Records` yields for the base and the files it was made of, which were accepted.
The rest are lemmas about `Repack` and `ReadBack` (which parts they change, that
reading back twice changes nothing more) and about room: what fits is a matter of the
modules alone, and both orders of two patches end in the same ones (`Commute`).

`RenameProofs` (any programs, scopes and numbers of symbols):

- `TypeCorrect`, `ScopesStayDistinct`: two symbols of a scope never share a name.
- `BindingsAreKept`: what a reference means is kept, but for names that are preferred
  or belong to imports.

Neither of the last two is inductive. The invariant adds what is known of
symbols whose turn is over: a name that looks generated was counted in this run
(`Counted`) and given once (`GivenOnce`), because a symbol that keeps its name
at its turn is an import or has a name that does not look generated
(`KeptName`); any other name is the one that was parsed or is preferred. So a
name that looks generated has one owner in the whole program at the end, and any
other has only owners it had before.

`WorkspaceProofs` (any number of unpack and pack runs, executables, embedded files and
edits; constants as in `WorkspaceAssumption` and `NoneAssumption`):

- `TypeCorrect`, `BaseIsWhole`, `BaseIsNotLost`, `TreeIsOfOneRun`, `PackIsCoherent`: the type
  invariant and the four properties of the run `workspace`.

The inductive invariant has these parts.  `Staged`: what a run has in its staged
directory, by where it is; from there comes every base executable, so that the
one in `.debun` is whole, and a run removes `.debun` only while it holds a whole
successor.  `Sessions`: a run that may write is in `since`.  `OneLeads` is the
reason why files do not mix: as soon as every run of `since` has emptied
`embedded`, the last one to do so finds nothing there, and from then on every file
it has made is its own, because a run that unlinks files is not past the
emptying, and one that would create the same file again fails.
`GraphlessLeavesNone` (a run without a module graph that has ended has removed
`.debun`) and `PackReads`: a pack run that found the work of one run reads its base
and, by `OneLeads`, its files, until another run starts to write.

`ByteWordsProofs` (any number of values of a byte, of bytes of a number and of a hash, any
bundles and files; constants as in `WordsAssumption`, `TextAssumption`, `SizesAssumption`,
`BundlesAssumption` and `NoneAssumption`):

- `RecordsAreUnique`: no file, however it came about, has two records for a part.
- `OnlyWrittenIsAccepted`: a file that is accepted is what the writer makes of the
  bundle that was read.
- `PatchIsUnderstood`: a file that arrives as it was sent is not refused, and what is read is
  what was sent.

The proof goes from numbers to readers to steps.  `NumberOfWord` and `WordOfNumber`: a number up to
`MaxWord` is read as it was written, and each string of bytes of that size is how its
number is written; both by induction over the digits, which is written out here (`UpTo`), as is the
existence of what a recursive function is (`Recursion`).  For each reader two lemmas:
what it returns stands at its offset (`...Gives`), and what the writer put at an offset is
what it returns (`...Finds`).  The invariant: the bytes in front of the offset are the text of what was
read (`ReadSoFar`), and as long as the file is the one that was written, what was read is
the beginning of what was sent (`Arrives`).  The second needs that no two
records sent are for one part, or the reader would refuse them.

The same module proves about the sidecars, for any records, requests, names, sources and
sizes of which `SidecarsAssumption` holds:

- `SidecarShown`: as long as nobody changed a sidecar, the decoder shows what was recorded.
- `SidecarWhole`: no beginning of a module_info that is shown is shown.
- `SidecarLimited`: a sourcemap, of whatever bytes, unfolds to no more bytes than the limit for
  every pair of pointers that fits in it.

The writers put fields one behind the other, so each stands where the ones in front of it
end (`PartsStand`), and a count and its elements are found there (`CountedFinds`).
`FieldsSmall` is why every number fits in a word: whatever it counts is a part of the
sidecar.  `IdOfName` and `IdOfAttribute` need that the table of strings leaves room for the
numbers that stand for something else; it does, since three words with other counts
are in the sidecar too.  `WordsOfFlat` and `PiecesOfFlat` take the words and
strings apart again, `MeaningOf` puts the records together.  In a sourcemap,
`PointersAre` follows each pointer to its text.  What Bun records is text, and of
text the lossy conversion leaves everything (`LossyText`).  `SidecarWhole` follows from the last step:
what can be read from the beginning of some bytes is read from all of them
(`PrefixCounted`), and ends at the same offset, which cannot be the end of both.
`SidecarLimited` holds since each source needs two pointers in the table (`MapUnfolds`).

And about raw extraction, for any files, any end of the section and any executable around
it of which `RawAssumption` holds:

- `SourceIsWhole`: the text that is transformed is the whole of one script.
- `CutInFront`: what is cut out as a wasm, PNG or Mach-O file ends in front of the next
  path, whatever the section holds; a PNG aside whose last chunk has data.

For the first, every marked text of the section ends with the file it is in or before it
(`Closed`, which joining keeps, so `FlattenSeq` does), and each script stands there as a
whole (`Keeping`): the longest marked text is a script (`BestIsScript`).  For the second,
`Cut` is the invariant: each file that was extracted lies between the beginning and
the end that the code computes for its path.  A wasm or Mach-O file is no longer than
the window it is looked for in, and the window ends in front of the next path; the
lengths are functions that jump from place to place, of which `Jumps` shows that they exist and
`JumpsEnd` that they return what they return where they stop.

`ContainersProofs` (any layouts, sizes, alignments and sequences of payloads; the
assumptions are those of the three writers, that the files to start from are executables):

- `Loadability`: a file stays within its bounds, disjoint in the file and in memory, and
  `.bun` is where the program looks for it.
- `ImageKeeping`: the ELF writer changes no byte of memory but `.bun` and its padding.
- `Rewritability`: room, movability and payloads that fit are not used up by a write.
- `SlotImplemented`: the writers implement `BunSlot`, by the refinement mapping of the run.

The invariant is `StaysLoadable` itself with the type of `format`, since `Valid` says of each
format all that its writer relies on; the work is in one lemma for each way to write, which looks at
each pair of sections, segments and references.  They rest on what `Gap` and `Put` do to
bytes and on the arithmetic of alignment, for which no bound on the numbers is used.

`CommandLineProofs` (any paths, names and command lines): `NothingIsDropped`,
`OriginalIsSpared`, `OutputIsOfOne`.  The invariant says that an argument that was
read is `Accounted` for (`ReadSoFar`), that the slot of a switch is of that
switch (`SwitchesOwn`), that there are no defaults while arguments are read
(`NoDefaults`), and what a command has that runs (`Ready`).  The other two
properties follow from `Ready` and lemmas on names: what is put behind a name or between
its dots makes another name.

`SplitBundleProofs` (any bundles, kinds of modules, names and functions; `IsProgram` is
the assumption on them):

- `StatementsGivenOnce`, from the definition of the passes alone;
- `EveryBodyRan`: no body runs twice, and at the end all that the entry needs did, but for
  those of empty files and what only these would have called;
- `NamesAreFound`: a name is bound where it is looked for, but in the cases that
  `NamesFound` lists.
- `FilesRunLikeBundle`: the files of a `Direct` bundle implement `Bundle`.

`AllRan` is about the end.  The invariant says what is so in between: a body that was started
and is not running has all its calls `Covered`, which means started, or of a CommonJs module whose file
is being loaded or is empty (`CallsCovered`, `CallsDone`, `CacheKept`); what is on the stack was
started (`StartedOnce`).  `NamesFound` needs to know of each scope what it has: names of a file
from its load on, those of a body from its start on (`NamesThere`, `LocalsThere`), and of each
function a scope holds, which file it is from and that this file is there
(`FunctionsHome`, `FramesKept`, `Homes`).

The mapping of `FilesRunLikeBundle` takes the bodies on the stack for the bundle's stack
(a file that is being loaded is on top and runs nothing else, so its steps are none of the
bundle's), and for a variable the value in the file that
declares it.  It needs an invariant of direct bundles, `DirectInv`, which says more than the
mapping shows.  What calls what: below a frame is one whose current expression calls it
(`StackCalls`), and no body is there twice (`BodiesOnce`), because a direct bundle has no cycles.
`Ended`: a body that was started runs or has returned, and only what has returned is in the cache.
`CellsKept`: what a file declares and does not own is never given a value, and what it
returned for a variable of its own is still the value, since only its body
changes it.  `FramesDirect`: a body has no copies of its own names, and for each module it
has called, the values it took are those in that module's file.  So a `Use`, which looks at a
copy, sees what the bundle sees, and a `Set` or a `Bump` changes the one cell
that counts.  That `DirectInv` holds is a theorem too (`DirectInvariant`); no step of
a direct bundle fails.  One assumption is on names of the model: the value of a variable before it is set
is no module.

Only model-checked: `RunsEnd` and `Finishes`, since liveness under fairness is out of the
prover's reach; `ReadsBack` of `Payload`, which compares every wrong reading of a
payload with the right one (section 7 has the argument, which is not written out as
a proof); and `OwnContent` of `RawExtract`, which needs that a length does not
change when cells follow, and conditions on contents that the images of the run
meet and `RawAssumption` does not state (no content is empty, and no two
files have one path).

## 5. Findings

`workspace_original`.  The comment at `output/mod.rs:22` promises to keep
the original executable when the input is `.debun/base-executable`.  If the
rename at `writer.rs:176` fails, the staged copy is removed (line 177) after
`.debun` was (line 175), and the executable is gone.

Four more places where the code does less than one would think; the properties
name them as exceptions or leave them out, and none contradicts a statement
of the repository:

- A workspace of an executable with Compact records accepts
  `<module>.debun-module-info.bin` (`replacement_workspace.rs:99`), counts it
  as a replacement, and `serialize_payload` (`write.rs:169`) drops it: `pack` and
  `apply-patch` succeed without it.  The legacy layouts refuse such a part.
- In `(init_a(), init_b())` with exports of both, the tail is
  rewritten as a statement (`planner.rs:183`) and put behind `return`, and the text does not
  parse.  In a lazy module that is looked at again for its exports (`unbundle.rs:43`), and the
  error ends `unpack --unbundle`.  Otherwise it is none (`js/transform.rs:58`): the module's file
  is written empty, and a CommonJs module that others require is left out without a word.
- A marker up to 128 bytes behind a path is taken for the beginning of its
  content (`files.rs:121`), also when it is that of the next file: a short file in
  front of a script is extracted as that script.

- A function at the top of a bundle looks for its variable at the top of the file it was put
  into.  If another lazy module declares that variable, and the module of the
  function takes it in its body only, `init()` destructures it into a local of its own
  (`unbundle.rs:36`, `rewrite/analysis/mod.rs:118`, `planner.rs:212`), and the function
  runs into a name that is not bound (`TakenByBody`).

Worth knowing, too: a
re-signed file is not flushed again after codesign; a kill between `.debun` and
`embedded` leaves a workspace whose base and files are of different executables,
and a kill between two files one where `pack` removes sidecars; two unpack runs
at once may both succeed with the base of one and the files of the other. The
names `exports` and `module`, which the parameters of a CommonJS wrapper get,
are compared with the wrapper's own scope only as well, and a function in it
that declares `module` itself captures them: nothing renames that one.  In a section without a graph, a path that begins with
`file://` holds a second path (without the scheme) in itself, so that a content whose length is
bounded by the next path is cut to nothing; zeros behind a wasm file
are swallowed as empty sections; a PNG whose chunk IEND claims to have data may reach
beyond the next path (`detect.rs:175`); and where no file is marked, the
executable's own mention of the marker is transformed.  `app` and `app.exe` share the
default workspace and patch file.

## 6. Not modelled, and why

- `replace_destination` on Windows (`ReplaceFileW`): the call's behaviour on
  failure is the operating system's and is not visible in the code.
- In `Payload`: the order in which Bun itself lays out strings (the first executable
  is one that debun could have written), text that looks like a small number,
  and whether the entry point looks like JavaScript.
- In the writers: widths of header fields and arithmetic overflow, the PE checksum,
  Mach-O load commands the code does not know (assumed not to point behind `__BUN`),
  and ELF files that are not 64-bit little-endian (the code finds no `.bun` in them).  `__LINKEDIT` is the last segment in
  memory, as linkers make it.
- Power loss during `unpack`: nothing there is flushed, so no promise exists
  to be checked.
- What JavaScript parsing and printing do: a library.
- In `SplitBundle`: the recognition of wrappers in a syntax tree, file names
  (made unique by the index they begin with), no-op helpers, runtime helpers other than
  `createLazyInit`, optional calls and `Promise` chains of initialisers.
- In `Sidecars`: zstd, and the JSON that is made of a decoded sidecar.
- `embedded/metadata.rs`, `version.rs`: searches for a version string that is only shown.
- `workspace_path.rs` beyond what `Workspace` has of it: components of a path are
  compared one by one, and what a symlink leads to is the file system's.
- Reports and byte readers (`output/manifest.rs`, `summary.rs`, `state.rs`, `json.rs`,
  `binary.rs`): formatting and single reads, with no state.

## 7. Plan

In this order; done are the first eleven.

1. `AtomicReplace`, `AtomicFile`, proofs.
2. `Standalone`, `PackPatch`, proofs.
3. `Workspace`, proofs.
4. `BunSlot`, `FileBytes`, `ElfSection`, `MachoSegment`, `PeSection`, `Containers`, proofs.
5. `Payload`.
6. `Rename`, proofs.
7. `ByteWords`, `PatchFile`, proofs.
8. `Bundle`, `SplitBundle`, proofs.
9. `Sidecars`, proofs.
10. `RawExtract`, proofs.
11. `CommandLine`, proofs.
12. Proofs about `Payload`.  The offsets layout is never mistaken: read as the newer
    one, the older one's module pointer is its byte count, which is larger than the
    body.  No record layout but the right one fits: record sizes have no common
    factor, so in a wrong one some record takes a name's length and its contents' offset for
    the pointer to a name, and that slice has the terminator of the name in it.
