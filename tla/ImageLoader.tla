----------------------------- MODULE ImageLoader -----------------------------
(***************************************************************************)
(* urbc_load_from_file and urbc_load_from_memory: bytecode becomes an image. *)
(* A file is read whole into a buffer, which goes when the load returns.    *)
(* The header and the space are checked, and then the five sections are     *)
(* read, one entry of one section at a time, each from a cursor that may    *)
(* not pass the bytes the header gives the section.  Any malloc may fail; a *)
(* load that gives up destroys what it has of the image.                   *)
(*                                                                         *)
(* A file is what its bytes decode as.  An entry of a section is a record;  *)
(* the bytes of names, numbers and floats are left out, their number is     *)
(* kept.                                                                   *)
(***************************************************************************)
EXTENDS Integers, Sequences, SequencesExt, FiniteSets

CONSTANTS
  Files,       \* what may be loaded
  SizeModulus  \* 2^32: the header's section sizes are uint32_t, and so is their sum

(* The sections, and what comes after each. *)
After ==
  [strings |-> "signatures", signatures |-> "schemas", schemas |-> "constants",
   constants |-> "code", code |-> "loaded"]
SectionNames == DOMAIN After

Field == [kind : STRING, name : Nat, prim : Nat, aux : Nat, ref : Nat, reserved : Nat]
EntryRecord == [len : Nat, ref : Nat, kind : STRING, reserved : Nat, fields : Seq(Field)]
Section == [count : Nat, bytes : Nat, entries : Seq(EntryRecord)]

ASSUME SizeModulusAssumption == SizeModulus \in Nat \ {0}

ASSUME FilesAssumption ==
  /\ Files \subseteq [header : BOOLEAN, size : Nat, sections : [SectionNames -> Section]]
  /\ \A f \in Files : \A s \in SectionNames :
       /\ f.sections[s].count <= Len(f.sections[s].entries)
       /\ f.sections[s].bytes < SizeModulus

VARIABLES
  file,     \* the buffer: size, whether its header is one, and its sections
  section,  \* where the load is: a section, or "called", "header", "failing",
            \* "failed", "loaded"
  started,  \* has the section its arrays?
  done,     \* entries of the section read: the loop's i
  off,      \* the section's cursor
  base,     \* where in the file the section begins
  image,    \* the UrbcImage under construction
  live,     \* the blocks malloc has given and free has not taken
  buffer,   \* the block of the buffer a file is read into, if there is one
  read,     \* history: the furthest byte of the file read
  status    \* why the load failed: "none", "alloc", "io" or "format" (range, unimplemented)

loadvars == <<file, section, started, done, off, base, image, live, buffer, read, status>>

(* fields are the pointers of the image that are not NULL: each has a block *)
(* of its own, a List counting as one.  heap is the owned heap, and mem the *)
(* memory: each word a number, a pointer to a block, or a token with what   *)
(* it is of and its index.                                                 *)
(* compiled are the schemas whose layout is in the cache: none while loading. *)
Zeroed == [fields |-> {}, strings |-> <<>>, sigs |-> <<>>, heap |-> <<>>, mem |-> <<>>,
           compiled |-> {}]

Block(name, k) == <<name, k>>
Word == [to |-> "word", block |-> Block("none", 0), index |-> 0]
PointTo(b) == [to |-> "block", block |-> b, index |-> 0]
Token(e) == [to |-> e.kind, block |-> Block("none", 0), index |-> e.ref]

(* All that urbc_image_destroy frees. *)
OwnedBy(img) ==
  {Block(f, 0) : f \in img.fields} \cup Range(img.heap)
    \cup {Block("compiled", s) : s \in img.compiled}

LoadInit ==
  /\ file \in Files
  /\ section = "called" /\ started = FALSE
  /\ done = 0 /\ off = 0 /\ base = 40
  /\ image = Zeroed
  /\ live = {}
  /\ buffer = {}
  /\ read = 0
  /\ status = "none"

-----------------------------------------------------------------------------
(* Sizes *)

Of(s) == file.sections[s]
Bytes(s) == Of(s).bytes
AllBytes == Bytes("strings") + Bytes("signatures") + Bytes("schemas") + Bytes("constants") + Bytes("code")

(* The sum that the code makes, of uint32_t: what is over 32 bits is lost. *)
Space == AllBytes % SizeModulus

(* A slip: only where the bytes begin is looked at. *)
StartFits(from, n, size) == from <= size

(* urbc_expect_space, by the cursor of a section and by the whole file. *)
Fits(from, n, size) == from <= size /\ n <= size - from

ConstPayload(kind) ==
  CASE kind = "bool" -> 1 [] kind \in {"i64", "u64", "f64"} -> 8 [] OTHER -> 0

(* The bytes of one entry: what the loop takes of it. *)
EntrySize(s, e) ==
  CASE s = "strings" -> 2 + e.len
    [] s = "signatures" -> 2
    [] s = "schemas" -> 4 + 10 * Len(e.fields)
    [] s = "constants" -> 4 + ConstPayload(e.kind)
    [] s = "code" -> 4

-----------------------------------------------------------------------------
(* What an entry may say: [len, ref, kind, reserved, fields]. *)

(* The types that urbc_prim_size_align has a size for, by their numbers. *)
SizedPrims == 1 .. 13

(* URBC_ALIAS_MEM: the last of goto, goif, goie, exec and mem. *)
LastAlias == 4

ConstKinds == {"bool", "i64", "u64", "f64", "string", "sig", "schema", "null"}

ValidField(f) ==
  /\ f.kind \in {"prim", "array", "struct", "pointer"} /\ f.reserved = 0
  /\ f.name < Of("strings").count
  /\ f.kind \in {"prim", "array"} => f.prim \in SizedPrims
  /\ f.kind = "array" => f.aux # 0
  /\ f.kind = "struct" => f.ref < Of("schemas").count

(* A slip: an index may be the count. *)
ValidEntryOrNext(s, e) ==
  CASE s = "strings" -> TRUE
    [] s = "signatures" -> e.ref <= Of("strings").count
    [] s = "schemas" ->
         /\ e.kind \in {"struct", "union"} /\ e.reserved = 0
         /\ \A f \in Range(e.fields) : ValidField(f)
    [] s = "constants" ->
         /\ e.kind \in ConstKinds /\ e.reserved = 0
         /\ e.kind = "string" => e.ref <= Of("strings").count
         /\ e.kind = "sig" => e.ref <= Of("signatures").count
    [] s = "code" ->
         /\ e.kind \in {"alias", "op", "const_ref"} /\ e.reserved = 0
         /\ e.kind = "alias" => e.ref <= LastAlias
         /\ e.kind = "const_ref" => e.ref <= Of("constants").count

(* The checks of the loops.  (The index of a schema constant is not looked  *)
(* at before the schema is asked for.)                                     *)
ValidEntry(s, e) ==
  CASE s = "strings" -> TRUE
    [] s = "signatures" -> e.ref < Of("strings").count
    [] s = "schemas" ->
         /\ e.kind \in {"struct", "union"} /\ e.reserved = 0
         /\ \A f \in Range(e.fields) : ValidField(f)
    [] s = "constants" ->
         /\ e.kind \in ConstKinds /\ e.reserved = 0
         /\ e.kind = "string" => e.ref < Of("strings").count
         /\ e.kind = "sig" => e.ref < Of("signatures").count
    [] s = "code" ->
         /\ e.kind \in {"alias", "op", "const_ref"} /\ e.reserved = 0
         /\ e.kind = "alias" => e.ref <= LastAlias
         /\ e.kind = "const_ref" => e.ref < Of("constants").count

-----------------------------------------------------------------------------
(* Steps *)

GiveUp(why) ==
  /\ section' = "failing" /\ status' = why
  /\ UNCHANGED <<file, started, done, off, base, buffer, read>>

(* urbc_load_from_memory is called with bytes the host has. *)
LoadFromMemory ==
  /\ section = "called" /\ section' = "header"
  /\ UNCHANGED <<file, started, done, off, base, image, live, buffer, read, status>>

(* urbc_load_from_file opens, measures and reads the file, or gives up with *)
(* the file closed and no buffer.                                          *)
LoadFromFile ==
  /\ section = "called"
  /\ \/ /\ section' = "header"
        /\ buffer' = {Block("buffer", 0)} /\ live' = live \cup buffer'
        /\ UNCHANGED status
     \/ section' = "failed" /\ status' \in {"io", "alloc"} /\ UNCHANGED <<buffer, live>>
  /\ UNCHANGED <<file, started, done, off, base, image, read>>

ReturnFromFile ==
  /\ section \in {"loaded", "failed"} /\ buffer # {}
  /\ live' = live \ buffer /\ buffer' = {}
  /\ UNCHANGED <<file, section, started, done, off, base, image, read, status>>

(* urbc_header_read, and the space of all sections: nothing is allocated    *)
(* yet and nothing is destroyed.                                           *)
ReadHeader ==
  /\ section = "header"
  /\ IF file.header /\ Fits(40, Space, file.size)
       THEN section' = "strings" /\ read' = 40 /\ UNCHANGED status
       ELSE section' = "failed" /\ status' = "format" /\ UNCHANGED read
  /\ UNCHANGED <<file, started, done, off, base, image, live, buffer>>

(* The allocations at the head of a section.  The three tables of the       *)
(* schemas are asked for before any is looked at; the memory is a list,     *)
(* which the code cannot be refused.                                       *)
Tables(s) ==
  CASE s = "strings" -> {"strings"}
    [] s = "signatures" -> {"signature_string_indices"}
    [] s = "schemas" ->
         IF Of(s).count > 0 THEN {"schema_offsets", "schema_lengths", "schema_cache"} ELSE {}
    [] s = "constants" -> {"mem"}
    [] s = "code" -> {}

Start(s) ==
  /\ section = s /\ ~started
  /\ s = "schemas" /\ Of(s).bytes > 0 => "schema_bytes" \in image.fields
  /\ \E got \in SUBSET Tables(s) :
       /\ s = "constants" => got = Tables(s)
       /\ image' = [image EXCEPT !.fields = @ \cup got]
       /\ live' = live \cup {Block(f, 0) : f \in got}
       /\ CASE s = "schemas" /\ Of(s).count > 0 /\ Of(s).bytes = 0 -> got = {} /\ GiveUp("format")
            [] got # Tables(s) -> GiveUp("alloc")
            [] OTHER -> started' = TRUE /\ UNCHANGED <<file, section, done, off, base, buffer, read, status>>

(* urbc_load_schemas: the section is copied whole, if there is one. *)
CopySchemas ==
  /\ section = "schemas" /\ ~started
  /\ Of("schemas").bytes > 0 /\ "schema_bytes" \notin image.fields
  /\ \/ /\ image' = [image EXCEPT !.fields = @ \cup {"schema_bytes"}]
        /\ live' = live \cup {Block("schema_bytes", 0)}
        /\ read' = base + Of("schemas").bytes
        /\ UNCHANGED <<file, section, started, done, off, base, buffer, status>>
     \/ GiveUp("alloc") /\ UNCHANGED <<image, live>>

Looping(s) == section = s /\ started /\ done < Of(s).count
Entry(s) == Of(s).entries[done + 1]

Took(s) ==
  /\ done' = done + 1
  /\ off' = off + EntrySize(s, Entry(s))
  /\ read' = base + off'
  /\ UNCHANGED <<file, section, started, base, buffer, status>>

(* What is made of an entry: a word, and the block it takes.  A table read  *)
(* past its end gives some word of the memory behind it.                   *)
Item(table, k) == IF k < Len(table) THEN table[k + 1] ELSE Block("outside", k)
(* A copied string, or the handle of a schema constant. *)
ItemBlock(s) == Block(IF s = "strings" THEN "string" ELSE "handle", done)
PushOwned(b) == [image EXCEPT !.heap = Append(@, b), !.fields = @ \cup {"owned_heap"}]
Pushed(img, word) == [img EXCEPT !.mem = Append(@, word)]

Made(s, e) ==
  LET b == ItemBlock(s) IN
  CASE s = "strings" -> [PushOwned(b) EXCEPT !.strings = Append(@, b)]
    [] s = "signatures" -> [image EXCEPT !.sigs = Append(@, e.ref)]
    [] s = "schemas" -> image
    [] s = "code" -> Pushed(image, Token(e))
    [] s = "constants" ->
         CASE e.kind = "string" -> Pushed(image, PointTo(Item(image.strings, e.ref)))
           [] e.kind = "sig" ->
                Pushed(image, PointTo(IF e.ref < Len(image.sigs)
                                        THEN Item(image.strings, image.sigs[e.ref + 1])
                                        ELSE Block("outside", e.ref)))
           [] e.kind = "schema" -> Pushed(PushOwned(b), PointTo(b))
           [] OTHER -> Pushed(image, Word)

Allocates(s, e) == s = "strings" \/ (s = "constants" /\ e.kind = "schema")
Given(s, e) == IF Allocates(s, e) THEN {ItemBlock(s), Block("owned_heap", 0)} ELSE {}

LoadEntry(s) ==
  /\ Looping(s)
  /\ IF Fits(off, EntrySize(s, Entry(s)), Of(s).bytes) /\ ValidEntry(s, Entry(s))
       THEN \/ /\ image' = Made(s, Entry(s))
               /\ live' = live \cup Given(s, Entry(s))
               /\ Took(s)
            \/ Allocates(s, Entry(s)) /\ GiveUp("alloc") /\ UNCHANGED <<image, live>>
       ELSE GiveUp("format") /\ UNCHANGED <<image, live>>

(* A slip: what the cursor left of the section is not looked at. *)
EndsAnywhere(s) == TRUE

(* The section is used up (schemas are not looked at when there are none). *)
EndsAtItsEnd(s) == off = Of(s).bytes \/ (s = "schemas" /\ Of(s).count = 0)

EndSection(s) ==
  /\ section = s /\ started /\ done = Of(s).count
  /\ IF ~EndsAtItsEnd(s)
       THEN GiveUp("format")
       ELSE /\ section' = After[s]
            /\ started' = FALSE /\ done' = 0 /\ off' = 0 /\ base' = base + Of(s).bytes
            /\ UNCHANGED <<file, buffer, read, status>>
  /\ UNCHANGED <<image, live>>

(* A slip of urbc_image_destroy: a table is left. *)
DestroyedButLengths == live \ (OwnedBy(image) \ {Block("schema_lengths", 0)})

(* urbc_image_destroy *)
DestroyedImage == live \ OwnedBy(image)

FailLoad ==
  /\ section = "failing"
  /\ live' = DestroyedImage
  /\ image' = Zeroed
  /\ section' = "failed"
  /\ UNCHANGED <<file, started, done, off, base, buffer, read, status>>

LoadStep ==
  \/ LoadFromMemory \/ LoadFromFile \/ ReturnFromFile
  \/ ReadHeader \/ CopySchemas \/ FailLoad
  \/ \E s \in SectionNames : Start(s) \/ LoadEntry(s) \/ EndSection(s)

Loading == section \in SectionNames \cup {"called", "header", "failing"} \/ buffer # {}

-----------------------------------------------------------------------------
(* Properties *)

(* What docs/BYTECODE.md, sections 2 and 3, asks of the entries of a section. *)
Indices(s, e) ==
  CASE s = "signatures" -> {<<"strings", e.ref>>}
    [] s = "schemas" -> {<<"strings", f.name>> : f \in Range(e.fields)}
         \cup {<<"schemas", f.ref>> : f \in {g \in Range(e.fields) : g.kind = "struct"}}
    [] s = "constants" /\ e.kind = "string" -> {<<"strings", e.ref>>}
    [] s = "constants" /\ e.kind = "sig" -> {<<"signatures", e.ref>>}
    [] s = "code" /\ e.kind = "const_ref" -> {<<"constants", e.ref>>}
    [] OTHER -> {}
KindsOf(s) ==
  CASE s = "schemas" -> {"struct", "union"}
    [] s = "constants" -> ConstKinds
    [] s = "code" -> {"alias", "op", "const_ref"}

(* Where each entry of a section ends, one after the other. *)
EndsOf(s, sec) ==
  LET end[n \in 0 .. sec.count] ==
        IF n = 0 THEN 0 ELSE end[n - 1] + EntrySize(s, sec.entries[n])
  IN end
EntryEnds(s) == EndsOf(s, Of(s))

(* Section 4 of the document: its tables of aliases and of primitive types. *)
DocumentedAliases == 0 .. 4
DocumentedPrims == 1 .. 13

(* Strings and signatures have no kind. *)
DocumentedEntry(s, e) ==
  /\ s \in {"schemas", "constants", "code"} => e.kind \in KindsOf(s) /\ e.reserved = 0
  /\ \A index \in Indices(s, e) : index[2] < Of(index[1]).count
  /\ s = "code" /\ e.kind = "alias" => e.ref \in DocumentedAliases
  /\ s = "schemas" => \A f \in Range(e.fields) :
       /\ f.kind \in {"prim", "array", "struct", "pointer"} /\ f.reserved = 0
       /\ f.kind \in {"prim", "array"} => f.prim \in DocumentedPrims
       /\ f.kind = "array" => f.aux > 0

Documented(s) ==
  /\ Of(s).bytes = EntryEnds(s)[Of(s).count]
  /\ \A k \in 1 .. Of(s).count : DocumentedEntry(s, Of(s).entries[k])

(* The one exception is a schema section that has bytes but no schema, which *)
(* nothing looks at.                                                       *)
SectionsDocumented ==
  file.header /\ \A s \in SectionNames : Documented(s) \/ (s = "schemas" /\ Of(s).count = 0)
HasItsSections == file.size >= 40 + AllBytes

(* The sizes of the header add up in 32 bits. *)
SizesAddUp == AllBytes < SizeModulus

(* A load without a failed malloc refuses no file the document describes,   *)
(* and what it takes is documented: each section has its entries and not a  *)
(* byte more, every index, alias and type is one of its table, and the file *)
(* has the bytes of its sections, the last only if their sizes add up in 32 *)
(* bits: otherwise the check of the space compares with what is left of the *)
(* sum.                                                                    *)
LoadsDocumented ==
  /\ section = "loaded" => SectionsDocumented /\ (SizesAddUp => HasItsSections)
  /\ section = "failed" /\ status = "format" => ~(SectionsDocumented /\ HasItsSections)

(* Whatever counts a file claims, no section is read beyond the bytes that  *)
(* the header gives it, and no byte outside the file is read if the sizes   *)
(* of its sections add up in 32 bits.  (The code also takes files whose     *)
(* sizes do not, and reads those past their end.)                          *)
ReadsInside ==
  /\ read <= 40 + AllBytes
  /\ SizesAddUp => read <= file.size

Constants == SubSeq(image.mem, 1, Of("constants").count)

(* In the memory of an image every pointer is to a block the image owns,    *)
(* and every token is one the loop can run: an alias there is, and a        *)
(* constant reference whose index is that of a constant, which is a number  *)
(* or a pointer and no token.                                              *)
WordsAreSound ==
  \A w \in Range(image.mem) :
    /\ w.to = "block" => w.block \in live
    /\ w.to = "alias" => w.index \in DocumentedAliases
    /\ w.to = "const_ref" =>
         w.index < Len(Constants) /\ Constants[w.index + 1].to \in {"word", "block"}
=============================================================================
