---------------------------- MODULE LifetimeProofs ----------------------------
(***************************************************************************)
(* Proofs about Lifetime and the loads it begins with: for any files, names *)
(* and functions, and any number of objects, a load accepts what the        *)
(* document describes and reads inside the file, if the sizes of its        *)
(* sections add up in 32 bits, what is allocated is what                   *)
(* the image and the runtime reach, pointers of the image's memory are into *)
(* its heap, closures find the latest function, and externals go last in,   *)
(* first out.  The first half is about a load, the second about the rest.   *)
(***************************************************************************)
EXTENDS Lifetime, SequenceTheorems, NaturalsInduction, WellFoundedInduction, TLAPS

-----------------------------------------------------------------------------
(* A load *)

FieldNames ==
  {"strings", "signature_string_indices", "schema_bytes", "schema_offsets", "schema_lengths",
   "schema_cache", "mem", "owned_heap"}
HeapNames == {"string", "handle", "owned"}
ImageNames == FieldNames \cup HeapNames \cup {"compiled"}

RuntimeNames == {"binding", "external", "callback", "descriptor", "exec", "stack"}
Blocks == (ImageNames \cup RuntimeNames \cup {"buffer", "none", "outside"}) \X Nat
MemWords == [to : {"word", "block", "alias", "op", "const_ref"}, block : Blocks, index : Nat]
Images ==
  [fields : SUBSET FieldNames, strings : Seq(Blocks), sigs : Seq(Nat), heap : Seq(Blocks),
   mem : Seq(MemWords), compiled : SUBSET Nat]

LoadTypeOK ==
  /\ file \in Files
  /\ section \in SectionNames \cup {"called", "header", "failing", "failed", "loaded", "unloaded"}
  /\ started \in BOOLEAN /\ done \in Nat /\ off \in Nat /\ base \in Nat /\ read \in Nat
  /\ image \in Images
  /\ live \subseteq Blocks
  /\ buffer \subseteq {Block("buffer", 0)}

(* Where each section begins. *)
Begin ==
  [strings |-> 40,
   signatures |-> 40 + Bytes("strings"),
   schemas |-> 40 + Bytes("strings") + Bytes("signatures"),
   constants |-> 40 + Bytes("strings") + Bytes("signatures") + Bytes("schemas"),
   code |-> 40 + Bytes("strings") + Bytes("signatures") + Bytes("schemas") + Bytes("constants")]

Untouched ==
  section \in {"called", "header"} =>
    image = Zeroed /\ base = 40 /\ done = 0 /\ off = 0 /\ started = FALSE

(* The cursor is in its section, and the sections are in the file if their  *)
(* sizes add up.                                                           *)
CursorInside ==
  section \in SectionNames =>
    /\ SizesAddUp => 40 + AllBytes <= file.size
    /\ base = Begin[section]
    /\ off <= Bytes(section) /\ done <= Of(section).count
    /\ ~started => done = 0 /\ off = 0

(* How much there is of the two tables that later sections index. *)
TablesGrow ==
  /\ section = "strings" => Len(image.strings) = done /\ image.sigs = <<>>
  /\ section \in SectionNames \ {"strings"} => Len(image.strings) = Of("strings").count
  /\ section = "signatures" => Len(image.sigs) = done
  /\ section \in {"schemas", "constants", "code"} => Len(image.sigs) = Of("signatures").count
  /\ section \in SectionNames => \A i \in DOMAIN image.sigs : image.sigs[i] < Of("strings").count

(* The owned heap has each block once: the next string, and the next handle  *)
(* of a schema constant, are not in it yet.                                *)
HeapGrows ==
  /\ IsInjective(image.heap)
  /\ \A b \in Range(image.heap) : b[1] \in HeapNames
  /\ section \in {"strings", "signatures", "schemas"} =>
       \A b \in Range(image.heap) : b[1] # "handle"
  /\ \A b \in Range(image.heap) :
       /\ section = "strings" /\ b[1] = "string" => b[2] < done
       /\ section = "constants" /\ b[1] = "handle" => b[2] < done

(* Strings, and the words that are pointers, are in the owned heap. *)
PointersOwned ==
  /\ Range(image.strings) \subseteq Range(image.heap)
  /\ \A w \in Range(image.mem) : w.to = "block" => w.block \in Range(image.heap)

(* The memory has a word for each constant and then one for each token; what *)
(* a token refers to is there.                                             *)
Constant == {"word", "block"}
WordFits(s, w) ==
  /\ s = "constants" => w.to \in Constant
  /\ w.to = "alias" => w.index \in DocumentedAliases
  /\ w.to = "const_ref" => w.index < Of("constants").count
WordsFit ==
  \A i \in DOMAIN image.mem :
    /\ i <= Of("constants").count => image.mem[i].to \in Constant
    /\ image.mem[i].to = "alias" => image.mem[i].index \in DocumentedAliases
    /\ image.mem[i].to = "const_ref" =>
         image.mem[i].index < Of("constants").count /\ Of("constants").count <= Len(image.mem)
MemGrows ==
  /\ section \in {"strings", "signatures", "schemas"} => Len(image.mem) = 0
  /\ section = "constants" => Len(image.mem) = done
  /\ section = "code" => Len(image.mem) = Of("constants").count + done
  /\ WordsFit

ImageInv == TablesGrow /\ HeapGrows /\ PointersOwned /\ MemGrows

LoadInv == LoadTypeOK /\ Untouched /\ CursorInside /\ ReadsInside /\ ImageInv

(* The sections that are behind the load. *)
Passed ==
  [strings |-> {}, signatures |-> {"strings"}, schemas |-> {"strings", "signatures"},
   constants |-> {"strings", "signatures", "schemas"}, code |-> SectionNames \ {"code"},
   loaded |-> SectionNames]

(* What the load knows of the file: the sections behind it are as the        *)
(* document says, and so is the current one up to the cursor; when it gives  *)
(* up over the format, the file is not.                                    *)
Accepted(s) == Documented(s) \/ (s = "schemas" /\ Of(s).count = 0)
WellFormed == SectionsDocumented /\ HasItsSections
ReadSoFar ==
  /\ section \in SectionNames \cup {"loaded"} =>
       /\ file.header /\ (SizesAddUp => HasItsSections)
       /\ \A s \in Passed[section] : Accepted(s)
  /\ section \in SectionNames =>
       /\ off = EntryEnds(section)[done]
       /\ \A k \in 1 .. done : DocumentedEntry(section, Of(section).entries[k])
  /\ section \in {"failing", "failed"} /\ status = "format" => ~WellFormed

(* While the runtime has nothing yet. *)
AllHeld == live = buffer \cup OwnedBy(image)

-----------------------------------------------------------------------------
(* Facts about files and sequences *)

LEMMA SectionFacts == SectionNames = {"strings", "signatures", "schemas", "constants", "code"}
  BY DEF SectionNames, After

LEMMA FileFacts ==
  ASSUME LoadTypeOK
  PROVE  /\ file.size \in Nat
         /\ \A s \in SectionNames :
              /\ Of(s) \in Section /\ Bytes(s) \in Nat
              /\ Of(s).count \in Nat /\ Of(s).count <= Len(Of(s).entries)
  BY FilesAssumption DEF LoadTypeOK, Of, Bytes, Section

LEMMA Remainders ==
  ASSUME NEW n \in Nat, NEW m \in Nat \ {0}
  PROVE  n % m \in Nat /\ n % m <= n /\ (n < m => n % m = n)
  OBVIOUS

LEMMA SpaceFacts ==
  ASSUME LoadTypeOK
  PROVE  /\ AllBytes \in Nat /\ Space \in Nat /\ file.size \in Nat
         /\ SizesAddUp => Space = AllBytes
         /\ Space <= AllBytes
         /\ \A s \in SectionNames :
              Begin[s] \in Nat /\ Begin[s] >= 40 /\ Begin[s] + Bytes(s) <= 40 + AllBytes
         /\ \A s \in SectionNames : s # "code" => Begin[After[s]] = Begin[s] + Bytes(s)
<1>1. /\ Bytes("strings") \in Nat /\ Bytes("signatures") \in Nat /\ Bytes("schemas") \in Nat
      /\ Bytes("constants") \in Nat /\ Bytes("code") \in Nat /\ file.size \in Nat
  <2>1. \A s \in SectionNames : Bytes(s) \in Nat BY FileFacts
  <2> QED BY <2>1, FileFacts, SectionFacts
<1>2. AllBytes \in Nat BY <1>1 DEF AllBytes
<1>3. Space \in Nat /\ Space <= AllBytes /\ (SizesAddUp => Space = AllBytes)
  BY <1>2, SizeModulusAssumption, Remainders DEF Space, SizesAddUp
<1>4. \A s \in SectionNames :
        /\ Begin[s] \in Nat /\ Begin[s] >= 40 /\ Begin[s] + Bytes(s) <= 40 + AllBytes
        /\ s # "code" => Begin[After[s]] = Begin[s] + Bytes(s)
  BY <1>1, SectionFacts DEF AllBytes, Begin, After
<1> QED BY <1>1, <1>2, <1>3, <1>4

LEMMA BlockFacts ==
  ASSUME NEW name, NEW k
  PROVE  /\ Block(name, k)[1] = name /\ Block(name, k)[2] = k
         /\ name \in ImageNames \cup RuntimeNames \cup {"buffer", "none", "outside"} /\ k \in Nat
              => Block(name, k) \in Blocks
  BY DEF Block, Blocks

LEMMA EntryFacts ==
  ASSUME LoadTypeOK, NEW s \in SectionNames, Looping(s)
  PROVE  Entry(s) \in EntryRecord /\ EntrySize(s, Entry(s)) \in Nat
<1>1. Entry(s) \in EntryRecord
  BY FileFacts DEF Looping, Entry, Section, LoadTypeOK
<1>2. Len(Entry(s).fields) \in Nat BY <1>1 DEF EntryRecord
<1>3. Entry(s).len \in Nat BY <1>1 DEF EntryRecord
<1> QED BY <1>1, <1>2, <1>3, SectionFacts DEF EntrySize, ConstPayload

LEMMA AppendFacts ==
  ASSUME NEW S, NEW q \in Seq(S), NEW e \in S
  PROVE  /\ Append(q, e) \in Seq(S) /\ Len(Append(q, e)) = Len(q) + 1
         /\ Range(Append(q, e)) = Range(q) \cup {e}
         /\ \A i \in DOMAIN Append(q, e) : Append(q, e)[i] \in S
         /\ IsInjective(q) /\ e \notin Range(q) => IsInjective(Append(q, e))
<1>1. Append(q, e) \in Seq(S) /\ Len(Append(q, e)) = Len(q) + 1 BY AppendProperties
<1>2. DOMAIN Append(q, e) = 1 .. Len(q) + 1 /\ DOMAIN q = 1 .. Len(q) BY <1>1
<1>3. \A i \in DOMAIN Append(q, e) : Append(q, e)[i] = IF i \in DOMAIN q THEN q[i] ELSE e
  BY <1>2, AppendProperties
<1>4. Range(Append(q, e)) = Range(q) \cup {e}
  <2>1. Len(q) + 1 \in DOMAIN Append(q, e) /\ Len(q) + 1 \notin DOMAIN q BY <1>2
  <2>2. DOMAIN q \subseteq DOMAIN Append(q, e) BY <1>2
  <2> QED BY <2>1, <2>2, <1>3 DEF Range
<1>5. IsInjective(q) /\ e \notin Range(q) => IsInjective(Append(q, e))
  BY <1>2, <1>3 DEF Range, IsInjective
<1> QED BY <1>1, <1>3, <1>4, <1>5

-----------------------------------------------------------------------------
(* The steps, by what they change *)

LEMMA OfStays ==
  ASSUME file' = file
  PROVE  /\ \A s : Of(s)' = Of(s) /\ Bytes(s)' = Bytes(s)
         /\ AllBytes' = AllBytes /\ Space' = Space /\ Begin' = Begin
         /\ SizesAddUp' = SizesAddUp /\ HasItsSections' = HasItsSections
  BY DEF Of, Bytes, AllBytes, Space, Begin, SizesAddUp, HasItsSections

SameTables ==
  /\ image' \in Images
  /\ image'.strings = image.strings /\ image'.sigs = image.sigs
  /\ image'.heap = image.heap /\ image'.mem = image.mem

Over == {"failing", "failed", "loaded", "unloaded"}

(* A load that is over, or gives up, asks no more of the image. *)
LEMMA ImageKeptAway ==
  ASSUME ImageInv, SameTables, file' = file, section' \in Over
  PROVE  ImageInv'
<1>1. section' \notin SectionNames /\ section' \notin {"strings", "signatures", "schemas", "constants", "code"}
  BY SectionFacts DEF Over
<1> QED BY <1>1, OfStays DEF ImageInv, SameTables, TablesGrow, HeapGrows, PointersOwned, MemGrows, WordsFit

LEMMA ImageKeptHere ==
  ASSUME ImageInv, SameTables, file' = file, section' = section, done' = done
  PROVE  ImageInv'
  BY OfStays DEF ImageInv, SameTables, TablesGrow, HeapGrows, PointersOwned, MemGrows, WordsFit

LEMMA GivesUp ==
  ASSUME LoadInv, NEW why, GiveUp(why), SameTables, live' \subseteq Blocks
  PROVE  LoadInv'
<1>1. LoadTypeOK' BY DEF LoadInv, LoadTypeOK, GiveUp, SameTables
<1>2. Untouched' /\ CursorInside' BY SectionFacts DEF GiveUp, Untouched, CursorInside
<1>3. ReadsInside' BY OfStays DEF LoadInv, GiveUp, ReadsInside
<1>4. ImageInv' BY ImageKeptAway DEF LoadInv, GiveUp, Over
<1> QED BY <1>1, <1>2, <1>3, <1>4 DEF LoadInv

LEMMA LoadFromMemorySound ==
  ASSUME LoadInv, AllHeld, LoadFromMemory
  PROVE  LoadInv' /\ AllHeld'
<1>1. LoadTypeOK' BY DEF LoadInv, LoadTypeOK, LoadFromMemory
<1>2. Untouched' BY DEF LoadInv, LoadFromMemory, Untouched
<1>3. CursorInside' BY SectionFacts DEF LoadFromMemory, CursorInside
<1>4. ReadsInside' BY OfStays DEF LoadInv, LoadFromMemory, ReadsInside
<1>5. image = Zeroed /\ image' = Zeroed BY DEF LoadInv, LoadFromMemory, Untouched
<1>6. ImageInv' BY <1>5, SectionFacts DEF LoadInv, ImageInv, LoadFromMemory, TablesGrow, HeapGrows, PointersOwned, MemGrows, WordsFit, Zeroed
<1>7. AllHeld' BY DEF LoadFromMemory, AllHeld, OwnedBy
<1> QED BY <1>1, <1>2, <1>3, <1>4, <1>6, <1>7 DEF LoadInv

LEMMA LoadFromFileSound ==
  ASSUME LoadInv, AllHeld, LoadFromFile
  PROVE  LoadInv' /\ AllHeld'
<1>1. LoadTypeOK' BY BlockFacts DEF LoadInv, LoadTypeOK, LoadFromFile
<1>2. Untouched' BY DEF LoadInv, LoadFromFile, Untouched
<1>3. CursorInside' BY SectionFacts DEF LoadFromFile, CursorInside
<1>4. ReadsInside' BY OfStays DEF LoadInv, LoadFromFile, ReadsInside
<1>5. image = Zeroed /\ image' = Zeroed BY DEF LoadInv, LoadFromFile, Untouched
<1>6. ImageInv' BY <1>5, SectionFacts DEF LoadInv, ImageInv, LoadFromFile, TablesGrow, HeapGrows, PointersOwned, MemGrows, WordsFit, Zeroed
<1>7. AllHeld' BY DEF LoadFromFile, AllHeld, OwnedBy, LoadInv, LoadTypeOK
<1> QED BY <1>1, <1>2, <1>3, <1>4, <1>6, <1>7 DEF LoadInv

LEMMA OwnedNames ==
  ASSUME LoadInv
  PROVE  /\ OwnedBy(image) \subseteq Blocks
         /\ \A b \in OwnedBy(image) : b[1] \in ImageNames
<1>1. Range(image.heap) \subseteq Blocks /\ \A b \in Range(image.heap) : b[1] \in HeapNames
  BY RangeOfSeq DEF LoadInv, LoadTypeOK, Images, ImageInv, HeapGrows
<1>2. \A f \in image.fields : Block(f, 0) \in Blocks /\ Block(f, 0)[1] = f /\ f \in FieldNames
  BY BlockFacts DEF LoadInv, LoadTypeOK, Images, ImageNames
<1>3. \A s \in image.compiled : Block("compiled", s) \in Blocks /\ Block("compiled", s)[1] = "compiled"
  BY BlockFacts DEF LoadInv, LoadTypeOK, Images, ImageNames
<1> QED BY <1>1, <1>2, <1>3 DEF OwnedBy, ImageNames

LEMMA BufferApart ==
  ASSUME LoadInv
  PROVE  buffer \cap OwnedBy(image) = {}
<1>1. \A b \in buffer : b[1] = "buffer" BY DEF LoadInv, LoadTypeOK, Block
<1>2. "buffer" \notin ImageNames BY DEF ImageNames, FieldNames, HeapNames
<1> QED BY <1>1, <1>2, OwnedNames

LEMMA ReturnFromFileSound ==
  ASSUME LoadInv, AllHeld, ReturnFromFile
  PROVE  LoadInv' /\ AllHeld'
<1>1. LoadTypeOK' BY DEF LoadInv, LoadTypeOK, ReturnFromFile
<1>2. Untouched' BY DEF LoadInv, ReturnFromFile, Untouched
<1>3. CursorInside' BY SectionFacts DEF ReturnFromFile, CursorInside
<1>4. ReadsInside' BY OfStays DEF LoadInv, ReturnFromFile, ReadsInside
<1>5. SameTables BY <1>1 DEF ReturnFromFile, SameTables, LoadTypeOK
<1>6. ImageInv' BY <1>5, ImageKeptHere DEF ReturnFromFile, LoadInv
<1>7. AllHeld' BY BufferApart DEF ReturnFromFile, AllHeld, OwnedBy
<1> QED BY <1>1, <1>2, <1>3, <1>4, <1>6, <1>7 DEF LoadInv

LEMMA ReadHeaderSound ==
  ASSUME LoadInv, AllHeld, ReadHeader
  PROVE  LoadInv' /\ AllHeld'
<1>1. LoadTypeOK' BY SectionFacts DEF LoadInv, LoadTypeOK, ReadHeader
<1>2. Untouched' BY DEF LoadInv, ReadHeader, Untouched
<1>3. image = Zeroed /\ image' = Zeroed /\ base = 40 /\ done = 0 /\ off = 0 /\ started = FALSE
  BY DEF LoadInv, ReadHeader, Untouched
<1>4. AllBytes \in Nat /\ Space \in Nat /\ file.size \in Nat /\ (SizesAddUp => Space = AllBytes)
  BY SpaceFacts DEF LoadInv
<1>5. CursorInside'
  <2> SUFFICES ASSUME section' \in SectionNames PROVE CursorInside' BY DEF CursorInside
  <2>1. section' = "strings" /\ Fits(40, Space, file.size) BY SectionFacts DEF ReadHeader
  <2>2. SizesAddUp => 40 + AllBytes <= file.size BY <2>1, <1>4 DEF Fits
  <2>3. Bytes("strings") \in Nat /\ Of("strings").count \in Nat BY FileFacts, SectionFacts DEF LoadInv
  <2> QED BY <1>3, <2>1, <2>2, <2>3, OfStays DEF CursorInside, ReadHeader, Begin
<1>6. ReadsInside' BY <1>4, OfStays DEF LoadInv, ReadHeader, ReadsInside, Fits
<1>7. ImageInv' BY <1>3, SectionFacts DEF LoadInv, ImageInv, ReadHeader, TablesGrow, HeapGrows, PointersOwned, MemGrows, WordsFit, Zeroed, Range, IsInjective
<1>8. AllHeld' BY DEF ReadHeader, AllHeld, OwnedBy
<1> QED BY <1>1, <1>2, <1>5, <1>6, <1>7, <1>8 DEF LoadInv

(* The allocations at the head of a section. *)
LEMMA FieldsOwned ==
  ASSUME LoadInv, AllHeld, NEW got \in SUBSET FieldNames,
         image' = [image EXCEPT !.fields = @ \cup got],
         live' = live \cup {Block(f, 0) : f \in got},
         buffer' = buffer
  PROVE  SameTables /\ live' \subseteq Blocks /\ AllHeld'
<1>1. image \in Images /\ live \subseteq Blocks BY DEF LoadInv, LoadTypeOK
<1>2. SameTables BY <1>1 DEF SameTables, Images
<1>3. {Block(f, 0) : f \in got} \subseteq Blocks BY BlockFacts DEF ImageNames
<1>4. image'.fields = image.fields \cup got /\ image'.heap = image.heap /\ image'.compiled = image.compiled
  BY <1>1 DEF Images
<1>5. AllHeld' BY <1>4 DEF AllHeld, OwnedBy
<1> QED BY <1>1, <1>2, <1>3, <1>5

LEMMA StartSound ==
  ASSUME LoadInv, AllHeld, NEW s \in SectionNames, Start(s)
  PROVE  LoadInv' /\ AllHeld'
<1>1. PICK got \in SUBSET Tables(s) :
        /\ image' = [image EXCEPT !.fields = @ \cup got]
        /\ live' = live \cup {Block(f, 0) : f \in got}
        /\ \/ \E why : GiveUp(why)
           \/ started' = TRUE /\ UNCHANGED <<file, section, done, off, base, buffer, read, status>>
  BY DEF Start
<1>2. Tables(s) \subseteq FieldNames BY SectionFacts DEF Tables, FieldNames
<1>3. buffer' = buffer BY <1>1 DEF GiveUp
<1>4. SameTables /\ live' \subseteq Blocks /\ AllHeld' BY <1>1, <1>2, <1>3, FieldsOwned
<1>5. CASE \E why : GiveUp(why)
  BY <1>4, <1>5, GivesUp
<1>6. CASE started' = TRUE /\ UNCHANGED <<file, section, done, off, base, buffer, read, status>>
  <2>1. LoadTypeOK' BY <1>4, <1>6 DEF LoadInv, LoadTypeOK, SameTables
  <2>2. section \notin {"called", "header"} BY SectionFacts DEF Start
  <2>3. Untouched' BY <1>6, <2>2 DEF Untouched
  <2>4. CursorInside' BY <1>6, OfStays DEF LoadInv, CursorInside
  <2>5. ReadsInside' BY <1>6, OfStays DEF LoadInv, ReadsInside
  <2>6. ImageInv' BY <1>4, <1>6, ImageKeptHere DEF LoadInv
  <2> QED BY <1>4, <2>1, <2>3, <2>4, <2>5, <2>6 DEF LoadInv
<1> QED BY <1>1, <1>5, <1>6

LEMMA CopySchemasSound ==
  ASSUME LoadInv, AllHeld, CopySchemas
  PROVE  LoadInv' /\ AllHeld'
<1>1. CASE GiveUp("alloc") /\ UNCHANGED <<image, live>>
  <2>1. SameTables /\ live' \subseteq Blocks BY <1>1 DEF LoadInv, LoadTypeOK, SameTables
  <2>2. AllHeld' BY <1>1 DEF AllHeld, OwnedBy, GiveUp
  <2> QED BY <1>1, <2>1, <2>2, GivesUp
<1>2. CASE /\ image' = [image EXCEPT !.fields = @ \cup {"schema_bytes"}]
           /\ live' = live \cup {Block("schema_bytes", 0)}
           /\ read' = base + Of("schemas").bytes
           /\ UNCHANGED <<file, section, started, done, off, base, buffer, status>>
  <2>1. {"schema_bytes"} \in SUBSET FieldNames /\ {Block(f, 0) : f \in {"schema_bytes"}} = {Block("schema_bytes", 0)}
    BY DEF FieldNames
  <2>2. SameTables /\ live' \subseteq Blocks /\ AllHeld' BY <1>2, <2>1, FieldsOwned
  <2>3. "schemas" \in SectionNames /\ section = "schemas" BY SectionFacts DEF CopySchemas
  <2>4. /\ base = Begin["schemas"] /\ (SizesAddUp => 40 + AllBytes <= file.size)
        /\ Begin["schemas"] + Bytes("schemas") <= 40 + AllBytes
        /\ AllBytes \in Nat /\ file.size \in Nat /\ base \in Nat /\ Bytes("schemas") \in Nat
    BY <2>3, SpaceFacts, FileFacts DEF LoadInv, CursorInside, LoadTypeOK
  <2>5. read' \in Nat /\ read' <= 40 + AllBytes /\ (SizesAddUp => read' <= file.size) BY <1>2, <2>4 DEF Bytes
  <2>6. LoadTypeOK' BY <1>2, <2>2, <2>5 DEF LoadInv, LoadTypeOK, SameTables
  <2>7. Untouched' BY <1>2, <2>3 DEF Untouched
  <2>8. CursorInside' BY <1>2, OfStays DEF LoadInv, CursorInside
  <2>9. ReadsInside' BY <1>2, <2>5, OfStays DEF ReadsInside
  <2>10. ImageInv' BY <1>2, <2>2, ImageKeptHere DEF LoadInv
  <2> QED BY <2>2, <2>6, <2>7, <2>8, <2>9, <2>10 DEF LoadInv
<1> QED BY <1>1, <1>2 DEF CopySchemas

LEMMA FailLoadSound ==
  ASSUME LoadInv, AllHeld, FailLoad
  PROVE  LoadInv' /\ AllHeld'
<1>1. image' = Zeroed /\ Zeroed \in Images BY DEF FailLoad, Zeroed, Images
<1>2. LoadTypeOK' BY <1>1 DEF LoadInv, LoadTypeOK, FailLoad, DestroyedImage
<1>3. Untouched' /\ CursorInside' BY SectionFacts DEF FailLoad, Untouched, CursorInside
<1>4. ReadsInside' BY OfStays DEF LoadInv, FailLoad, ReadsInside
<1>5. ImageInv' BY <1>1, SectionFacts DEF FailLoad, ImageInv, TablesGrow, HeapGrows, PointersOwned, MemGrows, WordsFit, Zeroed, Range, IsInjective
<1>6. OwnedBy(Zeroed) = {} BY DEF OwnedBy, Zeroed, Range
<1>7. AllHeld' BY <1>1, <1>6, BufferApart DEF FailLoad, DestroyedImage, AllHeld
<1> QED BY <1>2, <1>3, <1>4, <1>5, <1>7 DEF LoadInv

(* What an entry adds to the image: at most a block, to the owned heap, and *)
(* a word, to the memory; and one row to the table of its section.         *)
HeapAdds(s) ==
  IF Allocates(s, Entry(s))
    THEN /\ image'.heap = Append(image.heap, ItemBlock(s))
         /\ image'.fields = image.fields \cup {"owned_heap"}
    ELSE image'.heap = image.heap /\ image'.fields = image.fields
MemAdds(s) ==
  IF s \in {"constants", "code"}
    THEN \E w \in MemWords :
           /\ image'.mem = Append(image.mem, w)
           /\ w.to = "block" => w.block \in Range(image'.heap)
           /\ WordFits(s, w)
    ELSE image'.mem = image.mem
Adds(s) ==
  /\ image' \in Images /\ image'.compiled = image.compiled
  /\ HeapAdds(s) /\ MemAdds(s)
  /\ image'.strings = IF s = "strings" THEN Append(image.strings, ItemBlock(s)) ELSE image.strings
  /\ image'.sigs = IF s = "signatures" THEN Append(image.sigs, Entry(s).ref) ELSE image.sigs

LEMMA ItemFacts ==
  ASSUME LoadInv, NEW s \in SectionNames
  PROVE  ItemBlock(s) \in Blocks
  BY BlockFacts DEF ItemBlock, ImageNames, HeapNames, LoadInv, LoadTypeOK

LEMMA PushFacts ==
  ASSUME LoadInv, NEW b \in Blocks
  PROVE  /\ PushOwned(b) \in Images
         /\ PushOwned(b).heap = Append(image.heap, b)
         /\ PushOwned(b).fields = image.fields \cup {"owned_heap"}
         /\ PushOwned(b).strings = image.strings /\ PushOwned(b).sigs = image.sigs
         /\ PushOwned(b).mem = image.mem /\ PushOwned(b).compiled = image.compiled
         /\ b \in Range(PushOwned(b).heap)
<1>1. image \in Images BY DEF LoadInv, LoadTypeOK
<1>2. Append(image.heap, b) \in Seq(Blocks) /\ b \in Range(Append(image.heap, b))
  BY <1>1, AppendFacts DEF Images
<1>3. image.fields \cup {"owned_heap"} \in SUBSET FieldNames BY <1>1 DEF Images, FieldNames
<1> QED BY <1>1, <1>2, <1>3 DEF PushOwned, Images

LEMMA PushedFacts ==
  ASSUME NEW img \in Images, NEW w \in MemWords
  PROVE  /\ Pushed(img, w) \in Images
         /\ Pushed(img, w).mem = Append(img.mem, w)
         /\ Pushed(img, w).heap = img.heap /\ Pushed(img, w).fields = img.fields
         /\ Pushed(img, w).strings = img.strings /\ Pushed(img, w).sigs = img.sigs
         /\ Pushed(img, w).compiled = img.compiled
<1>1. Append(img.mem, w) \in Seq(MemWords) BY AppendFacts DEF Images
<1> QED BY <1>1 DEF Pushed, Images

LEMMA PushedAdds ==
  ASSUME NEW s, NEW img \in Images, NEW w \in MemWords, image' = Pushed(img, w),
         s \in {"constants", "code"}, WordFits(s, w),
         img.strings = image.strings, img.sigs = image.sigs, img.mem = image.mem,
         img.compiled = image.compiled,
         IF Allocates(s, Entry(s))
           THEN img.heap = Append(image.heap, ItemBlock(s)) /\ img.fields = image.fields \cup {"owned_heap"}
           ELSE img.heap = image.heap /\ img.fields = image.fields,
         w.to = "block" => w.block \in Range(img.heap)
  PROVE  Adds(s)
<1>1. /\ image' \in Images /\ image'.mem = Append(image.mem, w)
      /\ image'.heap = img.heap /\ image'.fields = img.fields
      /\ image'.strings = image.strings /\ image'.sigs = image.sigs /\ image'.compiled = image.compiled
  BY PushedFacts
<1>2. HeapAdds(s) BY <1>1 DEF HeapAdds
<1>3. MemAdds(s) BY <1>1 DEF MemAdds
<1> QED BY <1>1, <1>2, <1>3 DEF Adds

(* A string that a constant names is one that was copied. *)
LEMMA ItemOwned ==
  ASSUME LoadInv, NEW k \in Nat, section \in {"constants"}, k < Of("strings").count
  PROVE  Item(image.strings, k) \in Blocks /\ Item(image.strings, k) \in Range(image.heap)
<1>1. image.strings \in Seq(Blocks) BY DEF LoadInv, LoadTypeOK, Images
<1>2. k < Len(image.strings) BY SectionFacts DEF LoadInv, ImageInv, TablesGrow
<1>3. k + 1 \in DOMAIN image.strings BY <1>1, <1>2
<1>4. Item(image.strings, k) = image.strings[k + 1] BY <1>2 DEF Item
<1> QED BY <1>1, <1>3, <1>4 DEF LoadInv, ImageInv, PointersOwned, Range

LEMMA MadeAdds ==
  ASSUME LoadInv, NEW s \in SectionNames, Looping(s), ValidEntry(s, Entry(s)), image' = Made(s, Entry(s))
  PROVE  Adds(s)
<1> DEFINE e == Entry(s)  b == ItemBlock(s)
<1>1. e \in EntryRecord /\ section = s BY EntryFacts DEF LoadInv, Looping
<1>2. b \in Blocks BY ItemFacts
<1>3. image \in Images BY DEF LoadInv, LoadTypeOK
<1>4. \A x \in Blocks : PointTo(x) \in MemWords /\ PointTo(x).to = "block" /\ PointTo(x).block = x
  BY DEF PointTo, MemWords
<1>5. Word \in MemWords /\ Word.to = "word" /\ Block("none", 0) \in Blocks
  BY BlockFacts DEF Word, MemWords
<1>13. \A x \in Blocks, t \in SectionNames : WordFits(t, PointTo(x)) /\ WordFits(t, Word)
  BY <1>4, <1>5 DEF WordFits, Constant
<1>6. CASE s = "strings"
  <2>1. image' = [PushOwned(b) EXCEPT !.strings = Append(@, b)] /\ Allocates(s, e) BY <1>6 DEF Made, Allocates
  <2>2. Append(image.strings, b) \in Seq(Blocks) BY <1>2, <1>3, AppendFacts DEF Images
  <2>3. /\ image' \in Images /\ image'.strings = Append(image.strings, b)
        /\ image'.heap = PushOwned(b).heap /\ image'.fields = PushOwned(b).fields /\ image'.sigs = PushOwned(b).sigs
        /\ image'.mem = PushOwned(b).mem /\ image'.compiled = PushOwned(b).compiled
    BY <1>2, <2>1, <2>2, PushFacts DEF Images
  <2> QED BY <1>2, <1>6, <2>1, <2>3, PushFacts DEF Adds, HeapAdds, MemAdds
<1>7. CASE s = "signatures"
  <2>1. image' = [image EXCEPT !.sigs = Append(@, e.ref)] /\ ~Allocates(s, e) BY <1>7 DEF Made, Allocates
  <2>2. Append(image.sigs, e.ref) \in Seq(Nat) BY <1>1, <1>3, AppendFacts DEF Images, EntryRecord
  <2>3. /\ image' \in Images /\ image'.sigs = Append(image.sigs, e.ref)
        /\ image'.heap = image.heap /\ image'.fields = image.fields /\ image'.strings = image.strings
        /\ image'.mem = image.mem /\ image'.compiled = image.compiled
    BY <1>3, <2>1, <2>2 DEF Images
  <2> QED BY <1>7, <2>1, <2>3 DEF Adds, HeapAdds, MemAdds
<1>8. CASE s = "schemas"
  <2>1. image' = image /\ ~Allocates(s, e) BY <1>8 DEF Made, Allocates
  <2> QED BY <1>3, <1>8, <2>1 DEF Adds, HeapAdds, MemAdds
<1>9. CASE s = "code"
  <2>1. image' = Pushed(image, Token(e)) /\ ~Allocates(s, e) BY <1>9 DEF Made, Allocates
  <2>2. /\ e.kind \in {"alias", "op", "const_ref"} /\ e.ref \in Nat
        /\ e.kind = "alias" => e.ref <= LastAlias
        /\ e.kind = "const_ref" => e.ref < Of("constants").count
    BY <1>1, <1>9 DEF ValidEntry, EntryRecord
  <2>3. Token(e) \in MemWords /\ Token(e).to = e.kind /\ Token(e).index = e.ref
    BY <1>5, <2>2 DEF Token, MemWords
  <2>4. WordFits(s, Token(e)) BY <1>9, <2>2, <2>3 DEF WordFits, DocumentedAliases, LastAlias
  <2> QED BY <1>3, <1>9, <2>1, <2>2, <2>3, <2>4, PushedAdds
<1>10. CASE s = "constants" /\ e.kind = "schema"
  <2>1. image' = Pushed(PushOwned(b), PointTo(b)) /\ Allocates(s, e) BY <1>10 DEF Made, Allocates
  <2>2. PushOwned(b) \in Images BY <1>2, PushFacts
  <2>3. /\ PushOwned(b).heap = Append(image.heap, b) /\ PushOwned(b).fields = image.fields \cup {"owned_heap"}
        /\ PushOwned(b).strings = image.strings /\ PushOwned(b).sigs = image.sigs
        /\ PushOwned(b).mem = image.mem /\ PushOwned(b).compiled = image.compiled
        /\ b \in Range(PushOwned(b).heap)
    BY <1>2, PushFacts
  <2> QED BY <1>2, <1>4, <1>10, <1>13, <2>1, <2>2, <2>3, PushedAdds
<1>11. CASE s = "constants" /\ e.kind \in {"string", "sig"}
  <2>1. PICK x \in Blocks : x \in Range(image.heap) /\ image' = Pushed(image, PointTo(x))
    <3>1. CASE e.kind = "string"
      <4>1. e.ref \in Nat /\ e.ref < Of("strings").count BY <1>1, <1>11, <3>1 DEF ValidEntry, EntryRecord
      <4>2. image' = Pushed(image, PointTo(Item(image.strings, e.ref))) BY <1>11, <3>1 DEF Made
      <4> QED BY <1>1, <1>11, <4>1, <4>2, ItemOwned
    <3>2. CASE e.kind = "sig"
      <4>1. e.ref \in Nat /\ e.ref < Of("signatures").count BY <1>1, <1>11, <3>2 DEF ValidEntry, EntryRecord
      <4>2. e.ref < Len(image.sigs) /\ image.sigs \in Seq(Nat)
        BY <1>1, <1>3, <1>11, <4>1, SectionFacts DEF LoadInv, ImageInv, TablesGrow, Images
      <4>3. e.ref + 1 \in DOMAIN image.sigs BY <4>1, <4>2
      <4>4. image.sigs[e.ref + 1] \in Nat /\ image.sigs[e.ref + 1] < Of("strings").count
        BY <1>1, <4>2, <4>3 DEF LoadInv, ImageInv, TablesGrow
      <4>5. image' = Pushed(image, PointTo(Item(image.strings, image.sigs[e.ref + 1])))
        BY <1>11, <3>2, <4>2 DEF Made
      <4> QED BY <1>1, <1>11, <4>4, <4>5, ItemOwned
    <3> QED BY <1>11, <3>1, <3>2
  <2>2. ~Allocates(s, e) BY <1>11 DEF Allocates
  <2> QED BY <1>3, <1>4, <1>11, <1>13, <2>1, <2>2, PushedAdds
<1>12. CASE s = "constants" /\ e.kind \notin {"string", "sig", "schema"}
  <2>1. image' = Pushed(image, Word) /\ ~Allocates(s, e) BY <1>12 DEF Made, Allocates
  <2> QED BY <1>3, <1>5, <1>12, <1>13, <2>1, PushedAdds
<1> QED BY <1>6, <1>7, <1>8, <1>9, <1>10, <1>11, <1>12, SectionFacts

LEMMA AddsHeld ==
  ASSUME LoadInv, AllHeld, NEW s \in SectionNames, Adds(s), buffer' = buffer,
         live' = live \cup Given(s, Entry(s))
  PROVE  AllHeld' /\ live' \subseteq Blocks
<1>1. image \in Images /\ ItemBlock(s) \in Blocks /\ Block("owned_heap", 0) \in Blocks /\ live \subseteq Blocks
  BY ItemFacts, BlockFacts DEF LoadInv, LoadTypeOK, ImageNames, FieldNames
<1>2. live' \subseteq Blocks BY <1>1 DEF Given
<1>3. CASE Allocates(s, Entry(s))
  <2>1. Range(image'.heap) = Range(image.heap) \cup {ItemBlock(s)}
    <3>1. image.heap \in Seq(Blocks) BY <1>1 DEF Images
    <3>2. image'.heap = Append(image.heap, ItemBlock(s)) BY <1>3 DEF Adds, HeapAdds
    <3> QED BY <1>1, <3>1, <3>2, AppendFacts
  <2>2. {Block(f, 0) : f \in image'.fields} = {Block(f, 0) : f \in image.fields} \cup {Block("owned_heap", 0)}
    BY <1>3 DEF Adds, HeapAdds
  <2> QED BY <1>2, <1>3, <2>1, <2>2 DEF AllHeld, OwnedBy, Given, Adds
<1>4. CASE ~Allocates(s, Entry(s))
  BY <1>2, <1>4 DEF AllHeld, OwnedBy, Given, Adds, HeapAdds
<1> QED BY <1>3, <1>4

LEMMA AddsImage ==
  ASSUME LoadInv, NEW s \in SectionNames, Adds(s), Looping(s), ValidEntry(s, Entry(s)),
         done' = done + 1, section' = section, file' = file
  PROVE  ImageInv'
<1>1. image \in Images /\ image' \in Images /\ ItemBlock(s) \in Blocks /\ section = s /\ done \in Nat
  BY ItemFacts DEF LoadInv, LoadTypeOK, Adds, Looping
<1>2. /\ image.heap \in Seq(Blocks) /\ image.mem \in Seq(MemWords)
      /\ image.strings \in Seq(Blocks) /\ image.sigs \in Seq(Nat)
  BY <1>1 DEF Images
<1>3. Entry(s).ref \in Nat BY EntryFacts DEF LoadInv, EntryRecord
<1>4. HeapGrows /\ TablesGrow /\ PointersOwned /\ MemGrows BY DEF LoadInv, ImageInv
<1>5. Allocates(s, Entry(s)) =>
        /\ s \in {"strings", "constants"}
        /\ ItemBlock(s)[2] = done
        /\ s = "strings" => ItemBlock(s)[1] = "string"
        /\ s = "constants" => ItemBlock(s)[1] = "handle"
  BY DEF Allocates, ItemBlock, Block
<1>6. /\ Allocates(s, Entry(s)) => Range(image'.heap) = Range(image.heap) \cup {ItemBlock(s)}
      /\ ~Allocates(s, Entry(s)) => Range(image'.heap) = Range(image.heap)
  <2>1. Range(Append(image.heap, ItemBlock(s))) = Range(image.heap) \cup {ItemBlock(s)}
    BY <1>1, <1>2, AppendFacts
  <2> QED BY <2>1 DEF Adds, HeapAdds
<1>7. IsInjective(image'.heap)
  <2>1. ASSUME Allocates(s, Entry(s)) PROVE ItemBlock(s) \notin Range(image.heap)
    <3> SUFFICES ASSUME ItemBlock(s) \in Range(image.heap) PROVE FALSE OBVIOUS
    <3>1. CASE s = "strings" BY <1>1, <1>4, <1>5, <2>1, <3>1 DEF HeapGrows
    <3>2. CASE s = "constants" BY <1>1, <1>4, <1>5, <2>1, <3>2 DEF HeapGrows
    <3> QED BY <1>5, <2>1, <3>1, <3>2
  <2>2. IsInjective(image.heap) BY <1>4 DEF HeapGrows
  <2>3. ItemBlock(s) \notin Range(image.heap) => IsInjective(Append(image.heap, ItemBlock(s)))
    BY <1>1, <1>2, <2>2, AppendFacts
  <2> QED BY <2>1, <2>2, <2>3 DEF Adds, HeapAdds
<1>8. \A b \in Range(image.heap) : b[2] \in Nat
  <2>1. Range(image.heap) \subseteq Blocks BY <1>2, RangeOfSeq
  <2> QED BY <2>1 DEF Blocks
<1>9. HeapGrows'
  <2>1. ASSUME NEW b \in Range(image.heap)
        PROVE  /\ b[1] \in HeapNames
               /\ section' \in {"strings", "signatures", "schemas"} => b[1] # "handle"
               /\ section' = "strings" /\ b[1] = "string" => b[2] < done'
               /\ section' = "constants" /\ b[1] = "handle" => b[2] < done'
    BY <1>1, <1>4, <1>8 DEF HeapGrows
  <2>2. ASSUME Allocates(s, Entry(s))
        PROVE  /\ ItemBlock(s)[1] \in HeapNames
               /\ section' \in {"strings", "signatures", "schemas"} => ItemBlock(s)[1] # "handle"
               /\ section' = "strings" /\ ItemBlock(s)[1] = "string" => ItemBlock(s)[2] < done'
               /\ section' = "constants" /\ ItemBlock(s)[1] = "handle" => ItemBlock(s)[2] < done'
    BY <1>1, <1>5, <2>2 DEF HeapNames
  <2> QED BY <1>6, <1>7, <2>1, <2>2 DEF HeapGrows
<1>10. TablesGrow'
  <2>1. s = "strings" => Len(image'.strings) = done + 1 BY <1>1, <1>2, <1>4, AppendFacts DEF Adds, TablesGrow
  <2>2. s # "strings" => Len(image'.strings) = Of("strings").count BY <1>1, <1>4 DEF Adds, TablesGrow
  <2>3. s = "signatures" => Len(image'.sigs) = done + 1
    BY <1>1, <1>2, <1>3, <1>4, AppendFacts DEF Adds, TablesGrow
  <2>4. s \in {"schemas", "constants", "code"} => Len(image'.sigs) = Of("signatures").count
    BY <1>1, <1>4 DEF Adds, TablesGrow
  <2>5. \A i \in DOMAIN image'.sigs : image'.sigs[i] < Of("strings").count
    <3>1. CASE s # "signatures" BY <1>1, <1>4, <3>1 DEF Adds, TablesGrow
    <3>2. CASE s = "signatures"
      <4>1. Entry(s).ref < Of("strings").count BY <3>2 DEF ValidEntry
      <4>2. image'.sigs = Append(image.sigs, Entry(s).ref) BY <3>2 DEF Adds
      <4>3. \A i \in DOMAIN image'.sigs : image'.sigs[i] \in Range(image.sigs) \cup {Entry(s).ref}
        BY <1>2, <1>3, <4>2, AppendFacts DEF Range
      <4>4. \A x \in Range(image.sigs) : x < Of("strings").count BY <1>1, <1>4 DEF TablesGrow, Range
      <4> QED BY <4>1, <4>3, <4>4
    <3> QED BY <3>1, <3>2
  <2>6. s = "strings" => image'.sigs = <<>> BY <1>1, <1>4 DEF Adds, TablesGrow
  <2> QED BY <1>1, <2>1, <2>2, <2>3, <2>4, <2>5, <2>6, OfStays, SectionFacts DEF TablesGrow
<1>11. PointersOwned'
  <2>0. Range(image.heap) \subseteq Range(image'.heap) BY <1>6
  <2>1. Range(image'.strings) \subseteq Range(image'.heap)
    <3>1. CASE s = "strings"
      <4>1. Allocates(s, Entry(s)) BY <3>1 DEF Allocates
      <4>2. Range(image'.strings) = Range(image.strings) \cup {ItemBlock(s)}
        BY <1>1, <1>2, <3>1, AppendFacts DEF Adds
      <4> QED BY <1>4, <1>6, <4>1, <4>2 DEF PointersOwned
    <3>2. CASE s # "strings" BY <1>4, <2>0, <3>2 DEF Adds, PointersOwned
    <3> QED BY <3>1, <3>2
  <2>2. \A w \in Range(image'.mem) : w.to = "block" => w.block \in Range(image'.heap)
    <3>1. CASE image'.mem = image.mem BY <1>4, <2>0, <3>1 DEF PointersOwned
    <3>2. ASSUME NEW w \in MemWords, image'.mem = Append(image.mem, w),
                 w.to = "block" => w.block \in Range(image'.heap)
          PROVE  \A v \in Range(image'.mem) : v.to = "block" => v.block \in Range(image'.heap)
      <4>1. Range(image'.mem) = Range(image.mem) \cup {w} BY <1>2, <3>2, AppendFacts
      <4> QED BY <1>4, <2>0, <3>2, <4>1 DEF PointersOwned
    <3> QED BY <3>1, <3>2 DEF Adds, MemAdds
  <2> QED BY <2>1, <2>2 DEF PointersOwned
<1>12. MemGrows'
  <2>1. Of("constants").count \in Nat /\ done < Of(s).count BY FileFacts, SectionFacts DEF LoadInv, Looping
  <2>2. Of("constants")' = Of("constants") BY OfStays
  <2>3. CASE s \notin {"constants", "code"}
    <3>1. image'.mem = image.mem BY <2>3 DEF Adds, MemAdds
    <3> QED BY <1>1, <1>4, <2>2, <2>3, <3>1, SectionFacts DEF MemGrows, WordsFit
  <2>4. CASE s \in {"constants", "code"}
    <3>1. PICK w \in MemWords : image'.mem = Append(image.mem, w) /\ WordFits(s, w)
      BY <2>4 DEF Adds, MemAdds
    <3>2. /\ Len(image'.mem) = Len(image.mem) + 1 /\ Len(image.mem) \in Nat
          /\ DOMAIN image'.mem = 1 .. Len(image.mem) + 1 /\ DOMAIN image.mem = 1 .. Len(image.mem)
          /\ \A i \in DOMAIN image.mem : image'.mem[i] = image.mem[i]
          /\ image'.mem[Len(image.mem) + 1] = w
      BY <1>2, <3>1, AppendProperties
    <3>3. /\ s = "constants" => Len(image.mem) = done
          /\ s = "code" => Len(image.mem) = Of("constants").count + done
          /\ WordsFit
      BY <1>1, <1>4 DEF MemGrows
    <3>4. ASSUME NEW i \in DOMAIN image'.mem
          PROVE  /\ i <= Of("constants").count => image'.mem[i].to \in Constant
                 /\ image'.mem[i].to = "alias" => image'.mem[i].index \in DocumentedAliases
                 /\ image'.mem[i].to = "const_ref" =>
                      /\ image'.mem[i].index < Of("constants").count
                      /\ Of("constants").count <= Len(image'.mem)
      <4>1. CASE i \in DOMAIN image.mem BY <2>1, <3>2, <3>3, <4>1 DEF WordsFit
      <4>2. CASE i = Len(image.mem) + 1 /\ s = "constants"
        BY <2>1, <3>1, <3>2, <3>3, <4>2 DEF WordFits, Constant
      <4>3. CASE i = Len(image.mem) + 1 /\ s = "code"
        BY <1>1, <2>1, <3>1, <3>2, <3>3, <4>3 DEF WordFits
      <4> QED BY <2>4, <3>2, <4>1, <4>2, <4>3
    <3>5. WordsFit' BY <2>2, <3>4 DEF WordsFit
    <3>6. CASE s = "constants"
      <4>1. Len(image'.mem) = done' BY <1>1, <3>2, <3>3, <3>6
      <4> QED BY <1>1, <3>5, <3>6, <4>1 DEF MemGrows
    <3>7. CASE s = "code"
      <4>1. Len(image'.mem) = Of("constants").count + done'
        <5>1. Len(image.mem) = Of("constants").count + done BY <3>3, <3>7
        <5>2. Len(image'.mem) = Len(image.mem) + 1 BY <3>2
        <5>3. done \in Nat /\ Of("constants").count \in Nat /\ done' = done + 1 BY <1>1, <2>1
        <5> QED BY <5>1, <5>2, <5>3
      <4> QED BY <1>1, <2>2, <3>5, <3>7, <4>1 DEF MemGrows
    <3> QED BY <2>4, <3>6, <3>7
  <2> QED BY <2>3, <2>4
<1> QED BY <1>9, <1>10, <1>11, <1>12 DEF ImageInv

LEMMA LoadEntrySound ==
  ASSUME LoadInv, AllHeld, NEW s \in SectionNames, LoadEntry(s)
  PROVE  LoadInv' /\ AllHeld'
<1>1. Looping(s) BY DEF LoadEntry
<1>2. CASE UNCHANGED <<image, live>> /\ \E why : GiveUp(why)
  <2>1. SameTables /\ live' \subseteq Blocks BY <1>2 DEF LoadInv, LoadTypeOK, SameTables
  <2>2. AllHeld' BY <1>2 DEF AllHeld, OwnedBy, GiveUp
  <2> QED BY <1>2, <2>1, <2>2, GivesUp
<1>3. CASE /\ Fits(off, EntrySize(s, Entry(s)), Bytes(s)) /\ ValidEntry(s, Entry(s))
           /\ image' = Made(s, Entry(s)) /\ live' = live \cup Given(s, Entry(s)) /\ Took(s)
  <2>1. Adds(s) BY <1>1, <1>3, MadeAdds
  <2>2. AllHeld' /\ live' \subseteq Blocks BY <1>3, <2>1, AddsHeld DEF Took
  <2>3. ImageInv' BY <1>1, <1>3, <2>1, AddsImage DEF Took
  <2>4. /\ section = s /\ done < Of(s).count /\ done \in Nat /\ off \in Nat /\ base \in Nat /\ started
        /\ Of(s).count \in Nat /\ Bytes(s) \in Nat /\ EntrySize(s, Entry(s)) \in Nat
        /\ base = Begin[s] /\ (SizesAddUp => 40 + AllBytes <= file.size)
    BY <1>1, FileFacts, EntryFacts DEF LoadInv, LoadTypeOK, Looping, CursorInside
  <2>5. /\ done' = done + 1 /\ off' = off + EntrySize(s, Entry(s)) /\ read' = base + off'
        /\ UNCHANGED <<file, section, started, base, buffer, status>>
    BY <1>3 DEF Took
  <2>6. off' \in Nat /\ off' <= Bytes(s)
    <3> HIDE DEF EntrySize
    <3> QED BY <1>3, <2>4, <2>5 DEF Fits
  <2>7. read' \in Nat /\ read' <= 40 + AllBytes /\ (SizesAddUp => read' <= file.size)
    <3>1. Begin[s] + Bytes(s) <= 40 + AllBytes /\ AllBytes \in Nat /\ file.size \in Nat /\ Begin[s] \in Nat
      BY SpaceFacts DEF LoadInv
    <3> QED BY <2>4, <2>5, <2>6, <3>1
  <2>8. LoadTypeOK' BY <2>1, <2>2, <2>4, <2>5, <2>6, <2>7 DEF LoadInv, LoadTypeOK, Adds
  <2>9. Untouched' BY <2>4, <2>5, SectionFacts DEF Untouched
  <2>10. CursorInside' BY <2>4, <2>5, <2>6, OfStays DEF CursorInside
  <2>11. ReadsInside' BY <2>5, <2>7, OfStays DEF ReadsInside
  <2> QED BY <2>2, <2>3, <2>8, <2>9, <2>10, <2>11 DEF LoadInv
<1> QED BY <1>2, <1>3 DEF LoadEntry, Bytes

LEMMA EndSectionSound ==
  ASSUME LoadInv, AllHeld, NEW s \in SectionNames, EndSection(s)
  PROVE  LoadInv' /\ AllHeld'
<1>1. /\ section = s /\ started /\ done = Of(s).count /\ image' = image /\ live' = live
  BY DEF EndSection
<1>2. SameTables /\ live' \subseteq Blocks BY <1>1 DEF LoadInv, LoadTypeOK, SameTables
<1>3. CASE GiveUp("format")
  <2>1. AllHeld' BY <1>1, <1>3 DEF AllHeld, OwnedBy, GiveUp
  <2> QED BY <1>2, <1>3, <2>1, GivesUp
<1>4. CASE /\ EndsAtItsEnd(s) /\ section' = After[s]
           /\ started' = FALSE /\ done' = 0 /\ off' = 0 /\ base' = base + Bytes(s)
           /\ UNCHANGED <<file, buffer, read, status>>
  <2>1. AllHeld' BY <1>1, <1>4 DEF AllHeld, OwnedBy
  <2>2. /\ base = Begin[s] /\ (SizesAddUp => 40 + AllBytes <= file.size) /\ Bytes(s) \in Nat /\ base \in Nat
        /\ s # "code" => Begin[After[s]] = Begin[s] + Bytes(s)
    BY <1>1, SpaceFacts, FileFacts DEF LoadInv, CursorInside, LoadTypeOK
  <2>3. section' \in SectionNames \cup {"loaded"} /\ (section' = "loaded" <=> s = "code")
    BY <1>4, SectionFacts DEF After
  <2>4. LoadTypeOK'
    <3>1. base' \in Nat /\ done' \in Nat /\ off' \in Nat BY <1>4, <2>2
    <3>2. image \in Images /\ read \in Nat /\ file \in Files /\ buffer \subseteq {Block("buffer", 0)}
      BY DEF LoadInv, LoadTypeOK
    <3> QED BY <1>1, <1>2, <1>4, <2>3, <3>1, <3>2 DEF LoadTypeOK
  <2>5. Untouched' BY <2>3, SectionFacts DEF Untouched
  <2>6. CursorInside'
    <3> SUFFICES ASSUME section' \in SectionNames PROVE CursorInside' BY DEF CursorInside
    <3>1. s # "code" BY <2>3, SectionFacts
    <3>2. Bytes(section') \in Nat /\ Of(section').count \in Nat BY FileFacts DEF LoadInv
    <3>3. Of(section)' = Of(section') /\ Bytes(section)' = Bytes(section') /\ AllBytes' = AllBytes /\ Begin' = Begin
          /\ SizesAddUp' = SizesAddUp
          /\ file' = file
      BY <1>4, OfStays DEF Of, Bytes
    <3> QED BY <1>4, <2>2, <3>1, <3>2, <3>3 DEF CursorInside
  <2>7. ReadsInside' BY <1>4, OfStays DEF LoadInv, ReadsInside
  <2>8. ImageInv'
    <3>1. section' = After[s] /\ done' = 0 BY <1>4
    <3>2. /\ s = "strings" => section' = "signatures"
          /\ s = "signatures" => section' = "schemas"
          /\ s = "schemas" => section' = "constants"
          /\ s = "constants" => section' = "code"
          /\ s = "code" => section' = "loaded"
      BY <3>1 DEF After
    <3>3. TablesGrow /\ HeapGrows BY DEF LoadInv, ImageInv
    <3>4. TablesGrow'
      <4>1. Of("strings")' = Of("strings") /\ Of("signatures")' = Of("signatures") BY <1>4, OfStays
      <4>2. s = "strings" => image.sigs = <<>> BY <1>1, <3>3 DEF TablesGrow
      <4>3. CASE s = "strings" BY <1>1, <3>1, <3>2, <3>3, <4>1, <4>2, <4>3, SectionFacts DEF TablesGrow
      <4>4. CASE s # "strings" BY <1>1, <3>1, <3>2, <3>3, <4>1, <4>4, SectionFacts DEF TablesGrow
      <4> QED BY <4>3, <4>4
    <3>5. HeapGrows'
      <4>1. CASE s \in {"schemas"} BY <1>1, <3>1, <3>2, <3>3, <4>1 DEF HeapGrows
      <4>2. CASE s \in {"constants", "code"} BY <1>1, <3>1, <3>2, <3>3, <4>2 DEF HeapGrows
      <4>3. CASE s \in {"strings", "signatures"} BY <1>1, <3>1, <3>2, <3>3, <4>3 DEF HeapGrows
      <4> QED BY <4>1, <4>2, <4>3, SectionFacts
    <3>6. PointersOwned' BY <1>1 DEF LoadInv, ImageInv, PointersOwned
    <3>7. MemGrows'
      <4>1. Of("constants")' = Of("constants") /\ Of("constants").count \in Nat
        BY <1>4, OfStays, FileFacts, SectionFacts DEF LoadInv
      <4>2. MemGrows /\ WordsFit' = WordsFit BY <1>1, <4>1 DEF LoadInv, ImageInv, MemGrows, WordsFit
      <4> QED BY <1>1, <3>1, <3>2, <4>1, <4>2, SectionFacts DEF MemGrows
    <3> QED BY <3>4, <3>5, <3>6, <3>7 DEF ImageInv
  <2> QED BY <2>1, <2>4, <2>5, <2>6, <2>7, <2>8 DEF LoadInv
<1> QED BY <1>3, <1>4 DEF EndSection, Bytes

LEMMA LoadInitSound ==
  ASSUME LoadInit
  PROVE  LoadInv /\ AllHeld
<1>1. image = Zeroed /\ Zeroed \in Images BY DEF LoadInit, Zeroed, Images
<1>2. LoadTypeOK BY <1>1 DEF LoadInit, LoadTypeOK
<1>3. Untouched /\ CursorInside BY <1>1, SectionFacts DEF LoadInit, Untouched, CursorInside
<1>4. ReadsInside BY <1>2, SpaceFacts DEF LoadInit, ReadsInside
<1>5. ImageInv
  BY <1>1, SectionFacts DEF LoadInit, ImageInv, TablesGrow, HeapGrows, PointersOwned, MemGrows, WordsFit, Zeroed, Range, IsInjective
<1>6. OwnedBy(Zeroed) = {} BY DEF OwnedBy, Zeroed, Range
<1>7. AllHeld BY <1>1, <1>6 DEF LoadInit, AllHeld
<1> QED BY <1>2, <1>3, <1>4, <1>5, <1>7 DEF LoadInv

LEMMA LoadStepSound ==
  ASSUME LoadInv, AllHeld, LoadStep
  PROVE  LoadInv' /\ AllHeld'
  BY LoadFromMemorySound, LoadFromFileSound, ReturnFromFileSound, ReadHeaderSound, CopySchemasSound,
     FailLoadSound, StartSound, LoadEntrySound, EndSectionSound DEF LoadStep
-----------------------------------------------------------------------------
(* Where the entries of a section end.  EntryEnds is a recursive function:  *)
(* that there is one is shown by extending it an entry at a time, up to the *)
(* least count for which there would be none.                              *)

LEMMA LeastOf ==
  ASSUME NEW T \in SUBSET Nat, T # {}
  PROVE  \E n \in T : \A m \in T : n <= m
<1>1. PICK n \in T : \A m \in T : ~(<<m, n>> \in OpToRel(<, Nat))
  BY NatLessThanWellFounded, WFMin
<1>2. \A m \in T : ~(m < n) BY <1>1 DEF OpToRel
<1> QED BY <1>2

LEMMA SumsExist ==
  ASSUME NEW count \in Nat, NEW size \in [1 .. count -> Nat]
  PROVE  \E sum \in [0 .. count -> Nat] :
           sum[0] = 0 /\ \A n \in 1 .. count : sum[n] = sum[n - 1] + size[n]
<1> DEFINE SumsTo(m) ==
      \E sum \in [0 .. m -> Nat] :
        sum[0] = 0 /\ \A n \in 1 .. m : sum[n] = sum[n - 1] + size[n]
<1> DEFINE Short == {m \in 0 .. count : ~SumsTo(m)}
<1> SUFFICES ASSUME ~SumsTo(count) PROVE FALSE OBVIOUS
<1> HIDE DEF SumsTo
<1>1. count \in Short OBVIOUS
<1>2. PICK m \in Short : \A k \in Short : m <= k
  <2>1. Short \in SUBSET Nat /\ Short # {} BY <1>1
  <2> HIDE DEF Short
  <2> QED BY <2>1, LeastOf
<1>3. m \in 0 .. count /\ m \in Nat /\ ~SumsTo(m) OBVIOUS
<1>4. CASE m = 0
  <2> DEFINE zero == [n \in 0 .. 0 |-> 0]
  <2>1. zero \in [0 .. 0 -> Nat] /\ zero[0] = 0 /\ 1 .. 0 = {} OBVIOUS
  <2>2. SumsTo(0) BY <2>1 DEF SumsTo
  <2> QED BY <1>3, <1>4, <2>2
<1>5. CASE m # 0
  <2>1. m - 1 \in Nat /\ m - 1 \in 0 .. count /\ ~(m <= m - 1) BY <1>3, <1>5
  <2>2. SumsTo(m - 1) BY <1>2, <2>1
  <2>3. PICK sum \in [0 .. m - 1 -> Nat] :
          sum[0] = 0 /\ \A n \in 1 .. m - 1 : sum[n] = sum[n - 1] + size[n]
    BY <2>2 DEF SumsTo
  <2> DEFINE more == [n \in 0 .. m |-> IF n = m THEN sum[m - 1] + size[m] ELSE sum[n]]
  <2>4. m \in 1 .. count /\ m - 1 \in 0 .. m - 1 BY <1>3, <1>5
  <2>5. sum[m - 1] + size[m] \in Nat BY <2>4
  <2>6. more \in [0 .. m -> Nat]
    <3>1. \A n \in 0 .. m : n # m => n \in 0 .. m - 1 BY <1>3
    <3> QED BY <2>5, <3>1
  <2>7. more[0] = 0 BY <1>3, <1>5, <2>3
  <2>8. ASSUME NEW n \in 1 .. m PROVE more[n] = more[n - 1] + size[n]
    <3>1. n \in 0 .. m /\ n - 1 \in 0 .. m /\ n - 1 # m BY <1>3
    <3>2. more[n - 1] = sum[n - 1] BY <3>1
    <3>3. CASE n = m BY <3>1, <3>2, <3>3
    <3>4. CASE n # m
      <4>1. n \in 1 .. m - 1 BY <1>3, <3>4
      <4> QED BY <2>3, <3>1, <3>2, <3>4, <4>1
    <3> QED BY <3>3, <3>4
  <2> HIDE DEF more
  <2>9. SumsTo(m) BY <2>6, <2>7, <2>8 DEF SumsTo
  <2> QED BY <1>3, <2>9
<1> QED BY <1>4, <1>5

LEMMA SizeType ==
  ASSUME NEW s \in SectionNames, NEW e \in EntryRecord
  PROVE  EntrySize(s, e) \in Nat /\ (s = "schemas" => EntrySize(s, e) > 0)
<1>1. Len(e.fields) \in Nat /\ e.len \in Nat BY DEF EntryRecord
<1> QED BY <1>1, SectionFacts DEF EntrySize, ConstPayload

LEMMA EntriesTyped ==
  ASSUME LoadTypeOK, NEW s \in SectionNames, NEW k \in 1 .. Of(s).count
  PROVE  Of(s).entries[k] \in EntryRecord
<1>1. Of(s).entries \in Seq(EntryRecord) /\ Of(s).count \in Nat /\ Of(s).count <= Len(Of(s).entries)
  BY FileFacts DEF Section
<1>2. k \in 1 .. Len(Of(s).entries) BY <1>1
<1> QED BY <1>1, <1>2, ElementOfSeq

LEMMA EndsFacts ==
  ASSUME LoadTypeOK, NEW s \in SectionNames
  PROVE  /\ EntryEnds(s)[0] = 0
         /\ \A n \in 0 .. Of(s).count : EntryEnds(s)[n] \in Nat
         /\ \A n \in 1 .. Of(s).count :
              EntryEnds(s)[n] = EntryEnds(s)[n - 1] + EntrySize(s, Of(s).entries[n])
<1> DEFINE count == Of(s).count
           size == [k \in 1 .. count |-> EntrySize(s, Of(s).entries[k])]
           Ends(f) == f = [n \in 0 .. count |->
                             IF n = 0 THEN 0 ELSE f[n - 1] + EntrySize(s, Of(s).entries[n])]
<1>1. count \in Nat BY FileFacts
<1>2. size \in [1 .. count -> Nat] BY EntriesTyped, SizeType
<1>3. PICK sum \in [0 .. count -> Nat] :
        sum[0] = 0 /\ \A n \in 1 .. count : sum[n] = sum[n - 1] + size[n]
  <2> HIDE DEF size, count
  <2> QED BY <1>1, <1>2, SumsExist
<1>4. Ends(sum)
  <2>1. ASSUME NEW n \in 0 .. count
        PROVE  sum[n] = IF n = 0 THEN 0 ELSE sum[n - 1] + EntrySize(s, Of(s).entries[n])
    <3>1. n # 0 => n \in 1 .. count BY <1>1
    <3> QED BY <1>3, <3>1
  <2> QED BY <1>1, <1>3, <2>1
<1>5. EntryEnds(s) = CHOOSE f : Ends(f) BY DEF EntryEnds, EndsOf
<1>6. Ends(EntryEnds(s))
  <2> HIDE DEF Ends
  <2> QED BY <1>4, <1>5
<1>7. ASSUME NEW n \in 0 .. count PROVE EntryEnds(s)[n] = sum[n]
  <2> DEFINE Off == {m \in 0 .. count : EntryEnds(s)[m] # sum[m]}
  <2> SUFFICES ASSUME n \in Off PROVE FALSE OBVIOUS
  <2>1. PICK m \in Off : \A k \in Off : m <= k
    <3>1. Off \in SUBSET Nat /\ Off # {} BY <1>1
    <3> HIDE DEF Off
    <3> QED BY <3>1, LeastOf
  <2>2. m \in 0 .. count /\ EntryEnds(s)[m] # sum[m] OBVIOUS
  <2>3. m # 0 BY <1>1, <1>3, <1>6, <2>2
  <2>4. m - 1 \in 0 .. count /\ m - 1 \notin Off /\ m \in 1 .. count
    <3>1. m - 1 \in 0 .. count /\ ~(m <= m - 1) /\ m \in 1 .. count BY <1>1, <2>2, <2>3
    <3> HIDE DEF Off
    <3> QED BY <2>1, <3>1
  <2>5. EntryEnds(s)[m - 1] = sum[m - 1] BY <2>4
  <2>6. EntryEnds(s)[m] = EntryEnds(s)[m - 1] + EntrySize(s, Of(s).entries[m]) BY <1>6, <2>2, <2>3
  <2>7. sum[m] = sum[m - 1] + EntrySize(s, Of(s).entries[m]) BY <1>3, <2>4
  <2> QED BY <2>2, <2>5, <2>6, <2>7
<1> HIDE DEF Ends
<1>8. EntryEnds(s)[0] = 0 BY <1>1, <1>3, <1>7
<1>9. ASSUME NEW n \in 1 .. count
      PROVE  EntryEnds(s)[n] = EntryEnds(s)[n - 1] + EntrySize(s, Of(s).entries[n])
  <2>1. n \in 0 .. count /\ n - 1 \in 0 .. count BY <1>1
  <2>2. sum[n] = sum[n - 1] + EntrySize(s, Of(s).entries[n]) BY <1>3
  <2> QED BY <1>7, <2>1, <2>2
<1>10. \A n \in 0 .. count : EntryEnds(s)[n] \in Nat BY <1>3, <1>7
<1> QED BY <1>8, <1>9, <1>10

LEMMA EndsGrow ==
  ASSUME LoadTypeOK, NEW s \in SectionNames,
         NEW m \in 0 .. Of(s).count, NEW n \in 0 .. Of(s).count, m <= n
  PROVE  EntryEnds(s)[m] <= EntryEnds(s)[n]
<1> DEFINE Less == {k \in m .. Of(s).count : ~(EntryEnds(s)[m] <= EntryEnds(s)[k])}
<1> SUFFICES ASSUME ~(EntryEnds(s)[m] <= EntryEnds(s)[n]) PROVE FALSE OBVIOUS
<1>1. Of(s).count \in Nat BY FileFacts
<1>2. PICK k \in Less : \A j \in Less : k <= j
  <2>1. n \in Less /\ Less \in SUBSET Nat BY <1>1
  <2> HIDE DEF Less
  <2> QED BY <2>1, LeastOf
<1>3. k \in m .. Of(s).count /\ ~(EntryEnds(s)[m] <= EntryEnds(s)[k]) OBVIOUS
<1>4. EntryEnds(s)[m] \in Nat BY EndsFacts
<1>5. k # m BY <1>3, <1>4
<1>6. /\ k - 1 \in m .. Of(s).count /\ k \in 1 .. Of(s).count /\ k - 1 \in 0 .. Of(s).count
      /\ ~(k <= k - 1)
  BY <1>1, <1>3, <1>5
<1>7. EntryEnds(s)[m] <= EntryEnds(s)[k - 1]
  <2>1. k - 1 \notin Less
    <3> HIDE DEF Less
    <3> QED BY <1>2, <1>6
  <2> QED BY <1>6, <2>1
<1>8. /\ EntryEnds(s)[k] = EntryEnds(s)[k - 1] + EntrySize(s, Of(s).entries[k])
      /\ EntrySize(s, Of(s).entries[k]) \in Nat /\ EntryEnds(s)[k - 1] \in Nat
  BY <1>6, EndsFacts, EntriesTyped, SizeType
<1> QED BY <1>3, <1>4, <1>7, <1>8
-----------------------------------------------------------------------------
(* The load against the document *)

LEMMA DocumentStays ==
  ASSUME file' = file
  PROVE  /\ \A s : EntryEnds(s)' = EntryEnds(s) /\ Documented(s)' = Documented(s)
                  /\ Accepted(s)' = Accepted(s)
         /\ \A s, e : DocumentedEntry(s, e)' = DocumentedEntry(s, e)
         /\ WellFormed' = WellFormed
<1>1. \A s : EntryEnds(s)' = EntryEnds(s) BY OfStays DEF EntryEnds
<1>2. \A s, e : DocumentedEntry(s, e)' = DocumentedEntry(s, e)
  BY OfStays DEF DocumentedEntry
<1>3. \A s : Documented(s)' = Documented(s) BY <1>1, <1>2, OfStays DEF Documented
<1>4. \A s : Accepted(s)' = Accepted(s) BY <1>3, OfStays DEF Accepted
<1>5. WellFormed' = WellFormed BY <1>3, OfStays DEF WellFormed, SectionsDocumented
<1> QED BY <1>1, <1>2, <1>3, <1>4, <1>5

(* An index of an entry, against the table it is of. *)
LEMMA OneIndex ==
  ASSUME NEW table, NEW k
  PROVE  (\A index \in {<<table, k>>} : index[2] < Of(index[1]).count) <=> k < Of(table).count
<1>1. <<table, k>>[1] = table /\ <<table, k>>[2] = k OBVIOUS
<1> QED BY <1>1, Zenon

(* The checks of the loops are those of the document. *)
LEMMA ChecksDocumented ==
  ASSUME NEW s \in SectionNames, NEW e \in EntryRecord
  PROVE  ValidEntry(s, e) <=> DocumentedEntry(s, e)
<1> DEFINE InTables == \A index \in Indices(s, e) : index[2] < Of(index[1]).count
<1>1. CASE s = "strings"
  <2>1. Indices(s, e) = {} BY <1>1 DEF Indices
  <2> QED BY <1>1, <2>1 DEF ValidEntry, DocumentedEntry
<1>2. CASE s = "signatures"
  <2>1. Indices(s, e) = {<<"strings", e.ref>>} BY <1>2 DEF Indices
  <2>2. InTables <=> e.ref < Of("strings").count BY <2>1, OneIndex
  <2> HIDE DEF InTables
  <2>3. DocumentedEntry(s, e) <=> InTables BY <1>2 DEF DocumentedEntry, InTables
  <2> QED BY <1>2, <2>2, <2>3 DEF ValidEntry
<1>3. CASE s = "schemas"
  <2>1. Indices(s, e) = {<<"strings", f.name>> : f \in Range(e.fields)}
          \cup {<<"schemas", f.ref>> : f \in {g \in Range(e.fields) : g.kind = "struct"}}
    BY <1>3 DEF Indices
  <2>2. InTables <=> \A f \in Range(e.fields) :
          /\ f.name < Of("strings").count
          /\ f.kind = "struct" => f.ref < Of("schemas").count
    <3>1. ASSUME InTables, NEW f \in Range(e.fields)
          PROVE  /\ f.name < Of("strings").count
                 /\ f.kind = "struct" => f.ref < Of("schemas").count
      <4>1. <<"strings", f.name>> \in Indices(s, e) BY <2>1, Zenon
      <4>2. f.kind = "struct" => <<"schemas", f.ref>> \in Indices(s, e) BY <2>1, Zenon
      <4>3. \A index \in {<<"strings", f.name>>} : index[2] < Of(index[1]).count BY <3>1, <4>1
      <4>4. f.kind = "struct" =>
              \A index \in {<<"schemas", f.ref>>} : index[2] < Of(index[1]).count
        BY <3>1, <4>2
      <4> QED BY <4>3, <4>4, OneIndex
    <3>2. ASSUME \A f \in Range(e.fields) :
                   /\ f.name < Of("strings").count
                   /\ f.kind = "struct" => f.ref < Of("schemas").count,
                 NEW index \in Indices(s, e)
          PROVE  index[2] < Of(index[1]).count
      <4>1. \/ \E f \in Range(e.fields) : index = <<"strings", f.name>>
            \/ \E f \in Range(e.fields) : f.kind = "struct" /\ index = <<"schemas", f.ref>>
        BY <2>1, Zenon
      <4>2. CASE \E f \in Range(e.fields) : index = <<"strings", f.name>>
        <5>1. PICK f \in Range(e.fields) : index = <<"strings", f.name>> BY <4>2
        <5>2. f.name < Of("strings").count BY <3>2
        <5>3. \A i \in {<<"strings", f.name>>} : i[2] < Of(i[1]).count BY <5>2, OneIndex
        <5> QED BY <5>1, <5>3
      <4>3. CASE \E f \in Range(e.fields) : f.kind = "struct" /\ index = <<"schemas", f.ref>>
        <5>1. PICK f \in Range(e.fields) : f.kind = "struct" /\ index = <<"schemas", f.ref>>
          BY <4>3
        <5>2. f.ref < Of("schemas").count BY <3>2, <5>1
        <5>3. \A i \in {<<"schemas", f.ref>>} : i[2] < Of(i[1]).count BY <5>2, OneIndex
        <5> QED BY <5>1, <5>3
      <4> QED BY <4>1, <4>2, <4>3
    <3> QED BY <3>1, <3>2
  <2> HIDE DEF InTables
  <2>3. DocumentedEntry(s, e) <=>
          /\ e.kind \in {"struct", "union"} /\ e.reserved = 0 /\ InTables
          /\ \A f \in Range(e.fields) :
               /\ f.kind \in {"prim", "array", "struct", "pointer"} /\ f.reserved = 0
               /\ f.kind \in {"prim", "array"} => f.prim \in SizedPrims
               /\ f.kind = "array" => f.aux > 0
    BY <1>3 DEF DocumentedEntry, InTables, KindsOf, DocumentedPrims, SizedPrims
  <2>4. \A f \in Range(e.fields) : (f.aux > 0) <=> f.aux # 0
    <3>1. e.fields \in Seq(Field) BY DEF EntryRecord
    <3>2. Range(e.fields) \subseteq Field BY <3>1, RangeOfSeq
    <3>3. \A f \in Range(e.fields) : f.aux \in Nat BY <3>2 DEF Field
    <3> QED BY <3>3
  <2> QED BY <1>3, <2>2, <2>3, <2>4 DEF ValidEntry, ValidField
<1>4. CASE s = "constants"
  <2>1. Indices(s, e) = IF e.kind = "string" THEN {<<"strings", e.ref>>}
                        ELSE IF e.kind = "sig" THEN {<<"signatures", e.ref>>} ELSE {}
    BY <1>4 DEF Indices
  <2>2. InTables <=> /\ e.kind = "string" => e.ref < Of("strings").count
                     /\ e.kind = "sig" => e.ref < Of("signatures").count
    <3>1. CASE e.kind = "string" BY <2>1, <3>1, OneIndex
    <3>2. CASE e.kind = "sig" BY <2>1, <3>2, OneIndex
    <3>3. CASE e.kind \notin {"string", "sig"}
      <4>1. Indices(s, e) = {} BY <2>1, <3>3
      <4> QED BY <3>3, <4>1
    <3> QED BY <3>1, <3>2, <3>3
  <2> HIDE DEF InTables
  <2>3. DocumentedEntry(s, e) <=> e.kind \in ConstKinds /\ e.reserved = 0 /\ InTables
    BY <1>4 DEF DocumentedEntry, InTables, KindsOf
  <2> QED BY <1>4, <2>2, <2>3 DEF ValidEntry
<1>5. CASE s = "code"
  <2>1. e.ref \in Nat BY DEF EntryRecord
  <2>2. Indices(s, e) = IF e.kind = "const_ref" THEN {<<"constants", e.ref>>} ELSE {}
    BY <1>5 DEF Indices
  <2>3. InTables <=> (e.kind = "const_ref" => e.ref < Of("constants").count)
    <3>1. CASE e.kind = "const_ref" BY <2>2, <3>1, OneIndex
    <3>2. CASE e.kind # "const_ref"
      <4>1. Indices(s, e) = {} BY <2>2, <3>2
      <4> QED BY <3>2, <4>1
    <3> QED BY <3>1, <3>2
  <2> HIDE DEF InTables
  <2>4. DocumentedEntry(s, e) <=>
          /\ e.kind \in {"alias", "op", "const_ref"} /\ e.reserved = 0 /\ InTables
          /\ e.kind = "alias" => e.ref \in 0 .. 4
    BY <1>5 DEF DocumentedEntry, DocumentedAliases, InTables, KindsOf
  <2> QED BY <1>5, <2>1, <2>3, <2>4 DEF ValidEntry, LastAlias
<1> QED BY <1>1, <1>2, <1>3, <1>4, <1>5, SectionFacts

(* Giving up is right when a section that has entries is not as documented, *)
(* and over no memory always.                                              *)
LEMMA GivesUpRight ==
  ASSUME LoadInv, ReadSoFar, NEW why, GiveUp(why),
         why = "format" => \E s \in SectionNames : ~Accepted(s)
  PROVE  ReadSoFar'
<1>1. why = "format" => ~WellFormed BY DEF WellFormed, SectionsDocumented, Accepted
<1>2. section' = "failing" /\ status' = why /\ file' = file BY DEF GiveUp
<1>3. "failing" \notin SectionNames \cup {"loaded"} BY SectionFacts
<1> QED BY <1>1, <1>2, <1>3, DocumentStays DEF ReadSoFar

LEMMA ReadsOn ==
  ASSUME ReadSoFar, UNCHANGED <<file, section, done, off, status>>
  PROVE  ReadSoFar'
<1>1. \A s : /\ Of(s)' = Of(s) /\ EntryEnds(s)' = EntryEnds(s) /\ Accepted(s)' = Accepted(s)
             /\ \A e : DocumentedEntry(s, e)' = DocumentedEntry(s, e)
  BY DocumentStays, OfStays
<1>2. /\ SizesAddUp' = SizesAddUp /\ HasItsSections' = HasItsSections
      /\ WellFormed' = WellFormed
  BY DocumentStays, OfStays
<1>3. EntryEnds(section)' = EntryEnds(section) /\ Of(section)' = Of(section) BY <1>1
<1>4. \A e : DocumentedEntry(section, e)' = DocumentedEntry(section, e) BY <1>1
<1> QED BY <1>1, <1>2, <1>3, <1>4 DEF ReadSoFar, Passed

LEMMA ReadHeaderRight ==
  ASSUME LoadInv, ReadSoFar, ReadHeader
  PROVE  ReadSoFar'
<1>1. /\ AllBytes \in Nat /\ Space \in Nat /\ file.size \in Nat
      /\ SizesAddUp => Space = AllBytes
      /\ Space <= AllBytes
  BY SpaceFacts DEF LoadInv
<1>2. /\ Fits(40, Space, file.size) => (SizesAddUp => HasItsSections)
      /\ HasItsSections => Fits(40, Space, file.size)
  BY <1>1 DEF Fits, HasItsSections
<1>3. done = 0 /\ off = 0 /\ UNCHANGED <<file, done, off>> BY DEF LoadInv, Untouched, ReadHeader
<1>4. CASE section' = "strings" /\ file.header /\ Fits(40, Space, file.size)
  <2>1. Passed["strings"] = {} /\ "strings" \in SectionNames BY SectionFacts DEF Passed
  <2>2. EntryEnds("strings")[0] = 0 BY <2>1, EndsFacts DEF LoadInv
  <2>3. /\ EntryEnds(section)' = EntryEnds("strings")
        /\ SizesAddUp' = SizesAddUp /\ HasItsSections' = HasItsSections
    BY <1>3, <1>4, OfStays DEF EntryEnds
  <2> QED BY <1>2, <1>3, <1>4, <2>1, <2>2, <2>3 DEF ReadSoFar, Passed
<1>5. CASE section' = "failed" /\ ~(file.header /\ Fits(40, Space, file.size))
  <2>1. ~WellFormed' BY <1>2, <1>3, <1>5, DocumentStays DEF WellFormed, SectionsDocumented
  <2>2. "failed" \notin SectionNames \cup {"loaded"} BY SectionFacts
  <2> QED BY <1>5, <2>1, <2>2 DEF ReadSoFar
<1> QED BY <1>4, <1>5 DEF ReadHeader

LEMMA StartRight ==
  ASSUME LoadInv, ReadSoFar, NEW s \in SectionNames, Start(s)
  PROVE  ReadSoFar'
<1>1. CASE GiveUp("format") /\ s = "schemas" /\ Of(s).count > 0 /\ Of(s).bytes = 0
  <2>1. Of(s).count \in Nat /\ 1 \in 0 .. Of(s).count /\ 1 \in 1 .. Of(s).count
        /\ Of(s).count \in 0 .. Of(s).count
    BY <1>1, FileFacts DEF LoadInv
  <2>2. EntryEnds(s)[1] = EntryEnds(s)[1 - 1] + EntrySize(s, Of(s).entries[1]) /\ EntryEnds(s)[0] = 0
    BY <2>1, EndsFacts DEF LoadInv
  <2>3. EntrySize(s, Of(s).entries[1]) \in Nat /\ EntrySize(s, Of(s).entries[1]) > 0
    BY <1>1, <2>1, EntriesTyped, SizeType DEF LoadInv
  <2>4. EntryEnds(s)[1] <= EntryEnds(s)[Of(s).count] /\ EntryEnds(s)[Of(s).count] \in Nat
        /\ EntryEnds(s)[1] \in Nat
    BY <2>1, EndsGrow, EndsFacts DEF LoadInv
  <2>5. EntryEnds(s)[Of(s).count] # 0 BY <2>2, <2>3, <2>4
  <2>6. ~Accepted(s) BY <1>1, <2>1, <2>5 DEF Accepted, Documented
  <2> QED BY <1>1, <2>6, GivesUpRight
<1>2. CASE GiveUp("alloc") BY <1>2, GivesUpRight
<1>3. CASE UNCHANGED <<file, section, done, off, status>> BY <1>3, ReadsOn
<1> QED BY <1>1, <1>2, <1>3 DEF Start

LEMMA CopySchemasRight ==
  ASSUME LoadInv, ReadSoFar, CopySchemas
  PROVE  ReadSoFar'
<1>1. CASE GiveUp("alloc") BY <1>1, GivesUpRight
<1>2. CASE UNCHANGED <<file, section, done, off, status>> BY <1>2, ReadsOn
<1> QED BY <1>1, <1>2 DEF CopySchemas

LEMMA LoadEntryRight ==
  ASSUME LoadInv, ReadSoFar, NEW s \in SectionNames, LoadEntry(s)
  PROVE  ReadSoFar'
<1>1. section = s /\ done < Of(s).count BY DEF LoadEntry, Looping
<1>2. /\ Of(s).count \in Nat /\ done \in Nat /\ off \in Nat /\ Of(s).bytes \in Nat
      /\ off <= Of(s).bytes
  BY <1>1, FileFacts DEF LoadInv, LoadTypeOK, CursorInside, Bytes
<1>3. /\ done + 1 \in 1 .. Of(s).count /\ done + 1 \in 0 .. Of(s).count /\ (done + 1) - 1 = done
      /\ Of(s).count \in 0 .. Of(s).count
  BY <1>1, <1>2
<1>4. Entry(s) \in EntryRecord /\ EntrySize(s, Entry(s)) \in Nat
  BY <1>3, EntriesTyped, SizeType DEF LoadInv, Entry
<1>5. off = EntryEnds(s)[done] BY <1>1 DEF ReadSoFar
<1>6. EntryEnds(s)[done + 1] = off + EntrySize(s, Entry(s))
  BY <1>3, <1>5, EndsFacts DEF LoadInv, Entry
<1>7. CASE Took(s) /\ ValidEntry(s, Entry(s))
  <2>1. done' = done + 1 /\ off' = off + EntrySize(s, Entry(s)) /\ UNCHANGED <<file, section, status>>
    BY <1>7 DEF Took
  <2>2. DocumentedEntry(s, Entry(s)) BY <1>4, <1>7, ChecksDocumented
  <2>3. \A k \in 1 .. done + 1 : DocumentedEntry(s, Of(s).entries[k])
    <3>1. \A k \in 1 .. done : DocumentedEntry(s, Of(s).entries[k]) BY <1>1 DEF ReadSoFar
    <3>2. \A k \in 1 .. done + 1 : k \in 1 .. done \/ k = done + 1 BY <1>2
    <3> QED BY <2>2, <3>1, <3>2 DEF Entry
  <2>4. /\ EntryEnds(section)' = EntryEnds(s) /\ Of(section)' = Of(s)
        /\ \A e : DocumentedEntry(section, e)' = DocumentedEntry(s, e)
    BY <1>1, <2>1, DocumentStays, OfStays
  <2>5. /\ off' = EntryEnds(section)'[done']
        /\ \A k \in 1 .. done' : DocumentedEntry(section, Of(section).entries[k])'
    BY <1>6, <2>1, <2>3, <2>4
  <2>6. /\ file.header /\ (SizesAddUp => HasItsSections)
        /\ \A r \in Passed[section] : Accepted(r)
    BY <1>1 DEF ReadSoFar
  <2>7. s # "failing" /\ s # "failed" BY SectionFacts
  <2>8. SizesAddUp' = SizesAddUp /\ HasItsSections' = HasItsSections BY <2>1, OfStays
  <2>9. \A r \in Passed[section]' : Accepted(r)' BY <2>1, <2>6, DocumentStays DEF Passed
  <2> QED BY <1>1, <2>1, <2>5, <2>6, <2>7, <2>8, <2>9 DEF ReadSoFar
<1>8. CASE GiveUp("alloc") BY <1>8, GivesUpRight
<1>9. CASE GiveUp("format") /\ ~Fits(off, EntrySize(s, Entry(s)), Of(s).bytes)
  <2>1. off + EntrySize(s, Entry(s)) > Of(s).bytes
    <3> HIDE DEF EntrySize
    <3> QED BY <1>2, <1>4, <1>9 DEF Fits
  <2>2. EntryEnds(s)[done + 1] <= EntryEnds(s)[Of(s).count] /\ EntryEnds(s)[Of(s).count] \in Nat
    BY <1>3, EndsGrow, EndsFacts DEF LoadInv
  <2>3. EntryEnds(s)[Of(s).count] # Of(s).bytes BY <1>2, <1>4, <1>6, <2>1, <2>2
  <2>4. ~Accepted(s) BY <1>1, <1>2, <2>3 DEF Accepted, Documented
  <2> QED BY <1>9, <2>4, GivesUpRight
<1>10. CASE GiveUp("format") /\ ~ValidEntry(s, Entry(s))
  <2>1. ~DocumentedEntry(s, Of(s).entries[done + 1]) BY <1>4, <1>10, ChecksDocumented DEF Entry
  <2>2. ~Accepted(s) BY <1>1, <1>2, <1>3, <2>1 DEF Accepted, Documented
  <2> QED BY <1>10, <2>2, GivesUpRight
<1> QED BY <1>7, <1>8, <1>9, <1>10 DEF LoadEntry

LEMMA EndSectionRight ==
  ASSUME LoadInv, ReadSoFar, NEW s \in SectionNames, EndSection(s)
  PROVE  ReadSoFar'
<1>1. section = s /\ done = Of(s).count BY DEF EndSection
<1>2. /\ off = EntryEnds(s)[Of(s).count]
      /\ \A k \in 1 .. Of(s).count : DocumentedEntry(s, Of(s).entries[k])
      /\ file.header /\ (SizesAddUp => HasItsSections)
      /\ \A r \in Passed[s] : Accepted(r)
  BY <1>1 DEF ReadSoFar
<1>3. CASE GiveUp("format") /\ ~EndsAtItsEnd(s)
  <2>1. ~Accepted(s) BY <1>2, <1>3 DEF EndsAtItsEnd, Accepted, Documented
  <2> QED BY <1>3, <2>1, GivesUpRight
<1>4. CASE /\ EndsAtItsEnd(s) /\ section' = After[s] /\ done' = 0 /\ off' = 0
           /\ UNCHANGED <<file, status>>
  <2>1. Accepted(s) BY <1>2, <1>4 DEF EndsAtItsEnd, Accepted, Documented
  <2>2. /\ section' \in SectionNames \cup {"loaded"}
        /\ Passed[section'] = Passed[s] \cup {s}
    BY <1>4, SectionFacts DEF After, Passed
  <2>3. \A r \in Passed[section'] : Accepted(r)' BY <1>2, <1>4, <2>1, <2>2, DocumentStays
  <2>4. ASSUME section' \in SectionNames
        PROVE  EntryEnds(section)'[0] = 0
    <3>1. EntryEnds(section') [0] = 0 BY <2>4, EndsFacts DEF LoadInv
    <3>2. EntryEnds(section)' = EntryEnds(section') BY <1>4, OfStays DEF EntryEnds
    <3> QED BY <3>1, <3>2
  <2>5. section' # "failing" /\ section' # "failed" BY <2>2, SectionFacts
  <2>6. \A r \in Passed[section]' : Accepted(r)' BY <2>3 DEF Passed
  <2>7. 1 .. done' = {} BY <1>4
  <2>8. SizesAddUp' = SizesAddUp /\ HasItsSections' = HasItsSections BY <1>4, OfStays
  <2> QED BY <1>2, <1>4, <2>4, <2>5, <2>6, <2>7, <2>8 DEF ReadSoFar
<1> QED BY <1>3, <1>4 DEF EndSection

LEMMA LoadInitRight ==
  ASSUME LoadInit
  PROVE  ReadSoFar
  BY SectionFacts DEF LoadInit, ReadSoFar

LEMMA LoadStepRight ==
  ASSUME LoadInv, ReadSoFar, LoadStep
  PROVE  ReadSoFar'
<1>1. CASE LoadFromMemory
  BY <1>1, SectionFacts DEF LoadFromMemory, ReadSoFar
<1>2. CASE LoadFromFile
  BY <1>2, SectionFacts DEF LoadFromFile, ReadSoFar
<1>3. CASE ReturnFromFile
  BY <1>3, ReadsOn DEF ReturnFromFile
<1>4. CASE FailLoad
  <2>1. section = "failing" /\ section' = "failed" /\ UNCHANGED <<file, status>> BY <1>4 DEF FailLoad
  <2> QED BY <2>1, SectionFacts, DocumentStays DEF ReadSoFar
<1> QED BY <1>1, <1>2, <1>3, <1>4, ReadHeaderRight, CopySchemasRight, StartRight, LoadEntryRight,
       EndSectionRight DEF LoadStep

(* The document, at the two ends of a load. *)
LEMMA ReadsDocumented ==
  ASSUME ReadSoFar
  PROVE  LoadsDocumented
  BY DEF ReadSoFar, LoadsDocumented, WellFormed, SectionsDocumented, Accepted, Passed

-----------------------------------------------------------------------------
(* The runtime and the image *)

Lists == [id : Nat, own : BOOLEAN]
Hosts == [id : Nat, name : Names, fn : Fns]
Callbacks == [id : Nat, binding : Nat, name : Names]
Descriptors == [id : Nat]

RuntimeTypeOK ==
  /\ phase \in {"none", "ready", "externals", "release", "gone"}
  /\ exec \in Lists /\ stack \in Lists
  /\ hosts \in Seq(Hosts) /\ callbacks \in Seq(Callbacks) /\ descriptors \in Seq(Descriptors)
  /\ externals \in Seq(Nat) /\ held \in Nat /\ made \in Nat
  /\ latest \in [Names -> Fns \cup {"null"}]
  /\ careless \in BOOLEAN
  /\ lost \subseteq {"exec", "stack", "callback", "descriptor"} \X Nat

(* A runtime is there once the load is over, and owns nothing before. *)
NothingYet ==
  phase = "none" =>
    /\ exec = NoList /\ stack = NoList
    /\ hosts = <<>> /\ callbacks = <<>> /\ descriptors = <<>> /\ externals = <<>>
    /\ lost = {}
    /\ \A b \in Range(image.heap) : b[1] # "owned"
LoadOver == phase # "none" => ~Loading

(* What has been made is below the number of the next object. *)
Numbered ==
  /\ exec.id < made /\ stack.id < made /\ held < made
  /\ \A e \in Range(externals) : 0 < e /\ e < made /\ e # held
  /\ \A i, j \in DOMAIN externals : i < j => externals[i] < externals[j]
  /\ \A b \in Range(image.heap) : b[1] = "owned" => b[2] < made
  /\ phase # "release" => held = 0
  /\ phase = "gone" => externals = <<>>

(* What is lost while the runtime lives are lists, and older than its own. *)
LostLists ==
  /\ phase # "gone" =>
       \A b \in lost :
         \/ b[1] = "exec" /\ b[2] < exec.id
         \/ b[1] = "stack" /\ b[2] < stack.id
  /\ ~careless => lost = {}
  /\ phase \in {"externals", "release"} /\ ~careless => callbacks = <<>> /\ descriptors = <<>>

(* Every block is somebody's. *)
Accounted == live = buffer \cup OwnedBy(image) \cup OwnedByRuntime \cup lost

(* Every binding has the latest function of its name. *)
Bindings ==
  /\ ClosuresCallLatest
  /\ \A b \in Range(hosts) : b.fn = latest[b.name]

RuntimeInv == RuntimeTypeOK /\ NothingYet /\ LoadOver /\ Numbered /\ LostLists /\ Accounted /\ Bindings
LifeInv == LoadInv /\ RuntimeInv

-----------------------------------------------------------------------------
(* The load *)

(* Nothing of the load is left to do when it is over. *)
LEMMA LoadIsOver ==
  ASSUME ~Loading
  PROVE  ~LoadStep
  BY SectionFacts DEF Loading, LoadStep, LoadFromMemory, LoadFromFile, ReturnFromFile, ReadHeader,
     CopySchemas, FailLoad, Start, LoadEntry, Looping, EndSection

LEMMA NoOwned ==
  ASSUME LoadInv, LoadStep, \A b \in Range(image.heap) : b[1] # "owned"
  PROVE  \A b \in Range(image'.heap) : b[1] # "owned"
<1>1. CASE image'.heap = image.heap BY <1>1
<1>2. CASE image' = Zeroed BY <1>2 DEF Zeroed, Range
<1>3. CASE \E s \in SectionNames : Adds(s)
  <2>1. PICK s \in SectionNames : Adds(s) BY <1>3
  <2>2. ItemBlock(s) \in Blocks /\ image.heap \in Seq(Blocks)
    BY ItemFacts DEF LoadInv, LoadTypeOK, Images
  <2>3. Range(Append(image.heap, ItemBlock(s))) = Range(image.heap) \cup {ItemBlock(s)}
    BY <2>2, AppendFacts
  <2>4. ItemBlock(s)[1] # "owned" BY DEF ItemBlock, Block
  <2> QED BY <2>1, <2>3, <2>4 DEF Adds, HeapAdds
<1>4. ASSUME NEW s \in SectionNames, Start(s) PROVE image'.heap = image.heap
  BY <1>4 DEF Start, LoadInv, LoadTypeOK, Images
<1>5. ASSUME NEW s \in SectionNames, LoadEntry(s) PROVE image' = image \/ Adds(s)
  BY <1>5, MadeAdds DEF LoadEntry
<1>6. ASSUME CopySchemas PROVE image'.heap = image.heap
  BY <1>6 DEF CopySchemas, LoadInv, LoadTypeOK, Images
<1> QED
  BY <1>1, <1>2, <1>3, <1>4, <1>5, <1>6 DEF LoadStep, LoadFromMemory, LoadFromFile, ReturnFromFile,
     ReadHeader, FailLoad, EndSection

LEMMA LoadSound ==
  ASSUME LifeInv, LoadStep, UNCHANGED rtvars
  PROVE  LifeInv'
<1>1. phase = "none" /\ phase' = "none" BY LoadIsOver DEF LifeInv, RuntimeInv, LoadOver, rtvars
<1>2. /\ exec = NoList /\ stack = NoList /\ hosts = <<>> /\ callbacks = <<>> /\ descriptors = <<>>
      /\ externals = <<>> /\ lost = {} /\ held = 0
      /\ \A b \in Range(image.heap) : b[1] # "owned"
  BY <1>1 DEF LifeInv, RuntimeInv, NothingYet, Numbered
<1>3. OwnedByRuntime = {} /\ OwnedByRuntime' = {}
  BY <1>2 DEF OwnedByRuntime, FfiBlocks, HostBlocks, ListBlocks, ExternalBlocks, OwnList, NoList, Range, rtvars
<1>4. AllHeld BY <1>2, <1>3 DEF LifeInv, RuntimeInv, Accounted, AllHeld
<1>5. LoadInv' /\ AllHeld' BY <1>4, LoadStepSound DEF LifeInv
<1>6. \A b \in Range(image'.heap) : b[1] # "owned" BY <1>2, NoOwned DEF LifeInv
<1>7. RuntimeTypeOK' BY DEF LifeInv, RuntimeInv, RuntimeTypeOK, rtvars
<1>8. NothingYet' BY <1>1, <1>2, <1>6 DEF NothingYet, rtvars
<1>9. LoadOver' BY <1>1 DEF LoadOver
<1>10. Numbered' BY <1>1, <1>2, <1>6 DEF LifeInv, RuntimeInv, Numbered, rtvars
<1>11. LostLists' BY DEF LifeInv, RuntimeInv, LostLists, rtvars
<1>12. Accounted' BY <1>2, <1>3, <1>5 DEF Accounted, AllHeld, rtvars
<1>13. Bindings' BY DEF LifeInv, RuntimeInv, Bindings, ClosuresCallLatest, rtvars
<1> QED BY <1>5, <1>7, <1>8, <1>9, <1>10, <1>11, <1>12, <1>13 DEF LifeInv, RuntimeInv

-----------------------------------------------------------------------------
(* The blocks of the runtime, by their names *)

LEMMA NamesApart ==
  ASSUME LifeInv
  PROVE  /\ \A b \in FfiBlocks : b[1] \in {"callback", "descriptor"} /\ b \in Blocks
         /\ \A b \in HostBlocks : b[1] = "binding" /\ b \in Blocks
         /\ \A b \in ListBlocks : b[1] \in {"exec", "stack"} /\ b \in Blocks
         /\ \A b \in ExternalBlocks : b[1] = "external" /\ b \in Blocks
         /\ \A b \in lost : b[1] \in {"exec", "stack", "callback", "descriptor"} /\ b \in Blocks
         /\ \A b \in OwnedBy(image) : b[1] \in ImageNames /\ b \in Blocks
         /\ \A b \in buffer : b[1] = "buffer"
<1> DEFINE rt == {"binding", "external", "callback", "descriptor", "exec", "stack"}
<1>1. ASSUME NEW name \in rt, NEW k \in Nat
      PROVE  Block(name, k)[1] = name /\ Block(name, k) \in Blocks
  BY <1>1, BlockFacts DEF RuntimeNames
<1>2. /\ Range(hosts) \subseteq Hosts /\ Range(callbacks) \subseteq Callbacks
      /\ Range(descriptors) \subseteq Descriptors /\ Range(externals) \subseteq Nat
  BY RangeOfSeq DEF LifeInv, RuntimeInv, RuntimeTypeOK
<1>3. exec.id \in Nat /\ stack.id \in Nat /\ held \in Nat
  BY DEF LifeInv, RuntimeInv, RuntimeTypeOK, Lists
<1>4. \A b \in FfiBlocks : b[1] \in {"callback", "descriptor"} /\ b \in Blocks
  BY <1>1, <1>2 DEF FfiBlocks, Callbacks, Descriptors
<1>5. \A b \in HostBlocks : b[1] = "binding" /\ b \in Blocks BY <1>1, <1>2 DEF HostBlocks, Hosts
<1>6. \A b \in ListBlocks : b[1] \in {"exec", "stack"} /\ b \in Blocks
  BY <1>1, <1>3 DEF ListBlocks, OwnList
<1>7. \A b \in ExternalBlocks : b[1] = "external" /\ b \in Blocks BY <1>1, <1>2, <1>3 DEF ExternalBlocks
<1>8. \A b \in lost : b[1] \in {"exec", "stack", "callback", "descriptor"} /\ b \in Blocks
  BY DEF LifeInv, RuntimeInv, RuntimeTypeOK, Blocks, RuntimeNames
<1>9. \A b \in OwnedBy(image) : b[1] \in ImageNames /\ b \in Blocks BY OwnedNames DEF LifeInv
<1>10. \A b \in buffer : b[1] = "buffer" BY DEF LifeInv, LoadInv, LoadTypeOK, Block
<1> QED BY <1>4, <1>5, <1>6, <1>7, <1>8, <1>9, <1>10

(* A step of the host leaves the load as it was. *)
LEMMA HostKeepsLoad ==
  ASSUME LifeInv, KeepLoad, image' = image, live' \subseteq Blocks
  PROVE  LoadInv' /\ Loading' = Loading /\ OwnedBy(image)' = OwnedBy(image) /\ buffer' = buffer
<1>1. LoadTypeOK' BY DEF LifeInv, LoadInv, LoadTypeOK, KeepLoad
<1>2. Untouched' BY DEF LifeInv, LoadInv, Untouched, KeepLoad
<1>3. CursorInside' BY OfStays DEF LifeInv, LoadInv, CursorInside, KeepLoad
<1>4. ReadsInside' BY OfStays DEF LifeInv, LoadInv, ReadsInside, KeepLoad
<1>5. SameTables BY DEF SameTables, LifeInv, LoadInv, LoadTypeOK
<1>6. ImageInv' BY <1>5, ImageKeptHere DEF LifeInv, LoadInv, KeepLoad
<1> QED BY <1>1, <1>2, <1>3, <1>4, <1>6 DEF LoadInv, Loading, KeepLoad, OwnedBy

LEMMA LiveTyped ==
  ASSUME LifeInv, NEW kind \in RuntimeNames
  PROVE  live \subseteq Blocks /\ live \cup {Block(kind, made)} \subseteq Blocks
<1>1. live \subseteq Blocks /\ made \in Nat BY DEF LifeInv, LoadInv, LoadTypeOK, RuntimeInv, RuntimeTypeOK
<1>2. Block(kind, made) \in Blocks BY <1>1, BlockFacts
<1> QED BY <1>1, <1>2

LEMMA NumberFacts ==
  ASSUME LifeInv
  PROVE  /\ made \in Nat /\ held \in Nat /\ held < made
         /\ exec.id \in Nat /\ exec.id < made /\ stack.id \in Nat /\ stack.id < made
         /\ \A e \in Range(externals) : e \in Nat /\ 0 < e /\ e < made /\ e # held
         /\ \A b \in Range(image.heap) : b[2] \in Nat /\ (b[1] = "owned" => b[2] < made)
<1>1. /\ made \in Nat /\ held \in Nat /\ held < made
      /\ exec.id \in Nat /\ exec.id < made /\ stack.id \in Nat /\ stack.id < made
  BY DEF LifeInv, RuntimeInv, Numbered, RuntimeTypeOK, Lists
<1>2. Range(externals) \subseteq Nat BY RangeOfSeq DEF LifeInv, RuntimeInv, RuntimeTypeOK
<1>3. Range(image.heap) \subseteq Blocks BY RangeOfSeq DEF LifeInv, LoadInv, LoadTypeOK, Images
<1>4. \A b \in Range(image.heap) : b[2] \in Nat BY <1>3 DEF Blocks
<1> QED BY <1>1, <1>2, <1>4 DEF LifeInv, RuntimeInv, Numbered

(* A step that at most makes an object. *)
LEMMA NumberedKept ==
  ASSUME LifeInv, made' \in {made, made + 1}, exec'.id < made', stack'.id < made',
         externals' = externals, held' = held, image'.heap = image.heap, phase' # "gone",
         phase' = phase \/ phase # "release"
  PROVE  Numbered'
<1>1. \A n \in Nat : n < made => n < made' BY NumberFacts
<1>2. held' < made' BY <1>1, NumberFacts
<1>3. \A e \in Range(externals') : 0 < e /\ e < made' /\ e # held' BY <1>1, NumberFacts
<1>4. \A b \in Range(image'.heap) : b[1] = "owned" => b[2] < made' BY <1>1, NumberFacts
<1>5. \A i, j \in DOMAIN externals' : i < j => externals'[i] < externals'[j]
  BY DEF LifeInv, RuntimeInv, Numbered
<1>6. phase' # "release" => held' = 0 BY DEF LifeInv, RuntimeInv, Numbered
<1> QED BY <1>2, <1>3, <1>4, <1>5, <1>6 DEF Numbered

-----------------------------------------------------------------------------
(* The runtime at work *)

LEMMA RuntimeInitSound ==
  ASSUME LifeInv, ~Loading, RuntimeInit
  PROVE  LifeInv'
<1> USE DEF RuntimeInit
<1>1. KeepLoad /\ image' = image /\ live' = live BY DEF KeepLoad, loadvars
<1>2. live' \subseteq Blocks BY <1>1 DEF LifeInv, LoadInv, LoadTypeOK
<1>3. LoadInv' /\ Loading' = Loading /\ OwnedBy(image)' = OwnedBy(image) /\ buffer' = buffer
  BY <1>1, <1>2, HostKeepsLoad
<1>4. RuntimeTypeOK' BY DEF LifeInv, RuntimeInv, RuntimeTypeOK
<1>5. NothingYet' BY DEF NothingYet
<1>6. LoadOver' BY <1>3 DEF LoadOver
<1>7. Numbered' BY <1>1 DEF LifeInv, RuntimeInv, Numbered
<1>8. LostLists' BY DEF LifeInv, RuntimeInv, LostLists, NothingYet
<1>9. Accounted'
  BY <1>1, <1>3 DEF LifeInv, RuntimeInv, Accounted, OwnedByRuntime, FfiBlocks, HostBlocks, ListBlocks,
     ExternalBlocks, OwnList
<1>10. Bindings' BY DEF LifeInv, RuntimeInv, Bindings, ClosuresCallLatest
<1> QED BY <1>3, <1>4, <1>5, <1>6, <1>7, <1>8, <1>9, <1>10 DEF LifeInv, RuntimeInv

LEMMA BindSound ==
  ASSUME LifeInv, ~Loading, NEW givenExec \in BOOLEAN, NEW givenStack \in BOOLEAN, Bind(givenExec, givenStack)
  PROVE  LifeInv'
<1> USE DEF Bind
<1>1. made \in Nat /\ made' = made + 1 /\ exec.id \in Nat /\ stack.id \in Nat /\ exec.id < made /\ stack.id < made
  BY DEF LifeInv, RuntimeInv, RuntimeTypeOK, Numbered, Lists
<1>2. exec' \in Lists /\ stack' \in Lists /\ exec'.id = made /\ stack'.id = made BY <1>1 DEF Lists
<1>3. OwnList("exec", exec') \cup OwnList("stack", stack') \subseteq Blocks
  BY <1>1, <1>2, BlockFacts DEF OwnList, RuntimeNames
<1>4. live' \subseteq Blocks BY <1>3 DEF LifeInv, LoadInv, LoadTypeOK
<1>5. LoadInv' /\ Loading' = Loading /\ OwnedBy(image)' = OwnedBy(image) /\ buffer' = buffer
  BY <1>4, HostKeepsLoad
<1>6. \A b \in ListBlocks :
        /\ b \in {"exec", "stack", "callback", "descriptor"} \X Nat
        /\ \/ b[1] = "exec" /\ b[2] = exec.id
           \/ b[1] = "stack" /\ b[2] = stack.id
  <2>1. \A k \in Nat : Block("exec", k) \in {"exec", "stack", "callback", "descriptor"} \X Nat
                     /\ Block("stack", k) \in {"exec", "stack", "callback", "descriptor"} \X Nat
    BY DEF Block
  <2>2. \A k \in Nat : /\ Block("exec", k)[1] = "exec" /\ Block("exec", k)[2] = k
                       /\ Block("stack", k)[1] = "stack" /\ Block("stack", k)[2] = k
    BY BlockFacts
  <2> QED BY <1>1, <2>1, <2>2 DEF ListBlocks, OwnList
<1>7. RuntimeTypeOK' BY <1>1, <1>2, <1>6 DEF LifeInv, RuntimeInv, RuntimeTypeOK
<1>8. NothingYet' BY DEF NothingYet
<1>9. LoadOver' BY <1>5 DEF LoadOver
<1>10. Numbered'
  <2>1. exec'.id < made' /\ stack'.id < made' BY <1>1, <1>2
  <2> QED BY <1>1, <2>1, NumberedKept
<1>11. LostLists'
  <2>1. \A b \in lost : (b[1] = "exec" /\ b[2] < exec.id) \/ (b[1] = "stack" /\ b[2] < stack.id)
    BY DEF LifeInv, RuntimeInv, LostLists
  <2>2. \A b \in lost : b[2] \in Nat BY DEF LifeInv, RuntimeInv, RuntimeTypeOK
  <2>3. \A b \in lost' : (b[1] = "exec" /\ b[2] < exec'.id) \/ (b[1] = "stack" /\ b[2] < stack'.id)
    BY <1>1, <1>2, <1>6, <2>1, <2>2
  <2> QED BY <2>3 DEF LifeInv, RuntimeInv, LostLists
<1>12. Accounted'
  <2>1. FfiBlocks' = FfiBlocks /\ HostBlocks' = HostBlocks /\ ExternalBlocks' = ExternalBlocks
    BY DEF FfiBlocks, HostBlocks, ExternalBlocks
  <2>2. ListBlocks' = OwnList("exec", exec') \cup OwnList("stack", stack') BY DEF ListBlocks, OwnList
  <2> QED BY <1>5, <2>1, <2>2 DEF LifeInv, RuntimeInv, Accounted, OwnedByRuntime
<1>13. Bindings' BY DEF LifeInv, RuntimeInv, Bindings, ClosuresCallLatest
<1> QED BY <1>5, <1>7, <1>8, <1>9, <1>10, <1>11, <1>12, <1>13 DEF LifeInv, RuntimeInv

LEMMA AllocOwnedSound ==
  ASSUME LifeInv, ~Loading, AllocOwned
  PROVE  LifeInv'
<1> USE DEF AllocOwned
<1> DEFINE b == Block("owned", made)
<1>1. made \in Nat /\ made' = made + 1 BY NumberFacts
<1>2. b \in Blocks /\ b[1] = "owned" /\ b[2] = made /\ Block("owned_heap", 0) \in Blocks
  BY <1>1, BlockFacts DEF ImageNames, HeapNames, FieldNames
<1>3. /\ image' \in Images /\ image'.heap = Append(image.heap, b)
      /\ image'.fields = image.fields \cup {"owned_heap"} /\ image'.strings = image.strings
      /\ image'.sigs = image.sigs /\ image'.mem = image.mem /\ image'.compiled = image.compiled
  BY <1>2, PushFacts DEF LifeInv
<1>4. image.heap \in Seq(Blocks) BY DEF LifeInv, LoadInv, LoadTypeOK, Images
<1> HIDE DEF b
<1>5. /\ Range(image'.heap) = Range(image.heap) \cup {b}
      /\ IsInjective(image.heap) /\ b \notin Range(image.heap) => IsInjective(image'.heap)
  <2> HIDE DEF AllocOwned
  <2>1. /\ Range(Append(image.heap, b)) = Range(image.heap) \cup {b}
        /\ IsInjective(image.heap) /\ b \notin Range(image.heap) => IsInjective(Append(image.heap, b))
    BY <1>2, <1>4, AppendFacts
  <2> QED BY <1>3, <2>1
<1>6. b \notin Range(image.heap) BY <1>1, <1>2, NumberFacts
<1>7. LoadInv'
  <2>1. LoadTypeOK' BY <1>2, <1>3 DEF b, LifeInv, LoadInv, LoadTypeOK, KeepLoad
  <2>2. section = "loaded" /\ section' = section /\ section \notin SectionNames
    BY SectionFacts DEF Loaded, KeepLoad
  <2>3. Untouched' /\ CursorInside' BY <2>2 DEF Untouched, CursorInside
  <2>4. ReadsInside' BY OfStays DEF LifeInv, LoadInv, ReadsInside, KeepLoad
  <2>5. TablesGrow' BY <2>2, SectionFacts DEF TablesGrow
  <2>6. HeapGrows'
    <3>1. IsInjective(image'.heap)
      BY <1>5, <1>6 DEF LifeInv, LoadInv, ImageInv, HeapGrows
    <3>2. \A x \in Range(image'.heap) : x[1] \in HeapNames
      BY <1>2, <1>5 DEF LifeInv, LoadInv, ImageInv, HeapGrows, HeapNames
    <3> QED BY <2>2, <3>1, <3>2 DEF HeapGrows
  <2>7. PointersOwned' BY <1>3, <1>5 DEF LifeInv, LoadInv, ImageInv, PointersOwned
  <2>8. MemGrows'
    <3>1. MemGrows /\ image'.mem = image.mem BY <1>3 DEF LifeInv, LoadInv, ImageInv
    <3>2. Of("constants")' = Of("constants") BY OfStays DEF KeepLoad
    <3> QED BY <2>2, <3>1, <3>2 DEF MemGrows, WordsFit
  <2> QED BY <2>1, <2>3, <2>4, <2>5, <2>6, <2>7, <2>8 DEF LoadInv, ImageInv
<1>8. RuntimeTypeOK' BY <1>1 DEF LifeInv, RuntimeInv, RuntimeTypeOK
<1>9. NothingYet' BY DEF NothingYet, HostRuns
<1>10. LoadOver' BY DEF LoadOver, Loading, KeepLoad
<1>11. Numbered'
  <2>1. \A n \in Nat : n < made => n < made' BY <1>1
  <2>2. \A x \in Range(image'.heap) : x[1] = "owned" => x[2] < made'
    BY <1>1, <1>2, <1>5, <2>1, NumberFacts
  <2>3. exec'.id < made' /\ stack'.id < made' /\ held' < made' BY <2>1, NumberFacts
  <2>4. \A e \in Range(externals) : 0 < e /\ e < made' /\ e # held BY <2>1, NumberFacts
  <2> QED BY <2>2, <2>3, <2>4 DEF LifeInv, RuntimeInv, Numbered
<1>12. LostLists' BY DEF LifeInv, RuntimeInv, LostLists
<1>13. Accounted'
  <2>1. OwnedByRuntime' = OwnedByRuntime
    BY DEF OwnedByRuntime, FfiBlocks, HostBlocks, ListBlocks, ExternalBlocks, OwnList
  <2>2. {Block(f, 0) : f \in image'.fields} = {Block(f, 0) : f \in image.fields} \cup {Block("owned_heap", 0)}
    BY <1>3
  <2>3. OwnedBy(image)' = OwnedBy(image) \cup {b, Block("owned_heap", 0)} BY <1>3, <1>5, <2>2 DEF OwnedBy
  <2>4. live' = live \cup {b, Block("owned_heap", 0)} BY DEF b
  <2>5. live = buffer \cup OwnedBy(image) \cup OwnedByRuntime \cup lost BY DEF LifeInv, RuntimeInv, Accounted
  <2>6. buffer' = buffer /\ lost' = lost BY DEF KeepLoad
  <2> HIDE DEF AllocOwned
  <2> QED BY <2>1, <2>3, <2>4, <2>5, <2>6 DEF Accounted
<1>14. Bindings' BY DEF LifeInv, RuntimeInv, Bindings, ClosuresCallLatest
<1> QED BY <1>7, <1>8, <1>9, <1>10, <1>11, <1>12, <1>13, <1>14 DEF LifeInv, RuntimeInv

LEMMA CompileSound ==
  ASSUME LifeInv, ~Loading, NEW s \in 1 .. Of("schemas").count, Compile(s)
  PROVE  LifeInv'
<1> USE DEF Compile, rtvars
<1>1. s \in Nat BY FileFacts, SectionFacts DEF LifeInv, LoadInv
<1>2. image \in Images BY DEF LifeInv, LoadInv, LoadTypeOK
<1>3. /\ image' \in Images /\ image'.heap = image.heap /\ image'.fields = image.fields
      /\ image'.strings = image.strings /\ image'.sigs = image.sigs /\ image'.mem = image.mem
      /\ image'.compiled = image.compiled \cup {s}
  BY <1>1, <1>2 DEF Images
<1>4. Block("compiled", s) \in Blocks BY <1>1, BlockFacts DEF ImageNames
<1>5. LoadInv'
  <2>1. LoadTypeOK' BY <1>3, <1>4 DEF LifeInv, LoadInv, LoadTypeOK, KeepLoad
  <2>2. Untouched' /\ CursorInside' BY SectionFacts DEF Untouched, CursorInside, Loaded, KeepLoad
  <2>3. ReadsInside' BY OfStays DEF LifeInv, LoadInv, ReadsInside, KeepLoad
  <2>4. ImageInv' BY <1>3, ImageKeptHere DEF SameTables, LifeInv, LoadInv, KeepLoad
  <2> QED BY <2>1, <2>2, <2>3, <2>4 DEF LoadInv
<1>6. RuntimeTypeOK' BY DEF LifeInv, RuntimeInv, RuntimeTypeOK
<1>7. NothingYet' BY DEF NothingYet, HostRuns
<1>8. LoadOver' BY DEF LoadOver, Loading, KeepLoad
<1>9. Numbered' BY <1>3, NumberedKept, NumberFacts DEF HostRuns
<1>10. LostLists' BY DEF LifeInv, RuntimeInv, LostLists
<1>11. Accounted'
  <2>1. OwnedByRuntime' = OwnedByRuntime
    BY DEF OwnedByRuntime, FfiBlocks, HostBlocks, ListBlocks, ExternalBlocks, OwnList
  <2>2. OwnedBy(image)' = OwnedBy(image) \cup {Block("compiled", s)} BY <1>3 DEF OwnedBy
  <2> QED BY <2>1, <2>2 DEF LifeInv, RuntimeInv, Accounted, KeepLoad
<1>12. Bindings' BY DEF LifeInv, RuntimeInv, Bindings, ClosuresCallLatest
<1> QED BY <1>5, <1>6, <1>7, <1>8, <1>9, <1>10, <1>11, <1>12 DEF LifeInv, RuntimeInv

LEMMA RegisterHostSound ==
  ASSUME LifeInv, ~Loading, NEW name \in Names, NEW fn \in Fns, RegisterHost(name, fn)
  PROVE  LifeInv'
<1> DEFINE rewritten == [k \in DOMAIN hosts |->
                           IF hosts[k].name = name THEN [hosts[k] EXCEPT !.fn = fn] ELSE hosts[k]]
           new == [id |-> made, name |-> name, fn |-> fn]
<1>1. /\ phase \in {"ready", "release"} /\ KeepLoad /\ image' = image
      /\ latest' = [latest EXCEPT ![name] = fn]
      /\ UNCHANGED <<phase, exec, stack, callbacks, descriptors, externals, held, lost, careless>>
  BY DEF RegisterHost, HostRuns
<1>2. hosts \in Seq(Hosts) /\ made \in Nat /\ latest \in [Names -> Fns \cup {"null"}]
  BY DEF LifeInv, RuntimeInv, RuntimeTypeOK
<1>3. latest' \in [Names -> Fns \cup {"null"}] /\ latest'[name] = fn
      /\ \A other \in Names : other # name => latest'[other] = latest[other]
  BY <1>1, <1>2
<1>4. new \in Hosts BY <1>2 DEF Hosts
<1>5. \/ /\ BindingsOf(name) # {} /\ hosts' = rewritten /\ live' = live /\ made' = made
      \/ /\ BindingsOf(name) = {} /\ hosts' = Append(hosts, new)
         /\ made' = made + 1 /\ live' = live \cup {Block("binding", made)}
  BY DEF RegisterHost, Makes
<1>6. live' \subseteq Blocks BY <1>5, LiveTyped DEF RuntimeNames
<1>7. LoadInv' /\ Loading' = Loading /\ OwnedBy(image)' = OwnedBy(image) /\ buffer' = buffer
  BY <1>1, <1>6, HostKeepsLoad
<1>8. NothingYet' BY <1>1 DEF NothingYet
<1>9. LoadOver' BY <1>7 DEF LoadOver
<1>10. Numbered'
  <2>1. made' \in {made, made + 1} BY <1>5
  <2>2. exec'.id < made' /\ stack'.id < made' BY <1>1, <1>2, <2>1, NumberFacts
  <2> QED BY <1>1, <2>1, <2>2, NumberedKept
<1>11. LostLists' BY <1>1 DEF LifeInv, RuntimeInv, LostLists
<1>12. FfiBlocks' = FfiBlocks /\ ListBlocks' = ListBlocks /\ ExternalBlocks' = ExternalBlocks /\ lost' = lost
  BY <1>1 DEF FfiBlocks, ListBlocks, ExternalBlocks, OwnList
<1>13. live = buffer \cup OwnedBy(image) \cup FfiBlocks \cup HostBlocks \cup ListBlocks \cup ExternalBlocks \cup lost
  BY DEF LifeInv, RuntimeInv, Accounted, OwnedByRuntime
<1>14. /\ \A c \in Range(callbacks) :
             c.name \in Names /\ \E b \in Range(hosts) : b.id = c.binding /\ b.name = c.name
       /\ \A a, b \in Range(hosts) : a.name = b.name => a = b
       /\ \A b \in Range(hosts) : b \in Hosts /\ b.fn = latest[b.name]
  <2>1. Range(hosts) \subseteq Hosts /\ Range(callbacks) \subseteq Callbacks
    BY RangeOfSeq DEF LifeInv, RuntimeInv, RuntimeTypeOK
  <2> QED BY <2>1 DEF LifeInv, RuntimeInv, Bindings, ClosuresCallLatest, Callbacks
<1>15. CASE BindingsOf(name) # {} /\ hosts' = rewritten /\ live' = live /\ made' = made
  <2>1. \A k \in DOMAIN hosts : hosts[k] \in Range(hosts) /\ hosts[k] \in Hosts BY <1>2 DEF Range
  <2>2. DOMAIN hosts' = DOMAIN hosts BY <1>15
  <2>3. \A k \in DOMAIN hosts :
          /\ hosts'[k] \in Hosts /\ hosts'[k].id = hosts[k].id /\ hosts'[k].name = hosts[k].name
          /\ hosts'[k].fn = latest'[hosts[k].name]
    <3> SUFFICES ASSUME NEW k \in DOMAIN hosts
                 PROVE  /\ hosts'[k] \in Hosts /\ hosts'[k].id = hosts[k].id /\ hosts'[k].name = hosts[k].name
                        /\ hosts'[k].fn = latest'[hosts[k].name]
      OBVIOUS
    <3>1. hosts[k] \in Hosts /\ hosts[k].name \in Names BY <2>1 DEF Hosts
    <3>2. CASE hosts[k].name = name
      <4>1. hosts'[k] = [hosts[k] EXCEPT !.fn = fn] BY <1>15, <3>2
      <4> QED BY <1>3, <3>1, <3>2, <4>1 DEF Hosts
    <3>3. CASE hosts[k].name # name
      <4>1. hosts'[k] = hosts[k] BY <1>15, <3>3
      <4> QED BY <1>3, <1>14, <2>1, <3>1, <3>3, <4>1
    <3> QED BY <3>2, <3>3
  <2>4. hosts' \in Seq(Hosts)
    <3>1. DOMAIN hosts = 1 .. Len(hosts) /\ Len(hosts) \in Nat BY <1>2
    <3>2. hosts' \in [1 .. Len(hosts) -> Hosts] BY <1>15, <2>3, <3>1
    <3> QED BY <3>1, <3>2, SeqDef
  <2>5. RuntimeTypeOK' BY <1>1, <1>3, <1>15, <2>4 DEF LifeInv, RuntimeInv, RuntimeTypeOK
  <2>6. HostBlocks' = HostBlocks BY <2>2, <2>3 DEF HostBlocks, Range
  <2>7. Accounted' BY <1>7, <1>12, <1>13, <1>15, <2>6 DEF Accounted, OwnedByRuntime
  <2>8. \A a, b \in Range(hosts') : a.name = b.name => a = b
    <3> SUFFICES ASSUME NEW i \in DOMAIN hosts, NEW j \in DOMAIN hosts, hosts'[i].name = hosts'[j].name
                 PROVE  hosts'[i] = hosts'[j]
      BY <2>2 DEF Range
    <3>1. hosts[i] = hosts[j] BY <1>14, <2>1, <2>3
    <3> QED BY <1>15, <3>1
  <2>9. \A b \in Range(hosts') : b.fn = latest'[b.name] BY <2>2, <2>3 DEF Range
  <2>10. \A c \in Range(callbacks) : \E b \in Range(hosts') : b.id = c.binding /\ b.name = c.name
    <3> SUFFICES ASSUME NEW c \in Range(callbacks)
                 PROVE  \E b \in Range(hosts') : b.id = c.binding /\ b.name = c.name
      OBVIOUS
    <3>1. PICK k \in DOMAIN hosts : hosts[k].id = c.binding /\ hosts[k].name = c.name BY <1>14 DEF Range
    <3>2. hosts'[k] \in Range(hosts') BY <2>2 DEF Range
    <3> QED BY <2>3, <3>1, <3>2
  <2>11. Bindings' BY <1>1, <2>8, <2>9, <2>10 DEF Bindings, ClosuresCallLatest
  <2> QED BY <1>7, <1>8, <1>9, <1>10, <1>11, <2>5, <2>7, <2>11 DEF LifeInv, RuntimeInv
<1>16. CASE /\ BindingsOf(name) = {} /\ hosts' = Append(hosts, new)
            /\ made' = made + 1 /\ live' = live \cup {Block("binding", made)}
  <2>1. hosts' \in Seq(Hosts) /\ Range(hosts') = Range(hosts) \cup {new} BY <1>2, <1>4, <1>16, AppendFacts
  <2>2. RuntimeTypeOK' BY <1>1, <1>2, <1>3, <1>16, <2>1 DEF LifeInv, RuntimeInv, RuntimeTypeOK
  <2>3. HostBlocks' = HostBlocks \cup {Block("binding", made)}
    <3>1. new.id = made OBVIOUS
    <3> HIDE DEF new
    <3> QED BY <2>1, <3>1 DEF HostBlocks
  <2>4. Accounted' BY <1>7, <1>12, <1>13, <1>16, <2>3 DEF Accounted, OwnedByRuntime
  <2>5. \A b \in Range(hosts) : b.name # name BY <1>16 DEF BindingsOf
  <2>6. \A a, b \in Range(hosts') : a.name = b.name => a = b BY <1>14, <2>1, <2>5
  <2>7. \A b \in Range(hosts') : b.fn = latest'[b.name] BY <1>3, <1>14, <2>1, <2>5 DEF Hosts
  <2>8. \A c \in Range(callbacks) : \E b \in Range(hosts') : b.id = c.binding /\ b.name = c.name
    BY <1>14, <2>1
  <2>9. Bindings' BY <1>1, <2>6, <2>7, <2>8 DEF Bindings, ClosuresCallLatest
  <2> QED BY <1>7, <1>8, <1>9, <1>10, <1>11, <2>2, <2>4, <2>9 DEF LifeInv, RuntimeInv
<1> QED BY <1>5, <1>15, <1>16

(* What the steps that make an object for the runtime share. *)
LEMMA MakesFacts ==
  ASSUME LifeInv, ~Loading, NEW kind \in RuntimeNames, HostRuns, Makes(kind), KeepLoad,
         UNCHANGED <<image, phase, exec, stack, hosts, held, latest, lost>>
  PROVE  /\ LoadInv' /\ NothingYet' /\ LoadOver'
         /\ made \in Nat /\ made' = made + 1
         /\ OwnedBy(image)' = OwnedBy(image) /\ buffer' = buffer
         /\ HostBlocks' = HostBlocks /\ ListBlocks' = ListBlocks /\ lost' = lost
         /\ live' = buffer \cup OwnedBy(image) \cup FfiBlocks \cup HostBlocks \cup ListBlocks
                      \cup ExternalBlocks \cup lost \cup {Block(kind, made)}
         /\ externals' = externals => Numbered' /\ ExternalBlocks' = ExternalBlocks
         /\ callbacks' = callbacks => Bindings'
<1>1. live' \subseteq Blocks BY LiveTyped DEF Makes
<1>2. LoadInv' /\ Loading' = Loading /\ OwnedBy(image)' = OwnedBy(image) /\ buffer' = buffer
  BY <1>1, HostKeepsLoad
<1>3. NothingYet' BY DEF NothingYet, HostRuns
<1>4. LoadOver' BY <1>2 DEF LoadOver
<1>5. made \in Nat /\ made' = made + 1 BY NumberFacts DEF Makes
<1>6. HostBlocks' = HostBlocks /\ ListBlocks' = ListBlocks BY DEF HostBlocks, ListBlocks, OwnList
<1>7. live' = buffer \cup OwnedBy(image) \cup FfiBlocks \cup HostBlocks \cup ListBlocks
               \cup ExternalBlocks \cup lost \cup {Block(kind, made)}
  BY DEF LifeInv, RuntimeInv, Accounted, OwnedByRuntime, Makes
<1>8. externals' = externals => Numbered' /\ ExternalBlocks' = ExternalBlocks
  <2>1. exec'.id < made' /\ stack'.id < made' BY <1>5, NumberFacts
  <2> QED BY <1>5, <2>1, NumberedKept DEF ExternalBlocks, HostRuns
<1>9. callbacks' = callbacks => Bindings'
  BY DEF LifeInv, RuntimeInv, Bindings, ClosuresCallLatest
<1> QED BY <1>2, <1>3, <1>4, <1>5, <1>6, <1>7, <1>8, <1>9

LEMMA TrackExternalSound ==
  ASSUME LifeInv, ~Loading, TrackExternal
  PROVE  LifeInv'
<1> USE DEF TrackExternal
<1>1. /\ LoadInv' /\ NothingYet' /\ LoadOver' /\ Bindings'
      /\ made \in Nat /\ made' = made + 1
      /\ OwnedBy(image)' = OwnedBy(image) /\ buffer' = buffer
      /\ HostBlocks' = HostBlocks /\ ListBlocks' = ListBlocks /\ lost' = lost
      /\ live' = buffer \cup OwnedBy(image) \cup FfiBlocks \cup HostBlocks \cup ListBlocks
                   \cup ExternalBlocks \cup lost \cup {Block("external", made)}
  BY MakesFacts DEF RuntimeNames
<1>2. externals \in Seq(Nat) BY DEF LifeInv, RuntimeInv, RuntimeTypeOK
<1>3. /\ externals' \in Seq(Nat) /\ Range(externals') = Range(externals) \cup {made}
      /\ Len(externals') = Len(externals) + 1
  <2> HIDE DEF TrackExternal
  <2>1. externals' = Append(externals, made) BY DEF TrackExternal
  <2> QED BY <1>1, <1>2, <2>1, AppendFacts
<1>4. RuntimeTypeOK' BY <1>1, <1>3 DEF LifeInv, RuntimeInv, RuntimeTypeOK
<1>5. Numbered'
  <2>1. /\ exec'.id < made' /\ stack'.id < made' /\ held' < made'
        /\ \A e \in Range(externals') : 0 < e /\ e < made' /\ e # held'
        /\ \A b \in Range(image.heap) : b[1] = "owned" => b[2] < made'
    <3>1. made > 0 /\ held < made BY NumberFacts
    <3>2. \A n \in Nat : n < made => n < made' BY <1>1
    <3> QED BY <1>1, <1>3, <3>1, <3>2, NumberFacts
  <2>2. \A i, j \in DOMAIN externals' : i < j => externals'[i] < externals'[j]
    <3> SUFFICES ASSUME NEW i \in DOMAIN externals', NEW j \in DOMAIN externals', i < j
                 PROVE  externals'[i] < externals'[j]
      OBVIOUS
    <3>1. i \in 1 .. Len(externals) /\ j \in 1 .. Len(externals) + 1 BY <1>2, <1>3
    <3>2. externals'[i] = externals[i] /\ externals[i] \in Range(externals)
      BY <1>1, <1>2, <3>1, AppendProperties DEF Range
    <3>3. CASE j = Len(externals) + 1
      <4>1. externals'[j] = made BY <1>1, <1>2, <3>3
      <4> QED BY <3>2, <4>1, NumberFacts
    <3>4. CASE j \in 1 .. Len(externals)
      <4>1. externals'[j] = externals[j] BY <1>1, <1>2, <3>4
      <4> QED BY <1>2, <3>1, <3>2, <3>4, <4>1 DEF LifeInv, RuntimeInv, Numbered
    <3> QED BY <3>1, <3>3, <3>4
  <2> QED BY <2>1, <2>2 DEF LifeInv, RuntimeInv, Numbered, HostRuns
<1>6. LostLists' BY DEF LifeInv, RuntimeInv, LostLists
<1>7. FfiBlocks' = FfiBlocks /\ ExternalBlocks' = ExternalBlocks \cup {Block("external", made)}
  BY <1>3 DEF FfiBlocks, ExternalBlocks
<1>8. Accounted' BY <1>1, <1>7 DEF Accounted, OwnedByRuntime
<1> QED BY <1>1, <1>4, <1>5, <1>6, <1>8 DEF LifeInv, RuntimeInv

LEMMA MakeCallbackSound ==
  ASSUME LifeInv, ~Loading, NEW name \in Names, MakeCallback(name)
  PROVE  LifeInv'
<1>1. /\ HostRuns /\ Makes("callback") /\ KeepLoad /\ FfiInRelease
      /\ UNCHANGED <<image, phase, exec, stack, hosts, descriptors, externals, held, latest, lost>>
  BY DEF MakeCallback
<1>2. /\ LoadInv' /\ NothingYet' /\ LoadOver' /\ Numbered'
      /\ made \in Nat /\ made' = made + 1
      /\ OwnedBy(image)' = OwnedBy(image) /\ buffer' = buffer
      /\ HostBlocks' = HostBlocks /\ ListBlocks' = ListBlocks /\ lost' = lost
      /\ ExternalBlocks' = ExternalBlocks
      /\ live' = buffer \cup OwnedBy(image) \cup FfiBlocks \cup HostBlocks \cup ListBlocks
                   \cup ExternalBlocks \cup lost \cup {Block("callback", made)}
  <2>1. "callback" \in RuntimeNames BY DEF RuntimeNames
  <2> QED BY <1>1, <2>1, MakesFacts
<1>3. PICK b \in Range(hosts) :
        /\ b.name = name
        /\ callbacks' = Append(callbacks, [id |-> made, binding |-> b.id, name |-> name])
  BY DEF MakeCallback, BindingsOf
<1> DEFINE new == [id |-> made, binding |-> b.id, name |-> name]
<1>4. b \in Hosts BY RangeOfSeq DEF LifeInv, RuntimeInv, RuntimeTypeOK
<1>5. new \in Callbacks /\ new.id = made /\ new.binding = b.id /\ new.name = name
  BY <1>2, <1>4 DEF Callbacks, Hosts
<1>6. callbacks \in Seq(Callbacks) BY DEF LifeInv, RuntimeInv, RuntimeTypeOK
<1>7. callbacks' \in Seq(Callbacks) /\ Range(callbacks') = Range(callbacks) \cup {new}
  BY <1>3, <1>5, <1>6, AppendFacts
<1> HIDE DEF new
<1>8. careless' \in BOOLEAN /\ (careless => careless') /\ (phase = "release" => careless')
  BY <1>1 DEF FfiInRelease, LifeInv, RuntimeInv, RuntimeTypeOK
<1>9. RuntimeTypeOK' BY <1>1, <1>2, <1>7, <1>8 DEF LifeInv, RuntimeInv, RuntimeTypeOK
<1>10. LostLists' BY <1>1, <1>8 DEF LifeInv, RuntimeInv, LostLists, HostRuns
<1>11. FfiBlocks' = FfiBlocks \cup {Block("callback", made)} BY <1>1, <1>5, <1>7 DEF FfiBlocks
<1>12. Accounted' BY <1>2, <1>11 DEF Accounted, OwnedByRuntime
<1>13. Bindings'
  <2>1. b.fn = latest[name] BY <1>3 DEF LifeInv, RuntimeInv, Bindings
  <2>2. \A c \in Range(callbacks') :
          \E x \in Range(hosts) : x.id = c.binding /\ x.name = c.name /\ x.fn = latest[c.name]
    BY <1>3, <1>5, <1>7, <2>1 DEF LifeInv, RuntimeInv, Bindings, ClosuresCallLatest
  <2> QED BY <1>1, <2>2 DEF LifeInv, RuntimeInv, Bindings, ClosuresCallLatest
<1> QED BY <1>2, <1>9, <1>10, <1>12, <1>13 DEF LifeInv, RuntimeInv

LEMMA CacheDescriptorSound ==
  ASSUME LifeInv, ~Loading, CacheDescriptor
  PROVE  LifeInv'
<1>1. /\ HostRuns /\ Makes("descriptor") /\ KeepLoad /\ FfiInRelease
      /\ UNCHANGED <<image, phase, exec, stack, hosts, callbacks, externals, held, latest, lost>>
  BY DEF CacheDescriptor
<1>2. /\ LoadInv' /\ NothingYet' /\ LoadOver' /\ Numbered' /\ Bindings'
      /\ made \in Nat /\ made' = made + 1
      /\ OwnedBy(image)' = OwnedBy(image) /\ buffer' = buffer
      /\ HostBlocks' = HostBlocks /\ ListBlocks' = ListBlocks /\ lost' = lost
      /\ ExternalBlocks' = ExternalBlocks
      /\ live' = buffer \cup OwnedBy(image) \cup FfiBlocks \cup HostBlocks \cup ListBlocks
                   \cup ExternalBlocks \cup lost \cup {Block("descriptor", made)}
  <2>1. "descriptor" \in RuntimeNames BY DEF RuntimeNames
  <2> QED BY <1>1, <2>1, MakesFacts
<1> DEFINE new == [id |-> made]
<1>3. new \in Descriptors /\ new.id = made BY <1>2 DEF Descriptors
<1>4. descriptors \in Seq(Descriptors) /\ descriptors' = Append(descriptors, new)
  BY DEF LifeInv, RuntimeInv, RuntimeTypeOK, CacheDescriptor
<1> HIDE DEF new
<1>5. descriptors' \in Seq(Descriptors) /\ Range(descriptors') = Range(descriptors) \cup {new}
  BY <1>3, <1>4, AppendFacts
<1>6. careless' \in BOOLEAN /\ (careless => careless') /\ (phase = "release" => careless')
  BY <1>1 DEF FfiInRelease, LifeInv, RuntimeInv, RuntimeTypeOK
<1>7. RuntimeTypeOK' BY <1>1, <1>2, <1>5, <1>6 DEF LifeInv, RuntimeInv, RuntimeTypeOK
<1>8. LostLists' BY <1>1, <1>6 DEF LifeInv, RuntimeInv, LostLists, HostRuns
<1>9. FfiBlocks' = FfiBlocks \cup {Block("descriptor", made)} BY <1>1, <1>3, <1>5 DEF FfiBlocks
<1>10. Accounted' BY <1>2, <1>9 DEF Accounted, OwnedByRuntime
<1> QED BY <1>2, <1>7, <1>8, <1>10 DEF LifeInv, RuntimeInv

-----------------------------------------------------------------------------
(* Destruction *)

LEMMA CleanupFfiSound ==
  ASSUME LifeInv, ~Loading, CleanupFfi
  PROVE  LifeInv'
<1> USE DEF CleanupFfi
<1>1. live' \subseteq Blocks BY DEF LifeInv, LoadInv, LoadTypeOK
<1>2. LoadInv' /\ Loading' = Loading /\ OwnedBy(image)' = OwnedBy(image) /\ buffer' = buffer
  BY <1>1, HostKeepsLoad
<1>3. RuntimeTypeOK' BY DEF LifeInv, RuntimeInv, RuntimeTypeOK
<1>4. NothingYet' /\ LoadOver' BY <1>2 DEF NothingYet, LoadOver
<1>5. Numbered' BY NumberedKept, NumberFacts
<1>6. LostLists' BY DEF LifeInv, RuntimeInv, LostLists
<1>7. FfiBlocks' = {} BY DEF FfiBlocks, Range
<1>8. HostBlocks' = HostBlocks /\ ListBlocks' = ListBlocks /\ ExternalBlocks' = ExternalBlocks
  BY DEF HostBlocks, ListBlocks, ExternalBlocks, OwnList
<1>9. live = buffer \cup OwnedBy(image) \cup FfiBlocks \cup HostBlocks \cup ListBlocks \cup ExternalBlocks \cup lost
  BY DEF LifeInv, RuntimeInv, Accounted, OwnedByRuntime
<1>10. FfiBlocks \cap (buffer \cup OwnedBy(image) \cup HostBlocks \cup ListBlocks \cup ExternalBlocks \cup lost) = {}
  <2>1. \A b \in lost : b[1] \in {"exec", "stack"} BY DEF LifeInv, RuntimeInv, LostLists
  <2> QED BY <2>1, NamesApart DEF ImageNames, FieldNames, HeapNames
<1>11. Accounted' BY <1>2, <1>7, <1>8, <1>9, <1>10 DEF Accounted, OwnedByRuntime
<1>12. Bindings' BY DEF LifeInv, RuntimeInv, Bindings, ClosuresCallLatest, Range
<1> QED BY <1>2, <1>3, <1>4, <1>5, <1>6, <1>11, <1>12 DEF LifeInv, RuntimeInv

(* The last element goes. *)
LEMMA RemoveLastFacts ==
  ASSUME NEW S, NEW s \in Seq(S), s # <<>>
  PROVE  /\ RemoveAt(s, Len(s)) \in Seq(S) /\ Len(RemoveAt(s, Len(s))) = Len(s) - 1
         /\ \A i \in 1 .. Len(s) - 1 : RemoveAt(s, Len(s))[i] = s[i]
         /\ Range(s) = Range(RemoveAt(s, Len(s))) \cup {s[Len(s)]}
         /\ s[Len(s)] \in Range(s)
<1> DEFINE a == SubSeq(s, 1, Len(s) - 1)  b == SubSeq(s, Len(s) + 1, Len(s))  r == RemoveAt(s, Len(s))
<1>1. Len(s) \in Nat /\ Len(s) > 0 OBVIOUS
<1>2. a \in Seq(S) /\ Len(a) = Len(s) - 1 /\ \A i \in 1 .. Len(s) - 1 : a[i] = s[i]
  <2>1. \A i \in 1 .. Len(s) - 1 : s[i] \in S BY <1>1
  <2>2. 1 \in Int /\ Len(s) - 1 \in Int BY <1>1
  <2>3. /\ a \in Seq(S) /\ Len(a) = IF 1 <= Len(s) - 1 THEN Len(s) - 1 - 1 + 1 ELSE 0
        /\ \A i \in 1 .. Len(s) - 1 - 1 + 1 : a[i] = s[1 + i - 1]
    BY <2>1, <2>2, SubSeqProperties
  <2> HIDE DEF a
  <2>4. Len(a) = Len(s) - 1
    <3>1. CASE 1 <= Len(s) - 1
      <4>1. Len(a) = Len(s) - 1 - 1 + 1 BY <2>3, <3>1, Zenon
      <4> QED BY <1>1, <4>1
    <3>2. CASE ~(1 <= Len(s) - 1)
      <4>1. Len(a) = 0 BY <2>3, <3>2, Zenon
      <4>2. \A n \in Nat : n > 0 /\ ~(1 <= n - 1) => n - 1 = 0 OBVIOUS
      <4>3. Len(s) - 1 = 0 BY <1>1, <3>2, <4>2, Zenon
      <4> QED BY <4>1, <4>3
    <3> QED BY <3>1, <3>2
  <2>5. ASSUME NEW i \in 1 .. Len(s) - 1 PROVE a[i] = s[i]
    <3>1. i \in 1 .. Len(s) - 1 - 1 + 1 /\ 1 + i - 1 = i BY <1>1
    <3>2. a[i] = s[1 + i - 1] BY <2>3, <3>1
    <3> QED BY <3>1, <3>2, Zenon
  <2> QED BY <2>3, <2>4, <2>5
<1>3. b = <<>> BY <1>1
<1>4. r = a
  <2> HIDE DEF a
  <2>1. a \o <<>> = a BY <1>2
  <2> QED BY <1>3, <2>1 DEF RemoveAt, a
<1>5. DOMAIN s = 1 .. Len(s) /\ DOMAIN r = 1 .. Len(s) - 1 BY <1>1, <1>2, <1>4
<1>6. \A i \in DOMAIN s : i \in DOMAIN r \/ i = Len(s) BY <1>1, <1>5
<1>7. DOMAIN r \subseteq DOMAIN s /\ Len(s) \in DOMAIN s BY <1>1, <1>5
<1>8. \A i \in DOMAIN r : r[i] = s[i] BY <1>2, <1>4, <1>5
<1> HIDE DEF r
<1>9. Range(s) = Range(r) \cup {s[Len(s)]} BY <1>6, <1>7, <1>8 DEF Range
<1> QED BY <1>2, <1>4, <1>9 DEF r

(* What ReleaseExternal leaves of the externals. *)
LEMMA ReleaseFacts ==
  ASSUME LifeInv, ReleaseExternal
  PROVE  /\ held = 0 /\ held' \in Range(externals) /\ held' \in Nat
         /\ externals' \in Seq(Nat) /\ Range(externals) = Range(externals') \cup {held'}
         /\ \A i, j \in DOMAIN externals' : i < j => externals'[i] < externals'[j]
         /\ \A e \in Range(externals') : e < held'
<1>1. externals \in Seq(Nat) /\ externals # <<>> /\ held = 0 /\ Len(externals) \in Nat
  BY DEF LifeInv, RuntimeInv, RuntimeTypeOK, Numbered, ReleaseExternal
<1>2. \A i, j \in DOMAIN externals : i < j => externals[i] < externals[j]
  BY DEF LifeInv, RuntimeInv, Numbered
<1>3. held' = externals[Len(externals)] /\ externals' = RemoveAt(externals, Len(externals))
  BY DEF ReleaseExternal, NextReleased
<1>4. /\ externals' \in Seq(Nat) /\ Len(externals') = Len(externals) - 1
      /\ \A i \in 1 .. Len(externals) - 1 : externals'[i] = externals[i]
      /\ Range(externals) = Range(externals') \cup {held'} /\ held' \in Range(externals)
  BY <1>1, <1>3, RemoveLastFacts
<1>5. held' \in Nat
  <2>1. Range(externals) \subseteq Nat BY <1>1, RangeOfSeq
  <2> QED BY <1>4, <2>1
<1>6. DOMAIN externals = 1 .. Len(externals) /\ DOMAIN externals' = 1 .. Len(externals) - 1
  BY <1>1, <1>4
<1>7. \A i, j \in DOMAIN externals' : i < j => externals'[i] < externals'[j]
  <2> SUFFICES ASSUME NEW i \in DOMAIN externals', NEW j \in DOMAIN externals', i < j
               PROVE  externals'[i] < externals'[j]
    OBVIOUS
  <2>1. externals'[i] = externals[i] /\ externals'[j] = externals[j] BY <1>4, <1>6
  <2>2. i \in DOMAIN externals /\ j \in DOMAIN externals BY <1>1, <1>6
  <2> QED BY <1>2, <2>1, <2>2
<1>8. \A e \in Range(externals') : e < held'
  <2> SUFFICES ASSUME NEW i \in DOMAIN externals' PROVE externals'[i] < held' BY DEF Range
  <2>1. externals'[i] = externals[i] BY <1>4, <1>6
  <2>2. i \in DOMAIN externals /\ Len(externals) \in DOMAIN externals /\ i < Len(externals) BY <1>1, <1>6
  <2> QED BY <1>2, <1>3, <2>1, <2>2
<1> QED BY <1>1, <1>4, <1>5, <1>7, <1>8

LEMMA ReleaseExternalSound ==
  ASSUME LifeInv, ~Loading, ReleaseExternal
  PROVE  LifeInv'
<1>1. /\ phase = "externals" /\ phase' = "release"
      /\ UNCHANGED <<loadvars, exec, stack, hosts, callbacks, descriptors, made, latest, lost, careless>>
  BY DEF ReleaseExternal
<1>2. KeepLoad /\ image' = image /\ live' = live BY <1>1 DEF KeepLoad, loadvars
<1>3. live' \subseteq Blocks BY <1>2 DEF LifeInv, LoadInv, LoadTypeOK
<1>4. LoadInv' /\ Loading' = Loading /\ OwnedBy(image)' = OwnedBy(image) /\ buffer' = buffer
  BY <1>2, <1>3, HostKeepsLoad
<1>5. /\ held = 0 /\ held' \in Range(externals) /\ held' \in Nat
      /\ externals' \in Seq(Nat) /\ Range(externals) = Range(externals') \cup {held'}
      /\ \A i, j \in DOMAIN externals' : i < j => externals'[i] < externals'[j]
      /\ \A e \in Range(externals') : e < held'
  BY ReleaseFacts
<1>6. RuntimeTypeOK' BY <1>1, <1>5 DEF LifeInv, RuntimeInv, RuntimeTypeOK
<1>7. NothingYet' /\ LoadOver' BY <1>1, <1>4 DEF NothingYet, LoadOver
<1>8. Numbered'
  <2>1. held' < made BY <1>5, NumberFacts
  <2>2. \A e \in Range(externals') : e \in Nat /\ 0 < e /\ e < made /\ e # held' BY <1>5, NumberFacts
  <2> QED BY <1>1, <1>2, <1>5, <2>1, <2>2 DEF LifeInv, RuntimeInv, Numbered
<1>9. LostLists' BY <1>1 DEF LifeInv, RuntimeInv, LostLists
<1>10. ExternalBlocks' = ExternalBlocks
  <2>1. held' # 0 BY <1>5, NumberFacts
  <2> QED BY <1>5, <2>1 DEF ExternalBlocks
<1>11. FfiBlocks' = FfiBlocks /\ HostBlocks' = HostBlocks /\ ListBlocks' = ListBlocks
  BY <1>1 DEF FfiBlocks, HostBlocks, ListBlocks, OwnList
<1>12. Accounted' BY <1>1, <1>2, <1>4, <1>10, <1>11 DEF LifeInv, RuntimeInv, Accounted, OwnedByRuntime
<1>13. Bindings' BY <1>1 DEF LifeInv, RuntimeInv, Bindings, ClosuresCallLatest
<1> QED BY <1>4, <1>6, <1>7, <1>8, <1>9, <1>12, <1>13 DEF LifeInv, RuntimeInv

LEMMA EndReleaseSound ==
  ASSUME LifeInv, ~Loading, EndRelease
  PROVE  LifeInv'
<1> USE DEF EndRelease
<1>1. live' \subseteq Blocks BY DEF LifeInv, LoadInv, LoadTypeOK
<1>2. LoadInv' /\ Loading' = Loading /\ OwnedBy(image)' = OwnedBy(image) /\ buffer' = buffer
  BY <1>1, HostKeepsLoad
<1>3. RuntimeTypeOK' BY DEF LifeInv, RuntimeInv, RuntimeTypeOK
<1>4. NothingYet' /\ LoadOver' BY <1>2 DEF NothingYet, LoadOver
<1>5. \A e \in Range(externals) : e \in Nat /\ 0 < e /\ e < made /\ e # held BY NumberFacts
<1>6. Numbered'
  <2>1. held' < made BY <1>5, NumberFacts
  <2>2. \A e \in Range(externals) : 0 < e /\ e < made /\ e # held' BY <1>5
  <2> QED BY <2>1, <2>2 DEF LifeInv, RuntimeInv, Numbered
<1>7. LostLists' BY DEF LifeInv, RuntimeInv, LostLists
<1>8. FfiBlocks' = FfiBlocks /\ HostBlocks' = HostBlocks /\ ListBlocks' = ListBlocks
  BY DEF FfiBlocks, HostBlocks, ListBlocks, OwnList
<1>9. ExternalBlocks' = ExternalBlocks \ {Block("external", held)}
  <2>1. \A e \in Range(externals) : Block("external", e) # Block("external", held) BY <1>5 DEF Block
  <2>2. ExternalBlocks' = {Block("external", e) : e \in Range(externals)} BY DEF ExternalBlocks
  <2> QED BY <2>1, <2>2 DEF ExternalBlocks
<1>10. Block("external", held)[1] = "external" BY BlockFacts
<1>11. Block("external", held) \notin
         buffer \cup OwnedBy(image) \cup FfiBlocks \cup HostBlocks \cup ListBlocks \cup lost
  BY <1>10, NamesApart DEF ImageNames, FieldNames, HeapNames
<1>12. Accounted'
  BY <1>2, <1>8, <1>9, <1>11 DEF LifeInv, RuntimeInv, Accounted, OwnedByRuntime
<1>13. Bindings' BY DEF LifeInv, RuntimeInv, Bindings, ClosuresCallLatest
<1> QED BY <1>2, <1>3, <1>4, <1>6, <1>7, <1>12, <1>13 DEF LifeInv, RuntimeInv

LEMMA DestroyRuntimeSound ==
  ASSUME LifeInv, ~Loading, DestroyRuntime
  PROVE  LifeInv'
<1> USE DEF DestroyRuntime
<1>1. live' \subseteq Blocks BY DEF LifeInv, LoadInv, LoadTypeOK
<1>2. LoadInv' /\ Loading' = Loading /\ OwnedBy(image)' = OwnedBy(image) /\ buffer' = buffer
  BY <1>1, HostKeepsLoad
<1>3. FfiBlocks \subseteq {"exec", "stack", "callback", "descriptor"} \X Nat
  <2>1. Range(callbacks) \subseteq Callbacks /\ Range(descriptors) \subseteq Descriptors
    BY RangeOfSeq DEF LifeInv, RuntimeInv, RuntimeTypeOK
  <2>2. \A k \in Nat : /\ Block("callback", k) \in {"exec", "stack", "callback", "descriptor"} \X Nat
                       /\ Block("descriptor", k) \in {"exec", "stack", "callback", "descriptor"} \X Nat
    BY DEF Block
  <2>3. (\A c \in Range(callbacks) : c.id \in Nat) /\ (\A d \in Range(descriptors) : d.id \in Nat)
    BY <2>1 DEF Callbacks, Descriptors
  <2> QED BY <2>2, <2>3 DEF FfiBlocks
<1>4. RuntimeTypeOK' BY <1>3 DEF LifeInv, RuntimeInv, RuntimeTypeOK, Lists, NoList
<1>5. NothingYet' /\ LoadOver' BY <1>2 DEF NothingYet, LoadOver
<1>6. Numbered'
  <2>1. exec'.id < made /\ stack'.id < made BY NumberFacts DEF NoList
  <2> QED BY <2>1 DEF LifeInv, RuntimeInv, Numbered
<1>7. ~careless => FfiBlocks = {} BY DEF LifeInv, RuntimeInv, LostLists, FfiBlocks, Range
<1>8. LostLists' BY <1>7 DEF LifeInv, RuntimeInv, LostLists
<1>9. FfiBlocks' = {} /\ HostBlocks' = {} /\ ListBlocks' = {} /\ ExternalBlocks' = ExternalBlocks
  BY DEF FfiBlocks, HostBlocks, ListBlocks, ExternalBlocks, OwnList, NoList, Range
<1>10. live = buffer \cup OwnedBy(image) \cup FfiBlocks \cup HostBlocks \cup ListBlocks \cup ExternalBlocks \cup lost
  BY DEF LifeInv, RuntimeInv, Accounted, OwnedByRuntime
<1>11. FreedLast \cap (buffer \cup OwnedBy(image) \cup FfiBlocks \cup ExternalBlocks) = {}
  BY NamesApart DEF FreedLast, ImageNames, FieldNames, HeapNames
<1>12. FreedLast \cap lost = {}
  <2>1. \A b \in lost : (b[1] = "exec" /\ b[2] < exec.id) \/ (b[1] = "stack" /\ b[2] < stack.id)
    BY DEF LifeInv, RuntimeInv, LostLists
  <2>2. \A b \in ListBlocks : (b[1] = "exec" /\ b[2] = exec.id) \/ (b[1] = "stack" /\ b[2] = stack.id)
    BY DEF ListBlocks, OwnList, Block
  <2>3. exec.id \in Nat /\ stack.id \in Nat BY NumberFacts
  <2>4. \A b \in HostBlocks : b[1] = "binding" BY NamesApart
  <2> QED BY <2>1, <2>2, <2>3, <2>4 DEF FreedLast
<1>13. Accounted' BY <1>2, <1>9, <1>10, <1>11, <1>12 DEF Accounted, OwnedByRuntime, FreedLast
<1>14. Bindings' BY DEF LifeInv, RuntimeInv, Bindings, ClosuresCallLatest, Range
<1> QED BY <1>2, <1>4, <1>5, <1>6, <1>8, <1>13, <1>14 DEF LifeInv, RuntimeInv

LEMMA DestroyImageSound ==
  ASSUME LifeInv, ~Loading, DestroyImage
  PROVE  LifeInv'
<1> USE DEF DestroyImage, rtvars
<1>1. image' = Zeroed /\ Zeroed \in Images BY DEF Zeroed, Images
<1>2. LoadTypeOK' BY <1>1 DEF LifeInv, LoadInv, LoadTypeOK, DestroyedImage
<1>3. Untouched' /\ CursorInside' BY SectionFacts DEF Untouched, CursorInside
<1>4. ReadsInside' BY OfStays DEF LifeInv, LoadInv, ReadsInside
<1>5. ImageInv' BY <1>1, SectionFacts DEF ImageInv, TablesGrow, HeapGrows, PointersOwned, MemGrows, WordsFit, Zeroed, Range, IsInjective
<1>6. LoadInv' BY <1>2, <1>3, <1>4, <1>5 DEF LoadInv
<1>7. RuntimeTypeOK' BY DEF LifeInv, RuntimeInv, RuntimeTypeOK
<1>8. NothingYet' BY DEF NothingYet
<1>9. LoadOver' BY SectionFacts DEF LoadOver, Loading
<1>10. Numbered' BY <1>1 DEF LifeInv, RuntimeInv, Numbered, Zeroed, Range
<1>11. LostLists' BY DEF LifeInv, RuntimeInv, LostLists
<1>12. OwnedBy(image)' = {} BY <1>1 DEF OwnedBy, Zeroed, Range
<1>13. FfiBlocks' = FfiBlocks /\ HostBlocks' = HostBlocks /\ ListBlocks' = ListBlocks /\ ExternalBlocks' = ExternalBlocks
  BY DEF FfiBlocks, HostBlocks, ListBlocks, ExternalBlocks, OwnList
<1>14. OwnedBy(image) \cap (buffer \cup FfiBlocks \cup HostBlocks \cup ListBlocks \cup ExternalBlocks \cup lost) = {}
  BY NamesApart DEF ImageNames, FieldNames, HeapNames
<1>15. live = buffer \cup OwnedBy(image) \cup FfiBlocks \cup HostBlocks \cup ListBlocks \cup ExternalBlocks \cup lost
  BY DEF LifeInv, RuntimeInv, Accounted, OwnedByRuntime
<1>16. Accounted' BY <1>12, <1>13, <1>14, <1>15 DEF Accounted, OwnedByRuntime, DestroyedImage
<1>17. Bindings' BY DEF LifeInv, RuntimeInv, Bindings, ClosuresCallLatest
<1> QED BY <1>6, <1>7, <1>8, <1>9, <1>10, <1>11, <1>16, <1>17 DEF LifeInv, RuntimeInv

-----------------------------------------------------------------------------
(* The theorems *)

LEMMA LifeInit ==
  ASSUME Init
  PROVE  LifeInv
<1> USE DEF Init
<1>1. LoadInv /\ AllHeld BY LoadInitSound
<1>2. RuntimeTypeOK
  <2>1. exec \in Lists /\ stack \in Lists BY DEF Lists, NoList
  <2>2. hosts \in Seq(Hosts) /\ callbacks \in Seq(Callbacks) /\ descriptors \in Seq(Descriptors)
        /\ externals \in Seq(Nat)
    OBVIOUS
  <2>3. latest \in [Names -> Fns \cup {"null"}] OBVIOUS
  <2>4. lost \subseteq {"exec", "stack", "callback", "descriptor"} \X Nat OBVIOUS
  <2> QED BY <2>1, <2>2, <2>3, <2>4 DEF RuntimeTypeOK
<1>3. image.heap = <<>> BY DEF LoadInit, Zeroed
<1>4. NothingYet /\ LoadOver BY <1>3 DEF NothingYet, LoadOver, Range
<1>5. Numbered BY <1>3 DEF Numbered, NoList, Range
<1>6. LostLists BY DEF LostLists
<1>7. OwnedByRuntime = {}
  BY DEF OwnedByRuntime, FfiBlocks, HostBlocks, ListBlocks, ExternalBlocks, OwnList, NoList, Range
<1>8. Accounted BY <1>1, <1>7 DEF Accounted, AllHeld
<1>9. Bindings BY DEF Bindings, ClosuresCallLatest, Range
<1> QED BY <1>1, <1>2, <1>4, <1>5, <1>6, <1>8, <1>9 DEF LifeInv, RuntimeInv

LEMMA LifeNext ==
  ASSUME LifeInv, Next
  PROVE  LifeInv'
<1>1. CASE LoadStep /\ UNCHANGED rtvars BY <1>1, LoadSound
<1>2. CASE ~Loading /\ HostStep
  BY <1>2, RuntimeInitSound, BindSound, AllocOwnedSound, CompileSound, RegisterHostSound,
     TrackExternalSound, MakeCallbackSound, CacheDescriptorSound, CleanupFfiSound,
     ReleaseExternalSound, EndReleaseSound, DestroyRuntimeSound, DestroyImageSound DEF HostStep
<1> QED BY <1>1, <1>2 DEF Next

LEMMA LifeStutters ==
  ASSUME LifeInv, UNCHANGED <<loadvars, rtvars>>
  PROVE  LifeInv'
<1> USE DEF loadvars, rtvars
<1>1. KeepLoad /\ image' = image /\ live' = live BY DEF KeepLoad
<1>2. live' \subseteq Blocks BY <1>1 DEF LifeInv, LoadInv, LoadTypeOK
<1>3. LoadInv' /\ Loading' = Loading /\ OwnedBy(image)' = OwnedBy(image) BY <1>1, <1>2, HostKeepsLoad
<1>4. RuntimeTypeOK' /\ NothingYet' /\ Numbered' /\ LostLists'
  BY DEF LifeInv, RuntimeInv, RuntimeTypeOK, NothingYet, Numbered, LostLists
<1>5. LoadOver' BY <1>3 DEF LifeInv, RuntimeInv, LoadOver
<1>6. OwnedByRuntime' = OwnedByRuntime
  BY DEF OwnedByRuntime, FfiBlocks, HostBlocks, ListBlocks, ExternalBlocks, OwnList
<1>7. Accounted' BY <1>3, <1>6 DEF LifeInv, RuntimeInv, Accounted
<1>8. Bindings' BY DEF LifeInv, RuntimeInv, Bindings, ClosuresCallLatest
<1> QED BY <1>3, <1>4, <1>5, <1>7, <1>8 DEF LifeInv, RuntimeInv

(* All of it holds in every state of every load and of every runtime. *)
THEOREM LifetimeIsSound == Spec => []LifeInv
<1>1. Init => LifeInv BY LifeInit
<1>2. LifeInv /\ [Next]_<<loadvars, rtvars>> => LifeInv' BY LifeNext, LifeStutters
<1> QED BY <1>1, <1>2, PTL DEF Spec

(* For any files: the cursor of a section stays in the bytes that the       *)
(* header gives it, and if these sizes add up in 32 bits the header's check *)
(* puts all five sections, and so every byte read, inside the file.        *)
THEOREM LoadReadsInside == Spec => []ReadsInside
<1>1. LifeInv => ReadsInside BY DEF LifeInv, LoadInv
<1> QED BY <1>1, LifetimeIsSound, PTL

(* What the load has read of the file stays true of it. *)
LEMMA ReadsStay ==
  ASSUME LifeInv, ReadSoFar, [Next]_<<loadvars, rtvars>>
  PROVE  ReadSoFar'
<1>1. CASE LoadStep BY <1>1, LoadStepRight DEF LifeInv
<1>2. CASE DestroyImage
  BY <1>2, SectionFacts DEF DestroyImage, ReadSoFar
<1>3. CASE HostStep /\ ~DestroyImage
  <2>1. UNCHANGED <<file, section, done, off, status>>
    BY <1>3 DEF HostStep, RuntimeInit, AllocOwned, TrackExternal, CacheDescriptor, Bind, Compile,
       MakeCallback, RegisterHost, CleanupFfi, ReleaseExternal, EndRelease, DestroyRuntime, KeepLoad,
       loadvars
  <2> QED BY <2>1, ReadsOn
<1>4. CASE UNCHANGED <<loadvars, rtvars>>
  BY <1>4, ReadsOn DEF loadvars
<1> QED BY <1>1, <1>2, <1>3, <1>4 DEF Next

(* For every file: no file that docs/BYTECODE.md describes is refused while  *)
(* malloc gives, and what loads is as the document describes it, short of   *)
(* the bytes only if its sizes do not add up in 32 bits.  The cursor is where the entries   *)
(* read so far end, so that a section is used up only with its last entry.  *)
THEOREM OnlyDocumentedLoad == Spec => []LoadsDocumented
<1>1. Init => ReadSoFar BY LoadInitRight DEF Init
<1>2. LifeInv /\ ReadSoFar /\ [Next]_<<loadvars, rtvars>> => ReadSoFar' BY ReadsStay
<1>3. ReadSoFar => LoadsDocumented BY ReadsDocumented
<1> QED BY <1>1, <1>2, <1>3, LifetimeIsSound, PTL DEF Spec

(* Every pointer in an image's memory is to a block that is allocated, and  *)
(* that the image owns: the strings were copied before a constant names    *)
(* them, and the heap gives nothing back before the image goes.  A constant *)
(* reference is of one of the words before the code, which are no tokens.  *)
THEOREM LoadedWordsAreSound == Spec => []WordsAreSound
<1>1. ASSUME LifeInv PROVE WordsAreSound
  <2> SUFFICES ASSUME NEW w \in Range(image.mem)
               PROVE  /\ w.to = "block" => w.block \in live
                      /\ w.to = "alias" => w.index \in DocumentedAliases
                      /\ w.to = "const_ref" =>
                           /\ w.index < Len(Constants)
                           /\ Constants[w.index + 1].to \in {"word", "block"}
    BY DEF WordsAreSound
  <2>1. w.to = "block" => w.block \in live
    BY <1>1 DEF LifeInv, LoadInv, ImageInv, PointersOwned, RuntimeInv, Accounted, OwnedBy
  <2>2. PICK i \in DOMAIN image.mem : w = image.mem[i] BY DEF Range
  <2>3. w.to = "alias" => w.index \in DocumentedAliases
    BY <1>1, <2>2 DEF LifeInv, LoadInv, ImageInv, MemGrows, WordsFit
  <2>4. ASSUME w.to = "const_ref"
        PROVE  w.index < Len(Constants) /\ Constants[w.index + 1].to \in {"word", "block"}
    <3> DEFINE n == Of("constants").count
    <3>1. image.mem \in Seq(MemWords) /\ n \in Nat
      BY <1>1, FileFacts, SectionFacts DEF LifeInv, LoadInv, LoadTypeOK, Images
    <3>2. w \in MemWords /\ w.index \in Nat
      <4>1. w \in MemWords BY <2>2, <3>1
      <4> QED BY <4>1 DEF MemWords
    <3>3. w.index < n /\ n <= Len(image.mem)
      BY <1>1, <2>2, <2>4 DEF LifeInv, LoadInv, ImageInv, MemGrows, WordsFit
    <3>4. /\ w.index + 1 \in 1 .. n /\ w.index + 1 \in DOMAIN image.mem
          /\ w.index + 1 <= n
      BY <3>1, <3>2, <3>3
    <3>5. image.mem[w.index + 1].to \in {"word", "block"}
      BY <1>1, <3>4 DEF LifeInv, LoadInv, ImageInv, MemGrows, WordsFit, Constant
    <3>6. Len(Constants) = n /\ Constants[w.index + 1] = image.mem[w.index + 1]
      <4> HIDE DEF n
      <4>1. Constants = SubSeq(image.mem, 1, n) BY DEF Constants, n
      <4> QED BY <3>1, <3>3, <3>4, <4>1
    <3> QED BY <3>3, <3>5, <3>6
  <2> QED BY <2>1, <2>3, <2>4
<1> QED BY <1>1, LifetimeIsSound, PTL

(* The blocks allocated are those the image and the runtime reach, in every *)
(* state: through failed loads, rebinding and release functions.           *)
THEOREM NothingEverLeaks == Spec => []NothingLeaks
<1>1. LifeInv => NothingLeaks
  <2> SUFFICES ASSUME LifeInv PROVE NothingLeaks OBVIOUS
  <2>1. live = buffer \cup OwnedBy(image) \cup OwnedByRuntime \cup lost BY DEF LifeInv, RuntimeInv, Accounted
  <2>2. IsInjective(image.heap) BY DEF LifeInv, LoadInv, ImageInv, HeapGrows
  <2>3. \A e \in Range(externals) : e # held BY NumberFacts
  <2>4. IsInjective(externals)
    <3>1. \A i, j \in DOMAIN externals : i < j => externals[i] # externals[j]
      <4>1. \A i \in DOMAIN externals : externals[i] \in Nat BY DEF LifeInv, RuntimeInv, RuntimeTypeOK
      <4> QED BY <4>1 DEF LifeInv, RuntimeInv, Numbered
    <3>2. DOMAIN externals \subseteq Nat BY DEF LifeInv, RuntimeInv, RuntimeTypeOK
    <3>3. \A i, j \in DOMAIN externals : i = j \/ i < j \/ j < i BY <3>2
    <3> QED BY <3>1, <3>3 DEF IsInjective
  <2>5. ~careless => lost = {} BY DEF LifeInv, RuntimeInv, LostLists
  <2> QED BY <2>1, <2>2, <2>3, <2>4, <2>5 DEF NothingLeaks
<1> QED BY <1>1, LifetimeIsSound, PTL

(* A closure calls the function its name was last registered to, and its    *)
(* binding is in the registry for as long as the closure is there.         *)
THEOREM ClosuresFollowTheirName == Spec => []ClosuresCallLatest
<1>1. LifeInv => ClosuresCallLatest BY DEF LifeInv, RuntimeInv, Bindings
<1> QED BY <1>1, LifetimeIsSound, PTL

(* Externals are released last in, first out, after the closures are gone,  *)
(* and none is left when the runtime is.                                   *)
THEOREM ExternalsGoLastFirst == Spec => ReleasedLastFirst
<1> DEFINE LastFirst == held' # held /\ held' # 0 =>
                          /\ \A e \in Range(externals) : e <= held'
                          /\ ~careless => callbacks = <<>>
           AllReleased == phase = "gone" => externals = <<>> /\ held = 0
<1>1. LifeInv /\ [Next]_<<loadvars, rtvars>> => [LastFirst]_<<loadvars, rtvars>>
  <2> SUFFICES ASSUME LifeInv, Next, held' # held, held' # 0 PROVE LastFirst
    OBVIOUS
  <2>1. ReleaseExternal
    BY DEF Next, HostStep, rtvars, RuntimeInit, Bind, AllocOwned, Compile, RegisterHost, TrackExternal,
       MakeCallback, CacheDescriptor, CleanupFfi, EndRelease, DestroyRuntime, DestroyImage
  <2>2. \A e \in Range(externals) : e <= held'
    <3>1. \A e \in Range(externals) : e \in Nat BY NumberFacts
    <3> QED BY <2>1, <3>1, ReleaseFacts
  <2>3. ~careless => callbacks = <<>> BY <2>1 DEF LifeInv, RuntimeInv, LostLists, ReleaseExternal
  <2> QED BY <2>2, <2>3
<1>2. LifeInv => AllReleased BY DEF LifeInv, RuntimeInv, Numbered
<1> HIDE DEF LastFirst, AllReleased
<1>3. Spec => [][LastFirst]_<<loadvars, rtvars>> /\ []AllReleased
  BY <1>1, <1>2, LifetimeIsSound, PTL DEF Spec
<1> QED BY <1>3 DEF LastFirst, AllReleased, ReleasedLastFirst
=============================================================================
