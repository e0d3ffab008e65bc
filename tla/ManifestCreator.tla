--------------------------- MODULE ManifestCreator ---------------------------
(***************************************************************************)
(* CreateManifest of pkg/batch: where the source is, what find prints of   *)
(* it, and the packing of the files into batches.  A location is a record  *)
(* of what parseLocation looks at: whether it begins with a slash, and     *)
(* where its first "@" and ":" are (0 for nowhere).  find is external: a   *)
(* line it prints is a file with its size, or one of the odd lines.        *)
(***************************************************************************)
EXTENDS Integers, Sequences, SequencesExt

CONSTANTS
  Locations,  \* records slash, at, colon
  Listings,   \* what find prints: sequences of sizes and odd lines
  ChunkSize   \* ChunkSizeMB, in bytes

\* No space, no number, only ".", and a line longer than a Scanner takes.  They are
\* negative to be told from sizes.
NoSpace == -1
NoNumber == -2
DotOnly == -3
TooLong == -4

ASSUME CreatorAssumption ==
  /\ ChunkSize \in Nat
  /\ Listings \subseteq Seq(Nat \cup {NoSpace, NoNumber, DotOnly, TooLong})

VARIABLES creatorPc, location, listing, files, batches, host

creatorVars == <<creatorPc, location, listing, files, batches, host>>

CreatorTypeOK ==
  /\ creatorPc \in {"parse", "find", "pack", "manifest", "error"}
  /\ location \in Locations /\ listing \in Listings
  /\ host \in {"none", "after @", "before :"}
  /\ \A i \in DOMAIN files : files[i].name \in DOMAIN listing /\ files[i].size \in Nat
  /\ \A b \in DOMAIN batches : batches[b].size \in Nat

CreatorInit(locations, listings) ==
  /\ creatorPc = "parse" /\ location \in locations /\ listing \in listings
  /\ files = <<>> /\ batches = <<>> /\ host = "none"

\* parseLocation: "user@host:path", "host:path", else a local path.
ParseLocation(l) ==
  IF 0 < l.at /\ l.at < l.colon THEN "after @"
  ELSE IF l.colon > 0 /\ ~l.slash THEN "before :" ELSE "none"

CreatorParses ==
  /\ creatorPc = "parse"
  /\ host' = ParseLocation(location)
  /\ creatorPc' = "find" /\ UNCHANGED <<location, listing, files, batches>>

\* A local find prints names that begin with its path, a remote one names below it.
Listed(i) == [name |-> i, size |-> listing[i], belowRoot |-> host # "none"]

Listable(i) == listing[i] \notin {NoSpace, NoNumber, DotOnly}

\* One round of the loop over find's lines.
ScanLine(found, i) == IF Listable(i) THEN Append(found, Listed(i)) ELSE found

\* enumerateFiles: find, or ssh, may fail.
EnumeratesFiles ==
  /\ creatorPc = "find" /\ TooLong \notin Range(listing)
  /\ files' = FoldLeftDomain(ScanLine, <<>>, listing)
  /\ creatorPc' = IF files' = <<>> THEN "error" ELSE "pack"
  /\ UNCHANGED <<location, listing, batches, host>>

EnumerationFails ==
  /\ creatorPc = "find"
  /\ creatorPc' = "error" /\ UNCHANGED <<location, listing, files, batches, host>>

EmptyBatch == [files |-> <<>>, size |-> 0]

\* Mutant: a batch that would be exactly full is closed as well.
ExceedsOrFills(batch, file) == batch.size > 0 /\ batch.size + file.size >= ChunkSize

Exceeds(batch, file) == batch.size > 0 /\ batch.size + file.size > ChunkSize

PutFile(batch, file) ==
  [files |-> Append(batch.files, file.name), size |-> batch.size + file.size]

\* One round of the loop of binPackFiles; the last batch of the sequence is the current.
PackFile(packed, file) ==
  IF Exceeds(Last(packed), file) THEN Append(packed, PutFile(EmptyBatch, file))
                                 ELSE Append(Front(packed), PutFile(Last(packed), file))

\* binPackFiles and AddBatch for each batch.
BinPacks ==
  /\ creatorPc = "pack"
  /\ batches' = FoldLeft(PackFile, <<EmptyBatch>>, files)
  /\ creatorPc' = "manifest" /\ UNCHANGED <<location, listing, files, host>>

CreatorNext == CreatorParses \/ EnumeratesFiles \/ EnumerationFails \/ BinPacks

SizeOf(batch) == FoldLeft(LAMBDA sum, i : sum + listing[i], 0, batch.files)

\* Next-fit, which is what binPackFiles does and its test expects, although its comment
\* says first-fit (manifest_creator.go:146): only the current batch is open, also to a
\* file that would fit in one before.
\* A manifest has every file that find could name, once and in the order it was named;
\* no batch is empty or of another size than its files; a batch over the limit has one
\* file with contents, its last; and no batch was closed while its next file had room.
PackingKeepsOrderAndLimit ==
  creatorPc = "manifest" =>
    /\ LET names == FlattenSeq([b \in DOMAIN batches |-> batches[b].files])
       IN  /\ Range(names) = {i \in DOMAIN listing : listing[i] >= 0}
           /\ \A j, k \in DOMAIN names : j < k => names[j] < names[k]
    /\ \A b \in DOMAIN batches :
         /\ batches[b].files # <<>> /\ batches[b].size = SizeOf(batches[b])
         /\ batches[b].size > ChunkSize => listing[Last(batches[b].files)] = batches[b].size
         /\ b > 1 => LET before == batches[b - 1].size
                     IN  before > 0 /\ before + listing[Head(batches[b].files)] > ChunkSize
===============================================================================
