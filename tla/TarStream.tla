------------------------------ MODULE TarStream ------------------------------
(***************************************************************************)
(* The tar engine: one archive file in the destination directory, written  *)
(* by a walk over the source.  A tree is the sequence of its entries below *)
(* the root in the order of the walk, each with the index of its parent (0 *)
(* for the root).  The deferred Closes write the end of the archive; what  *)
(* they return is not looked at.                                           *)
(***************************************************************************)
EXTENDS EngineCall

CONSTANTS
  Trees,    \* sequences of records [parent, dir]
  Filters   \* include and exclude patterns as the entries they match:
            \* records [includes: BOOLEAN, included, excluded: sets of indices]

\* The walk visits a directory before what is in it, and all of that before it goes on.
ASSUME TreesAssumption ==
  \A t \in Trees :
    /\ t \in Seq([parent : Nat, dir : BOOLEAN])
    /\ \A i \in DOMAIN t :
         LET above == t[i].parent
         IN  /\ above < i /\ (above # 0 => t[above].dir)
             /\ \A j \in above + 1 .. i - 1 : t[j].parent >= above

VARIABLES
  tarPc,     \* "call", "walk", "close", "end"
  tree, filters,
  pos,       \* the entry the walk visits next
  headers,   \* the entries whose headers were written, in their order
  contents,  \* the files of which all bytes were written
  filesDone, \* result.FilesDone
  tarErr,    \* what walkAndTar returned
  trailer    \* the end of the archive: "none", "written", "lost"

walkVars == <<tree, filters>>
tarVars == <<tarPc, walkVars, pos, headers, contents, filesDone, tarErr, trailer>>

IsTar == engine = "tar"

TarTypeOK ==
  /\ tarPc \in {"call", "walk", "close", "end"}
  /\ pos \in 1..Len(tree) + 1
  /\ headers \in Seq(DOMAIN tree) /\ contents \subseteq DOMAIN tree
  /\ filesDone \in Nat
  /\ tarErr \in {"nil", "error"} /\ trailer \in {"none", "written", "lost"}

TarInit ==
  /\ tarPc = "call"
  /\ IF IsTar THEN tree \in Trees /\ filters \in Filters
              ELSE tree = <<>> /\ filters = [includes |-> FALSE, included |-> {}, excluded |-> {}]
  /\ pos = 1 /\ headers = <<>> /\ contents = {} /\ filesDone = 0
  /\ tarErr = "nil" /\ trailer = "none"
-----------------------------------------------------------------------------
IsLocal(loc) == loc.kind = "plain"   \* no "@" and no "://" in it

\* matchesFilters, of the entry's last name.
Matches(i) ==
  /\ filters.includes => i \in filters.included
  /\ i \notin filters.excluded

\* The entry, its directory, and so on up to the root.
Lineage(i) ==
  LET up[j \in 0..Len(tree)] == IF j = 0 THEN {} ELSE {j} \cup up[tree[j].parent]
  IN up[i]

\* Where the walk goes on after filepath.SkipDir: behind everything below i.
Behind(i) ==
  CHOOSE j \in i + 1 .. Len(tree) + 1 :
    /\ j <= Len(tree) => i \notin Lineage(j)
    /\ \A k \in i + 1 .. j - 1 : i \in Lineage(k)

TarDryRun ==
  /\ tarPc = "call" /\ Transfers /\ call.dryRun
  /\ tarPc' = "end" /\ Answers("nil")
  /\ UNCHANGED <<walkVars, pos, headers, contents, filesDone, tarErr, trailer>>

\* Estimate walks over the source, whatever the options, and forgives every error.
TarEstimates ==
  /\ tarPc = "call" /\ Estimates
  /\ tarPc' = "end" /\ Answers("nil")
  /\ UNCHANGED <<walkVars, pos, headers, contents, filesDone, tarErr, trailer>>

\* A remote source, transferRemote, or no archive could be created.
TarRefuses ==
  /\ tarPc = "call" /\ Transfers /\ ~call.dryRun
  /\ tarPc' = "end" /\ Answers("error")
  /\ UNCHANGED <<walkVars, pos, headers, contents, filesDone, tarErr, trailer>>

TarStarts ==
  /\ tarPc = "call" /\ Transfers /\ ~call.dryRun
  /\ IsLocal(call.source) /\ IsLocal(call.dest)
  /\ tarPc' = "walk"
  /\ UNCHANGED <<callVars, walkVars, pos, headers, contents, filesDone, tarErr, trailer>>

Visiting == tarPc = "walk" /\ pos <= Len(tree)

\* Mutant: false is answered for a directory as for a file, the walk goes on inside.
VisitSkipsEntry ==
  /\ Visiting /\ ~cancelled /\ ~Matches(pos)
  /\ pos' = pos + 1
  /\ UNCHANGED <<callVars, tarPc, walkVars, headers, contents, filesDone, tarErr, trailer>>

\* What the filters leave out; of a directory also everything below it.
VisitSkips ==
  /\ Visiting /\ ~cancelled /\ ~Matches(pos)
  /\ pos' = IF tree[pos].dir THEN Behind(pos) ELSE pos + 1
  /\ UNCHANGED <<callVars, tarPc, walkVars, headers, contents, filesDone, tarErr, trailer>>

VisitAdds ==
  /\ Visiting /\ ~cancelled /\ Matches(pos)
  /\ headers' = Append(headers, pos)
  /\ contents' = IF tree[pos].dir THEN contents ELSE contents \cup {pos}
  /\ filesDone' = filesDone + 1
  /\ pos' = pos + 1
  /\ UNCHANGED <<callVars, tarPc, walkVars, tarErr, trailer>>

\* The context is done, the entry cannot be read, its header or bytes not be written.
VisitFails ==
  /\ Visiting
  /\ \/ UNCHANGED headers
     \/ ~cancelled /\ Matches(pos) /\ ~tree[pos].dir /\ headers' = Append(headers, pos)
  /\ tarErr' = "error" /\ tarPc' = "close"
  /\ UNCHANGED <<callVars, walkVars, pos, contents, filesDone, trailer>>

WalkEnds ==
  /\ tarPc = "walk" /\ pos > Len(tree)
  /\ tarPc' = "close"
  /\ UNCHANGED <<callVars, walkVars, pos, headers, contents, filesDone, tarErr, trailer>>

\* tarWriter.Close, gzipWriter.Close and outFile.Close: the result is walkAndTar's.
TarCloses ==
  /\ tarPc = "close"
  /\ trailer' \in {"written", "lost"}
  /\ tarPc' = "end" /\ Answers(tarErr)
  /\ UNCHANGED <<walkVars, pos, headers, contents, filesDone, tarErr>>

TarNext ==
  \/ TarDryRun \/ TarEstimates \/ TarRefuses \/ TarStarts
  \/ VisitSkips \/ VisitAdds \/ VisitFails \/ WalkEnds \/ TarCloses

TarFairness == WF_tarVars(IsTar /\ TarNext)
-----------------------------------------------------------------------------
\* An archive that is reported as complete holds exactly the entries that match the
\* filters together with every directory above them, each once and in the order of the
\* walk, the files with all their bytes, and FilesDone counts them
\* (tarstream/engine.go:164-243).  Its end may be lost: a Close that fails (line 132,
\* 140, 144) is not reported.
ArchiveIsFilteredWalk ==
  /\ IsTar /\ answer = "nil" /\ Transfers /\ ~call.dryRun =>
       LET kept == {i \in DOMAIN tree : \A a \in Lineage(i) : Matches(a)}
       IN /\ {headers[k] : k \in DOMAIN headers} = kept
          /\ \A k \in 1 .. Len(headers) - 1 : headers[k] < headers[k + 1]
          /\ contents = {i \in kept : ~tree[i].dir}
          /\ filesDone = Len(headers)
  /\ Estimates \/ call.dryRun => headers = <<>>
=============================================================================
