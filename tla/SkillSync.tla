----------------------------- MODULE SkillSync -----------------------------
(***************************************************************************)
(* actions/skill-sync: keeps generated copies of agent skills in line with *)
(* their sources.  A run reads the lock file and the registry, rewrites    *)
(* the trees that changed one by one, removes those that are no longer     *)
(* registered, and writes the lock file and the index last.  It may fail   *)
(* or be stopped between any two of these, and the next run goes on from   *)
(* what is on disk.                                                        *)
(***************************************************************************)
EXTENDS Integers, FiniteSets, Functions

CONSTANTS
  Names, Plugins,
  Sources,       \* a source is a repository, a path and a ref
  Private,       \* those that the default token cannot read
  Contents,
  Indexed,       \* an index file is asked for
  Template,      \* placeholders of `dest', a subset of {"plugin", "name"}
  MaxEdits       \* bound: changes made between the runs

ASSUME SyncConstants ==
  /\ Private \subseteq Sources /\ Contents \subseteq Nat \ {0} /\ Contents # {}
  /\ Template \subseteq {"plugin", "name"}
  /\ Indexed \in BOOLEAN /\ MaxEdits \in Nat

None == "none"
NoTree == <<>>

Entries == [plugin : Plugins, source : Sources]

VARIABLES
  registry,   \* the entries of the registered skills
  upstream,   \* what is in each source
  disk,       \* the tree at each destination, or NoTree
  lock,       \* the entries of the locked skills
  index,      \* name and tree of each skill in the index file
  phase,      \* "idle", "sync", "lock", "index", "done", "failed"
  only,       \* names and plugins that this run is limited to
  previous,   \* the lock file as this run read it
  next,       \* the lock file as this run will write it
  todo,       \* registered skills that it has yet to look at
  changed,    \* it changed a tree
  minted,     \* source read tokens it holds
  edits

repository == <<disk, lock, index>>
sources == <<registry, upstream, edits>>
run == <<only, previous, next, todo, changed>>
syncVars == <<repository, sources, phase, run, minted>>

-----------------------------------------------------------------------------
(* Helpers of skills.js and main.js.                                       *)

RenderDest(n, entry) ==
  <<IF "plugin" \in Template THEN entry.plugin ELSE None,
    IF "name" \in Template THEN n ELSE None>>

Dests == (Plugins \cup {None}) \X (Names \cup {None})

\* A registry is accepted when its names are unique; that its skills have
\* destinations of their own is the template's business.
ValidRegistry(r) == IsInjective([n \in DOMAIN r |-> RenderDest(n, r[n])])

Registries ==
  {r \in UNION {[R -> Entries] : R \in SUBSET Names} : ValidRegistry(r)}

Selects(limit, n, entry) == limit = {} \/ n \in limit \/ entry.plugin \in limit

\* files() and treeDigest(): the tree of a skill is its source under its name.
Tree(n, entry) == <<upstream[entry.source], n>>

Trees == Contents \X Names

\* What is in a generated copy that somebody edited.
Foreign == <<0, None>>

LockEntry(n, entry) ==
  [plugin |-> entry.plugin, source |-> entry.source, digest |-> Tree(n, entry),
   dest |-> RenderDest(n, entry)]

WithEntry(entries, n, e) ==
  [m \in DOMAIN entries \cup {n} |-> IF m = n THEN e ELSE entries[m]]

\* Mutant: the tree on disk is not looked at.
UnchangedInLock(n, entry) ==
  /\ n \in DOMAIN previous
  /\ previous[n].source = entry.source
  /\ previous[n].dest = RenderDest(n, entry)
  /\ previous[n].digest = Tree(n, entry)
\* Nothing to do for a skill: entry, source and tree are as they were locked.
Unchanged(n, entry) ==
  /\ n \in DOMAIN previous
  /\ previous[n].source = entry.source
  /\ previous[n].dest = RenderDest(n, entry)
  /\ previous[n].digest = Tree(n, entry)
  /\ disk[RenderDest(n, entry)] = Tree(n, entry)

\* removeTree() of the old destination, then writeTree() of the new one.
Written(n, entry) ==
  LET target == RenderDest(n, entry)
  IN  [d \in Dests |->
         IF d = target THEN Tree(n, entry)
         ELSE IF n \in DOMAIN previous /\ previous[n].dest = d THEN NoTree
         ELSE disk[d]]

\* renderIndexFile(): every locked skill with the tree that is on disk.
RenderIndex(entries) == {<<n, disk[entries[n].dest]>> : n \in DOMAIN entries}

\* Mutant: the same skill is removed again and again.
GoneBefore == {n \in DOMAIN previous \ DOMAIN registry :
                 Selects(only, n, previous[n])}
\* Locked skills that are still to be removed.
Gone == {n \in (DOMAIN previous \cap DOMAIN next) \ DOMAIN registry :
           Selects(only, n, previous[n])}

-----------------------------------------------------------------------------
(* A run.                                                                  *)

\* sync() ends, well or not: main() revokes what was minted.
End(outcome) == phase' = outcome /\ minted' = {}

SyncStart ==
  /\ phase = "idle"
  /\ \E limit \in {{}} \cup {{o} : o \in Names \cup Plugins} :
       /\ only' = limit
       /\ todo' = {n \in DOMAIN registry : Selects(limit, n, registry[n])}
       /\ IF /\ limit # {} /\ todo' = {}
             /\ \A n \in DOMAIN lock : ~Selects(limit, n, lock[n])
          THEN End("failed")
          ELSE phase' = "sync" /\ UNCHANGED minted
  /\ previous' = lock /\ next' = lock /\ changed' = FALSE
  /\ UNCHANGED <<repository, sources>>

\* One skill of the registry.  A source that the default token cannot see is
\* read with a token that is minted once for it.
SyncEntry ==
  /\ phase = "sync"
  /\ \E n \in todo :
       LET entry == registry[n]
       IN  /\ todo' = todo \ {n}
           /\ minted' = minted \cup ({entry.source} \cap Private)
           /\ IF Unchanged(n, entry)
              THEN UNCHANGED <<disk, next, changed>>
              ELSE /\ disk' = Written(n, entry)
                   /\ next' = WithEntry(next, n, LockEntry(n, entry))
                   /\ changed' = TRUE
  /\ UNCHANGED <<lock, index, sources, phase, only, previous>>

\* A source cannot be read or its tree not be copied: the run throws.
SourceFails ==
  /\ phase = "sync" /\ todo # {}
  /\ End("failed")
  /\ UNCHANGED <<repository, sources, run>>

\* A locked skill that is no longer registered.
SyncRemove ==
  /\ phase = "sync" /\ todo = {}
  /\ \E n \in Gone :
       /\ disk' = [disk EXCEPT ![previous[n].dest] = NoTree]
       /\ next' = Restrict(next, DOMAIN next \ {n})
  /\ changed' = TRUE
  /\ UNCHANGED <<lock, index, sources, phase, only, previous, todo, minted>>

SyncLock ==
  /\ phase = "sync" /\ todo = {} /\ Gone = {}
  /\ lock' = IF changed THEN next ELSE lock
  /\ phase' = "index"
  /\ UNCHANGED <<disk, index, sources, run, minted>>

\* The index is made of the trees on disk; it cannot be without one of them.
SyncIndex ==
  /\ phase = "index"
  /\ IF ~Indexed THEN End("done") /\ UNCHANGED index
     ELSE IF \E n \in DOMAIN next : disk[next[n].dest] = NoTree
     THEN End("failed") /\ UNCHANGED index
     ELSE End("done") /\ index' = RenderIndex(next)
  /\ UNCHANGED <<disk, lock, sources, run>>

\* The process is stopped; what it minted stays until it expires.
SyncStopped ==
  /\ phase \in {"sync", "index"}
  /\ phase' = "failed"
  /\ UNCHANGED <<repository, sources, run, minted>>

\* Between two runs sources, the registry or generated copies are edited.  The
\* next run is another process, and tokens that were left have expired.
Edit ==
  /\ phase \in {"idle", "done", "failed"} /\ edits < MaxEdits
  /\ phase' = "idle" /\ edits' = edits + 1
  /\ \/ registry' \in Registries /\ UNCHANGED <<upstream, disk>>
     \/ \E s \in Sources, c \in Contents :
          upstream' = [upstream EXCEPT ![s] = c] /\ UNCHANGED <<registry, disk>>
     \/ \E n \in DOMAIN lock, t \in {Foreign, NoTree} :
          disk' = [disk EXCEPT ![lock[n].dest] = t] /\ UNCHANGED <<registry, upstream>>
  /\ only' = {} /\ previous' = lock /\ next' = lock /\ todo' = {}
  /\ changed' = FALSE /\ minted' = {}
  /\ UNCHANGED <<lock, index>>

\* One content is like another, so it does not matter which comes first.
SyncInit ==
  /\ registry \in Registries
  /\ upstream = [s \in Sources |-> CHOOSE c \in Contents : TRUE]
  /\ disk = [d \in Dests |-> NoTree] /\ lock = <<>> /\ index = {}
  /\ phase = "idle" /\ only = {} /\ previous = lock /\ next = lock /\ todo = {}
  /\ changed = FALSE /\ minted = {} /\ edits = 0

SyncWork ==
  SyncStart \/ SyncEntry \/ SourceFails \/ SyncRemove \/ SyncLock \/ SyncIndex

SyncWorld == SyncStopped \/ Edit

SyncNext == SyncWork \/ SyncWorld

SyncSpec == SyncInit /\ [][SyncNext]_syncVars

SyncDone == phase \in {"done", "failed"}

\* The steps that may end the run revoke what was minted, with requests of
\* github-sts/post.js that have no timeout.
SyncUntimed == phase \in {"sync", "index"} /\ minted # {}

-----------------------------------------------------------------------------

\* check(): what it finds wrong with the generated copies and the index.
CheckProblems ==
  {n \in DOMAIN lock : disk[lock[n].dest] # lock[n].digest}
    \cup (IF Indexed => index = RenderIndex(lock) THEN {} ELSE {"index"})

SyncTypeOK ==
  /\ registry \in Registries /\ disk \in [Dests -> Trees \cup {NoTree, Foreign}]
  /\ DOMAIN lock \subseteq Names /\ todo \subseteq Names
  /\ minted \subseteq Private

\* A run that completes has brought every selected skill in line: its copy is
\* where the registry puts it and is what its source holds, and the lock says
\* so.  A run over all skills also leaves nothing that `check' would object to.
\* It does so wherever earlier runs failed or were stopped, and whatever was
\* edited in between.
SyncedIsInLine ==
  phase = "done" =>
    /\ \A n \in DOMAIN registry : Selects(only, n, registry[n]) =>
         /\ n \in DOMAIN lock
         /\ lock[n] = [LockEntry(n, registry[n]) EXCEPT !.plugin = lock[n].plugin]
         /\ disk[lock[n].dest] = Tree(n, registry[n])
    /\ only = {} => DOMAIN lock = DOMAIN registry /\ CheckProblems = {}

\* main.js says of sync(): "Brings every selected skill's generated copy in line
\* with its source."
EverySkillHasItsCopy ==
  phase = "done" =>
    \A n \in DOMAIN registry : Selects(only, n, registry[n]) =>
      disk[RenderDest(n, registry[n])] = Tree(n, registry[n])

-----------------------------------------------------------------------------
(* What a run relies on between its steps, of a template that has the name *)
(* of a skill in its destination.                                          *)

LockEntries == [plugin : Plugins, source : Sources, digest : Trees, dest : Dests]

\* A lock file gives every skill that it names a destination under that name.
LockFiles ==
  {l \in UNION {[N -> LockEntries] : N \in SUBSET Names} :
     \A n \in DOMAIN l : l[n].dest[2] = n}

Selected == {n \in DOMAIN registry : Selects(only, n, registry[n])}

\* A registered skill is in line with its source, on disk and in a lock file.
InLine(n, l) ==
  /\ n \in DOMAIN l
  /\ l[n] = [LockEntry(n, registry[n]) EXCEPT !.plugin = l[n].plugin]
  /\ disk[RenderDest(n, registry[n])] = Tree(n, registry[n])

RepositoryIsKept ==
  /\ registry \in Registries /\ upstream \in [Sources -> Contents]
  /\ disk \in [Dests -> Trees \cup {NoTree, Foreign}]
  /\ {lock, previous, next} \subseteq LockFiles

\* Skills that the run has yet to look at are in the lock file to be as they
\* are in the one it has read; what it has looked at is in line.
RunIsHalfway ==
  /\ previous = lock /\ todo \subseteq Selected
  /\ changed \/ next = lock
  /\ DOMAIN next \subseteq DOMAIN lock \cup DOMAIN registry
  /\ \A n \in todo \cap DOMAIN lock : n \in DOMAIN next /\ next[n] = lock[n]
  /\ \A n \in Selected \ todo : InLine(n, next)

RunIsLocked ==
  /\ next = lock
  /\ \A n \in Selected : InLine(n, lock)
  /\ only = {} => DOMAIN lock = DOMAIN registry

SyncInv ==
  /\ RepositoryIsKept
  /\ phase = "sync" => RunIsHalfway
  /\ phase \in {"index", "done"} => RunIsLocked
  /\ phase = "done" /\ Indexed => index = RenderIndex(lock)
=============================================================================
