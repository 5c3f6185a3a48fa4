------------------------------- MODULE Paths -------------------------------
(***************************************************************************)
(* What the daemon concludes from the names of its files, and what a       *)
(* stranger on the host can do to them afterwards.                         *)
(*                                                                         *)
(* The policy and the configuration (access/effective_access.py), the      *)
(* directory of the local address (adapters/socket_server.py,              *)
(* domain/directory_protection.py), the evidence root (bootstrap.py) and   *)
(* the grade of a caller (domain/integrity_grade.py) are each judged by a  *)
(* walk over the directories of a name.  All four are judged here once, on *)
(* one small tree; then the stranger does whatever the file system lets    *)
(* one account do: create, remove and rename entries, write files, change  *)
(* the modes of what it owns.  Root, the administrators and the daemon     *)
(* leave the tree alone.                                                   *)
(***************************************************************************)
EXTENDS Naturals, Sequences, FiniteSets, SequencesExt, FiniteSetsExt

CONSTANTS
    TopShapes,   \* the attributes the root of the tree may have
    DirShapes,   \* the attributes a directory may have
    FileShapes,  \* the attributes the file may have
    Layouts,     \* how the name leads to the file
    MaxLinks     \* bound: _MAX_LINKS

\* What stat says of a node of this kind.
ShapesOf(kind) ==
    [kind : {kind}, uid : Nat, gid : Nat, writers : SUBSET {"group", "other"}, sticky : BOOLEAN,
     search : BOOLEAN, acl : {"none", "grants", "masked", "unreadable"}]

ASSUME PathsAssumption ==
    /\ MaxLinks \in Nat
    /\ Layouts \subseteq {"direct", "linked", "dotdot", "loop"}
    /\ TopShapes \cup DirShapes \subseteq ShapesOf("dir")
    /\ FileShapes \subseteq ShapesOf("file")

Root == 0
Stranger == 1
DaemonUid == 2
Administrators == 0   \* gid of the administrator group
Strangers == 1        \* gid of the stranger's group

Nobody == "nobody"    \* no file here

\* One stat: the mode's write bits for group and other, the sticky bit, whether
\* others may search it, and the access list: none, one that grants the stranger
\* write, one whose mask takes it away, or one that cannot be read.
Shape(kind, uid, gid, writers, sticky, search, acl) ==
    [kind |-> kind, uid |-> uid, gid |-> gid, writers |-> writers, sticky |-> sticky,
     search |-> search, acl |-> acl]

Link(uid) == Shape("link", uid, 0, {"group", "other"}, FALSE, TRUE, "none")
Own == Shape("file", Stranger, Strangers, {}, FALSE, TRUE, "none")

Nodes == {"/", "a", "b", "d", "l", "f", "own"}

\* The directory as it is configured, and where the link of each layout leads.
Spelling(layout) ==
    CASE layout = "direct" -> <<"a">>
      [] layout = "linked" -> <<"a", "l">>
      [] layout = "dotdot" -> <<"a", "l", "..">>
      [] layout = "loop"   -> <<"a", "l">>
Target(layout) ==
    CASE layout = "direct" -> <<>>
      [] layout = "linked" -> <<"b">>
      [] layout = "dotdot" -> <<"b", "d">>
      [] layout = "loop"   -> <<"a", "l">>

VARIABLES
    layout,
    attr,     \* what stat says of each node
    entry,    \* directory -> name -> node
    content,  \* "kept", or "changed" once the file was written
    judged    \* the verdicts, and what the name reached when they were given

pathsVars == <<layout, attr, entry, content, judged>>

-----------------------------------------------------------------------------
(* The tree. *)

Names == {"a", "b", "d", "l", "f"}

Empty == [n \in Names |-> Nobody]

EntriesOf(how) ==
    [dir \in {"/", "a", "b", "d"} |->
        CASE dir = "/" -> [Empty EXCEPT !["a"] = "a", !["b"] = IF how = "direct" THEN Nobody ELSE "b"]
          [] dir = "a" -> [Empty EXCEPT !["l"] = IF how = "direct" THEN Nobody ELSE "l",
                                        !["f"] = IF how = "direct" THEN "f" ELSE Nobody]
          [] dir = "b" -> [Empty EXCEPT !["d"] = IF how = "dotdot" THEN "d" ELSE Nobody,
                                        !["f"] = IF how = "direct" THEN Nobody ELSE "f"]
          [] OTHER     -> Empty]

Child(node, name) == IF node \in DOMAIN entry THEN entry[node][name] ELSE Nobody

\* The node at a path with no link to follow on the way.
At(path) ==
    LET node[i \in 0..Len(path)] == IF i = 0 THEN "/" ELSE Child(node[i - 1], path[i])
    IN  node[Len(path)]

Is(kind, node) == node # Nobody /\ attr[node].kind = kind

\* A lookup is somewhere, with names left to look up and links behind it.
Begin(name) == [current |-> <<>>, rest |-> name, links |-> 0]
Over(look) == look.rest = <<>> \/ look.links > MaxLinks
StepsBack(look) == ~Over(look) /\ Head(look.rest) = ".."
Descends(look) == ~Over(look) /\ Head(look.rest) # ".."
Below(look) == Append(look.current, Head(look.rest))
Follows(look) == Descends(look) /\ Is("link", At(Below(look)))

\* As the kernel reads a name: ".." is taken where the lookup is, and a link
\* starts again with what it names and what was left.
Advance(look) ==
    IF Over(look) THEN look
    ELSE IF StepsBack(look)
    THEN [look EXCEPT !.current = IF @ = <<>> THEN <<>> ELSE Front(@), !.rest = Tail(@)]
    ELSE IF Follows(look)
    THEN [current |-> <<>>, rest |-> Target(layout) \o Tail(look.rest), links |-> look.links + 1]
    ELSE [look EXCEPT !.current = Below(look), !.rest = Tail(@)]

\* A link names two entries at the most here.
Steps(name) == Len(name) + 3 * (MaxLinks + 1)

Lookup(name) ==
    LET look[i \in 0..Steps(name)] == IF i = 0 THEN Begin(name) ELSE Advance(look[i - 1])
    IN  look

Looks(name) == Range(Lookup(name))
Arrival(name) == Lookup(name)[Steps(name)]

\* The path a name leads to, or <<Nobody>>.
Place(name) ==
    IF Arrival(name).rest # <<>> \/ \E look \in Looks(name) : Descends(look) /\ At(Below(look)) = Nobody
    THEN <<Nobody>> ELSE Arrival(name).current

Directory == Spelling(layout)
Name == Append(Directory, "f")

Reached(name) == IF Place(name) = <<Nobody>> THEN Nobody ELSE At(Place(name))

\* A path and the directories above it, nearest first.
ChainOf(path) == [i \in 1..(Len(path) + 1) |-> SubSeq(path, 1, Len(path) + 1 - i)]
Parents(path) == Tail(ChainOf(path))

-----------------------------------------------------------------------------
(* access/effective_access.py *)

\* write_reaches_the_entry_below
Reaches(shape, ownsDirectory, ownsEntry) ==
    shape.kind # "dir" \/ ~shape.sticky \/ ownsDirectory \/ ownsEntry

\* _acl_writers, for the stranger's own entry.
AclWrites(shape) == shape.acl = "grants"

\* _extend: a name ends at each link, at each entry a ".." steps back over, and
\* where it leads.
Ends(name) ==
    {look.current : look \in {at \in Looks(name) : StepsBack(at)}}
    \cup {Below(look) : look \in {at \in Looks(name) : Follows(at)}}
    \cup {Arrival(name).current}

\* Mutant: only the directories of the file the name leads to are walked.
ResolvedChains(name) == {IF Place(name) = <<Nobody>> THEN <<>> ELSE ChainOf(Place(name))}

\* _naming_chains; an empty chain for a name that loops.
NamingChains(name) ==
    IF Arrival(name).links > MaxLinks THEN {<<>>} ELSE {ChainOf(path) : path \in Ends(name)}

\* The first component that says something; nothing was read of an empty chain.
FirstOf(says) ==
    LET telling == {i \in DOMAIN says : says[i] # "passes"}
    IN  IF says = <<>> THEN "unknown" ELSE IF telling = {} THEN "passes" ELSE says[Min(telling)]

\* A chain that exposes the name, or else one that could not be read.
WorstOf(verdicts, exposed) ==
    IF exposed \in verdicts THEN exposed
    ELSE IF "unknown" \in verdicts THEN "unknown" ELSE "passes"

\* Mutant: in a sticky directory an entry's own owner is held off as well.
WriteAccessAlongSticky(chain) ==
    LET Says(i) ==
            LET node == At(chain[i])
                shape == attr[node]
                owns == shape.uid = Stranger
            IN  IF node = Nobody \/ (shape.kind # "link" /\ shape.acl = "unreadable") THEN "unknown"
                ELSE IF shape.kind # "link"
                        /\ (i = 1 \/ Reaches(shape, owns, FALSE))
                        /\ (owns \/ AclWrites(shape)
                            \/ (shape.gid = Strangers /\ "group" \in shape.writers)
                            \/ "other" \in shape.writers)
                THEN "writable" ELSE "passes"
    IN  FirstOf([i \in 1..Len(chain) |-> Says(i)])

\* _write_access_along, of the stranger.
WriteAccessAlong(chain) ==
    LET Says(i) ==
            LET node == At(chain[i])
                shape == attr[node]
                owns == shape.uid = Stranger
                ownsEntry == i > 1 /\ At(chain[i - 1]) # Nobody /\ attr[At(chain[i - 1])].uid = Stranger
            IN  IF node = Nobody \/ (shape.kind # "link" /\ shape.acl = "unreadable") THEN "unknown"
                ELSE IF shape.kind # "link"
                        /\ (i = 1 \/ Reaches(shape, owns, ownsEntry))
                        /\ (owns \/ AclWrites(shape)
                            \/ (shape.gid = Strangers /\ "group" \in shape.writers)
                            \/ "other" \in shape.writers)
                THEN "writable" ELSE "passes"
    IN  FirstOf([i \in 1..Len(chain) |-> Says(i)])

write_access == WorstOf({WriteAccessAlong(chain) : chain \in NamingChains(Name)}, "writable")

\* _protection_along, with root and the administrator group expected.
ProtectionAlong(chain) ==
    LET Says(i) ==
            LET node == At(chain[i])
                shape == attr[node]
            IN  IF node = Nobody \/ (shape.kind # "link" /\ shape.acl = "unreadable") THEN "unknown"
                ELSE IF shape.uid # Root THEN "exposed"
                ELSE IF shape.kind # "link"
                        /\ (i = 1 \/ Reaches(shape, FALSE, FALSE))
                        /\ (AclWrites(shape)
                            \/ (shape.gid # Administrators /\ "group" \in shape.writers)
                            \/ "other" \in shape.writers)
                THEN "exposed" ELSE "passes"
    IN  FirstOf([i \in 1..Len(chain) |-> Says(i)])

protection == WorstOf({ProtectionAlong(chain) : chain \in NamingChains(Name)}, "exposed")

-----------------------------------------------------------------------------
(* The directory of the local address and the evidence root. *)

Trusted(shape) == shape.uid \in {Root, DaemonUid}

\* ancestors_protection
AncestorsHold(paths) ==
    \A path \in paths :
        LET shape == attr[At(path)]
        IN  /\ Trusted(shape)
            /\ Reaches(shape, FALSE, FALSE) => shape.writers = {} /\ shape.acl = "none"

\* directories_crossed, and the links it follows.
Crossed(name) == {look.current : look \in {at \in Looks(name) : Descends(at)}}
Followed(name) == {Below(look) : look \in {at \in Looks(name) : Follows(at)}}

\* protect_directory and directory_protection.
protect_directory ==
    LET place == Place(Directory)
        shape == attr[At(place)]
    IN  /\ place # <<Nobody>> /\ Is("dir", At(place))
        /\ Trusted(shape) /\ shape.writers = {} /\ shape.acl = "none"
        /\ \A link \in Followed(Directory) : Trusted(attr[At(link)])
        /\ AncestorsHold(Range(Parents(place)) \cup (Crossed(Directory) \ {place}))

\* _system_evidence_root: the packager's layout, to the letter.
system_evidence_root ==
    LET place == Place(Directory)
        shape == attr[At(place)]
    IN  /\ place # <<Nobody>> /\ Is("dir", At(place))
        /\ shape.uid = DaemonUid /\ shape.gid = DaemonUid
        /\ shape.writers = {} /\ ~shape.sticky /\ ~shape.search /\ shape.acl = "none"
        /\ AncestorsHold(Range(Parents(place)))

-----------------------------------------------------------------------------
(* domain/integrity_grade.py *)

\* _class_bits: whether the stranger's class may write.
ClassWrites(shape) ==
    IF shape.gid = Strangers THEN "group" \in shape.writers ELSE "other" \in shape.writers

\* _chain: the root's parents from the top, the root and the file in it, each as
\* it is spelled and not followed.
Inspected == [i \in 1..(Len(Name) + 1) |-> SubSeq(Name, 1, i - 1)]
Lstat(name) ==
    IF name = <<>> THEN "/"
    ELSE IF Last(name) = ".." THEN Reached(name)
    ELSE LET above == Place(Front(name))
         IN  IF above = <<Nobody>> THEN Nobody ELSE At(Append(above, Last(name)))

\* evaluate_grade, its basis.
evaluate_grade ==
    LET nodes == [i \in 1..Len(Inspected) |-> Lstat(Inspected[i])]
        Searched(i) == attr[nodes[i]].uid = Stranger \/ attr[nodes[i]].search
        Writable(i) ==
            LET shape == attr[nodes[i]]
                owns == shape.uid = Stranger
            IN  /\ owns \/ ClassWrites(shape)
                /\ i = Len(nodes)
                   \/ Reaches([shape EXCEPT !.kind = "dir"], owns, attr[nodes[i + 1]].uid = Stranger)
    IN  IF \E i \in 1..Len(nodes) : nodes[i] = Nobody \/ attr[nodes[i]].acl # "none"
        THEN "access_not_established"
        ELSE IF \E i \in 1..Len(nodes) : Writable(i) /\ \A j \in 1..(i - 1) : Searched(j)
        THEN "caller_can_write" ELSE "caller_cannot_write"

-----------------------------------------------------------------------------
(* The host. *)

Unjudged == [done |-> FALSE, policy |-> "none", caller |-> "none", address |-> FALSE,
             root |-> FALSE, grade |-> "none", reached |-> Nobody, place |-> <<>>]

PathsInit ==
    /\ layout \in Layouts
    /\ \E top \in TopShapes, a \in DirShapes, b \in DirShapes,
          f \in FileShapes, owner \in {Root, Stranger} :
          /\ layout = "direct" => b = top /\ owner = Root
          /\ attr = [n \in Nodes |->
                CASE n = "/" -> top [] n = "a" -> a [] n = "b" -> b [] n = "d" -> b
                  [] n = "l" -> Link(owner) [] n = "f" -> f [] n = "own" -> Own]
    /\ entry = EntriesOf(layout)
    /\ content = "kept"
    /\ judged = Unjudged

\* Every walk of the start and of an ask, over the tree as it stands.
Judge ==
    /\ ~judged.done
    /\ judged' = [done |-> TRUE, policy |-> protection, caller |-> write_access,
                  address |-> protect_directory, root |-> system_evidence_root,
                  grade |-> evaluate_grade, reached |-> Reached(Name), place |-> Place(Name)]
    /\ UNCHANGED <<layout, attr, entry, content>>

\* What the file system lets the stranger do; a list nobody could read may grant.
MayWrite(shape) ==
    \/ shape.uid = Stranger
    \/ shape.acl \in {"grants", "unreadable"}
    \/ shape.acl = "none" /\ ClassWrites(shape)
MaySearch(path) ==
    \A i \in 0..Len(path) :
        LET node == At(SubSeq(path, 1, i)) IN Is("dir", node) /\ (attr[node].uid = Stranger \/ attr[node].search)

\* Where nothing was concluded there is nothing the stranger could contradict.
Concluded ==
    \/ judged.policy = "passes" \/ judged.caller = "passes"
    \/ judged.address \/ judged.root \/ judged.grade = "caller_cannot_write"

Dirs == {<<>>, <<"a">>, <<"b">>, <<"b", "d">>}

Replace(path, name, by) ==
    LET dir == At(path)
    IN  /\ Concluded /\ MaySearch(path) /\ MayWrite(attr[dir])
        /\ entry[dir][name] \notin {Nobody, "own"}
        /\ Reaches(attr[dir], attr[dir].uid = Stranger, attr[entry[dir][name]].uid = Stranger)
        /\ entry' = [entry EXCEPT ![dir][name] = by]
        /\ UNCHANGED <<layout, attr, content, judged>>

ChangeMode(path, name) ==
    LET node == At(Append(path, name))
    IN  /\ Concluded /\ MaySearch(path)
        /\ node \notin {Nobody, "own"} /\ attr[node].kind # "link" /\ attr[node].uid = Stranger
        /\ attr' = [attr EXCEPT ![node].writers = {"group", "other"}, ![node].sticky = FALSE,
                                ![node].search = TRUE]
        /\ UNCHANGED <<layout, entry, content, judged>>

WriteFile(path) ==
    /\ Concluded /\ MaySearch(path) /\ At(Append(path, "f")) = "f" /\ MayWrite(attr["f"])
    /\ content' = "changed"
    /\ UNCHANGED <<layout, attr, entry, judged>>

PathsNext ==
    \/ Judge
    \/ \E path \in Dirs, name \in Names, by \in {"own", Nobody} : Replace(path, name, by)
    \/ \E path \in Dirs, name \in Names : ChangeMode(path, name)
    \/ \E path \in Dirs : WriteFile(path)

PathsSpec == PathsInit /\ [][PathsNext]_pathsVars

-----------------------------------------------------------------------------
(* Properties. *)

\* Verdicts, modes and entries keep their types.
PathsTypeOK ==
    /\ judged.policy \in {"none", "exposed", "unknown", "passes"}
    /\ judged.caller \in {"none", "writable", "unknown", "passes"}
    /\ judged.grade \in {"none", "caller_can_write", "caller_cannot_write", "access_not_established"}
    /\ \A dir \in DOMAIN entry, name \in Names : entry[dir][name] \in Nodes \cup {Nobody}
    /\ content \in {"kept", "changed"}

Unmoved == Reached(Name) = judged.reached /\ Place(Name) = judged.place

\* A policy or configuration the start called protected stays the file it was,
\* with the bytes it had, whatever the stranger does through any name.
ProtectedStays == judged.policy = "passes" => Unmoved /\ content = "kept"

\* A principal that was told apart as no writer of the authority cannot change
\* or replace it, neither at once nor by changing modes first.
NonWriterCannot == judged.caller = "passes" => Unmoved /\ content = "kept"

\* The name of the local address goes on leading to the socket the daemon bound.
AddressStays == judged.address => Unmoved

\* An evidence root with the packager's layout, named by no link, stays in place
\* with the chains that are in it.
RootStays == judged.root /\ layout = "direct" => Unmoved

\* A caller whose grade says it cannot write the store cannot, where the store
\* is named by no link.
CannotWriteIsTrue ==
    judged.grade = "caller_cannot_write" /\ layout = "direct" => Unmoved /\ content = "kept"

\* What was called protected stays: the policy and configuration, the local
\* address and the evidence root go on being the objects that were judged,
\* whatever the stranger does through any name (protection, protect_directory).
ProtectedNamesStay == PathsTypeOK /\ ProtectedStays /\ AddressStays /\ RootStays

\* Who was told apart as no writer, of the authority or of the store, is none,
\* neither at once nor by changing modes first (write_access).
NonWritersCannot == NonWriterCannot /\ CannotWriteIsTrue

-----------------------------------------------------------------------------
(* What makes them inductive. *)

\* The tree only loses entries, and a file of the stranger stands where one was
\* replaced; before the walks nothing was.
TreeShape ==
    /\ layout \in Layouts
    /\ attr \in [Nodes -> ShapesOf("dir") \cup ShapesOf("file") \cup ShapesOf("link")]
    /\ \A node \in Nodes : attr[node].kind = IF node = "l" THEN "link" ELSE IF node \in {"f", "own"} THEN "file" ELSE "dir"
    /\ entry \in [{"/", "a", "b", "d"} -> [Names -> Nodes \cup {Nobody}]]
    /\ \A dir \in DOMAIN entry, name \in Names :
          entry[dir][name] \in {EntriesOf(layout)[dir][name], "own", Nobody}
    /\ ~judged.done => judged = Unjudged /\ content = "kept" /\ entry = EntriesOf(layout)

\* The name leads to the file, and nothing was replaced since it was judged.
Leads == layout # "loop" /\ (layout = "direct" \/ MaxLinks > 0)
Goal == IF layout = "direct" THEN <<"a", "f">> ELSE <<"b", "f">>
Stands == Leads /\ entry = EntriesOf(layout) /\ judged.reached = "f" /\ judged.place = Goal

\* What each walk leaves said of a directory and an entry of it.
RootOnly(shape) ==
    /\ shape.uid = Root /\ shape.acl \notin {"grants", "unreadable"}
    /\ shape.gid # Administrators => "group" \notin shape.writers
    /\ "other" \notin shape.writers
RootsAlone ==
    /\ RootOnly(attr["f"])
    /\ \A dir \in DOMAIN entry, name \in Names : entry[dir][name] # Nobody =>
          LET above == attr[dir]
              below == attr[entry[dir][name]]
          IN  above.uid = Root /\ below.uid = Root /\ (~above.sticky => RootOnly(above))

HoldsOff(shape) ==
    /\ shape.uid # Stranger /\ shape.acl \notin {"grants", "unreadable"}
    /\ shape.gid = Strangers => "group" \notin shape.writers
    /\ "other" \notin shape.writers
NoWriterAbove ==
    /\ HoldsOff(attr["f"])
    /\ \A dir \in DOMAIN entry, name \in Names : entry[dir][name] # Nobody =>
          LET above == attr[dir]
              below == attr[entry[dir][name]]
          IN  /\ above.uid # Stranger /\ (below.kind # "link" => below.uid # Stranger)
              /\ (~above.sticky \/ below.uid = Stranger) => HoldsOff(above)

\* The file itself and what is stepped back over are not walked.
Guarded ==
    \A dir \in DOMAIN entry, name \in Names : entry[dir][name] # Nobody =>
        LET above == attr[dir]
            node == entry[dir][name]
        IN  /\ dir # "d" => Trusted(above)
            /\ node \notin {"f", "d"} => Trusted(attr[node])
            /\ ~above.sticky \/ node \in {"f", "d"} => above.writers = {} /\ above.acl = "none"

\* Of the parents and the file, in the layout the grade is claimed for.
OutOfReach ==
    /\ \A node \in {"/", "a", "f"} : attr[node].acl = "none"
    /\ ~ (MayWrite(attr["/"]) /\ Reaches(attr["/"], attr["/"].uid = Stranger, attr["a"].uid = Stranger))
    /\ attr["/"].uid = Stranger \/ attr["/"].search =>
          /\ ~ (MayWrite(attr["a"]) /\ Reaches(attr["a"], attr["a"].uid = Stranger, attr["f"].uid = Stranger))
          /\ attr["a"].uid = Stranger \/ attr["a"].search => ~MayWrite(attr["f"])

\* What was concluded rests on a tree that still stands, and the walls it found.
ConclusionsRest ==
    /\ judged.policy = "passes" => Stands /\ RootsAlone /\ content = "kept"
    /\ judged.caller = "passes" => Stands /\ NoWriterAbove /\ content = "kept"
    /\ judged.address => Stands /\ Guarded
    /\ judged.root /\ layout = "direct" => Stands /\ Guarded
    /\ judged.grade = "caller_cannot_write" /\ layout = "direct" => Stands /\ OutOfReach /\ content = "kept"

PathsInv == TreeShape /\ PathsTypeOK /\ ConclusionsRest
=============================================================================
