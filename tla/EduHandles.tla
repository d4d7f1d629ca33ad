----------------------------- MODULE EduHandles -----------------------------
(***************************************************************************)
(* The EduDevice objects of one process over the bound and unbound driver  *)
(* of Lifecycle: what edu_device.cpp opens, maps, moves and closes (and    *)
(* edu_open, edu_close and the Python close through it), the descriptor    *)
(* table of the process, and the references on its eventfds, of which      *)
(* EDU_IOC_SET_EVENTFD takes one for the driver.                           *)
(*                                                                         *)
(* A step of an object is one system call.  Other code of the process      *)
(* opens and closes descriptors in between, so that the number of a closed *)
(* one is in use again at once; and the process may end anywhere.  Two     *)
(* registrations are not made at the same instant: SetEventfd is one step. *)
(***************************************************************************)
EXTENDS Lifecycle, Integers, FiniteSets

CONSTANTS
    Obj,        \* EduDevice objects of the process
    Fd,         \* descriptor numbers the process may use
    EventfdId   \* eventfds the kernel has memory for

ASSUME HandlesAssumption ==
    Fd \subseteq Nat /\ EventfdId \subseteq Nat /\ "nobody" \notin Obj

VARIABLES
    obj,        \* each object: where it is in its life, and its members
    fdtab,      \* what each descriptor of the process refers to
    refs,       \* references on each eventfd, none when it is free
    registered, \* the eventfd the driver holds (e->evt_ctx), as a set of at most one
    abandoned,  \* descriptors of constructors that threw in register_eventfd
    newest      \* history: the object whose eventfd was registered last

handleVars == <<obj, fdtab, refs, registered, abandoned, newest>>
allVars    == <<vars, handleVars>>

NoFd    == -1
Nothing == [kind |-> "none", id |-> 0]
File(k) == [kind |-> k, id |-> 0]      \* "node", "foreign" (another path) or "other"
Efd(e)  == [kind |-> "eventfd", id |-> e]

NoObj      == [at |-> "none", fd |-> NoFd, evt |-> NoFd, mapped |-> FALSE]
MovedFrom  == [NoObj EXCEPT !.at = "live"]
Object(at, fd, evt) == [NoObj EXCEPT !.at = at, !.fd = fd, !.evt = evt]

FreeFds  == {fd \in Fd : fdtab[fd] = Nothing}
FreeEfds == {e \in EventfdId : refs[e] = 0}
Lowest(S) == CHOOSE n \in S : \A m \in S : n <= m
NewFd    == Lowest(FreeFds)

-----------------------------------------------------------------------------
(* The constructor.  A path that does not open throws before anything is    *)
(* owned: nothing changes.  edu_open catches what is thrown.                *)

ConstructNode(o) ==
    /\ obj[o].at = "none" /\ driver = "edu_pci" /\ FreeFds # {}
    /\ Open
    /\ fdtab' = [fdtab EXCEPT ![NewFd] = File("node")]
    /\ obj' = [obj EXCEPT ![o] = Object("opened", NewFd, NoFd)]
    /\ UNCHANGED <<refs, registered, abandoned, newest>>

ConstructForeign(o) ==
    /\ obj[o].at = "none" /\ FreeFds # {}
    /\ fdtab' = [fdtab EXCEPT ![NewFd] = File("foreign")]
    /\ obj' = [obj EXCEPT ![o] = Object("opened", NewFd, NoFd)]
    /\ UNCHANGED <<vars, refs, registered, abandoned, newest>>

\* What closing a descriptor of an object gives back: a file of the driver, or a
\* reference on an eventfd.  A member that is -1 is not closed.
CloseFile(fd) ==
    /\ fdtab' = IF fd = NoFd THEN fdtab ELSE [fdtab EXCEPT ![fd] = Nothing]
    /\ IF fd # NoFd /\ fdtab[fd].kind = "node" THEN Close ELSE UNCHANGED vars

CloseEventfd(fd) ==
    /\ fdtab' = IF fd = NoFd THEN fdtab ELSE [fdtab EXCEPT ![fd] = Nothing]
    /\ refs' = IF fd = NoFd THEN refs ELSE [refs EXCEPT ![fdtab[fd].id] = @ - 1]

MakeEventfd(o) ==
    /\ obj[o].at = "opened" /\ FreeFds # {} /\ FreeEfds # {}
    /\ LET e == Lowest(FreeEfds) IN
          /\ refs' = [refs EXCEPT ![e] = 1]
          /\ fdtab' = [fdtab EXCEPT ![NewFd] = Efd(e)]
    /\ obj' = [obj EXCEPT ![o] = Object("made", @.fd, NewFd)]
    /\ UNCHANGED <<vars, registered, abandoned, newest>>

\* eventfd() fails: the constructor closes the device and throws.
MakeEventfdFails(o) ==
    /\ obj[o].at = "opened"
    /\ CloseFile(obj[o].fd)
    /\ obj' = [obj EXCEPT ![o] = NoObj]
    /\ UNCHANGED <<refs, registered, abandoned, newest>>

\* Deviations: the reference on the eventfd registered before is not put; the first
\* registration stays.
RefsNotPut(e)      == [refs EXCEPT ![e] = @ + 1]
RegisteredFirst(e) == IF registered = {} THEN {e} ELSE registered

\* The references, and the context the driver keeps, once e is registered.
RefsAfter(e) ==
    [f \in EventfdId |-> refs[f] + (IF f = e THEN 1 ELSE 0) - (IF f \in registered THEN 1 ELSE 0)]
RegisteredAfter(e) == {e}

\* register_eventfd, on the driver's node.
Register(o) ==
    /\ obj[o].at = "made" /\ fdtab[obj[o].fd].kind = "node"
    /\ SetEventfd
    /\ LET e == fdtab[obj[o].evt].id IN refs' = RefsAfter(e) /\ registered' = RegisteredAfter(e)
    /\ obj' = [obj EXCEPT ![o].at = "live"]
    /\ newest' = o
    /\ UNCHANGED <<fdtab, abandoned>>

\* Anything else does not know the ioctl.  The constructor throws with both
\* descriptors open, and the destructor of an object that was never made does not
\* run.
RegisterFails(o) ==
    /\ obj[o].at = "made" /\ fdtab[obj[o].fd].kind = "foreign"
    /\ obj' = [obj EXCEPT ![o] = NoObj]
    /\ abandoned' = abandoned \cup {obj[o].fd, obj[o].evt}
    /\ UNCHANGED <<vars, fdtab, refs, registered, newest>>

-----------------------------------------------------------------------------
(* map_rings and unmap_rings; a mapping holds the file, as a descriptor does. *)

MapRings(o) ==
    /\ obj[o].at = "live" /\ obj[o].fd # NoFd /\ ~obj[o].mapped
    /\ files' = files + 1
    /\ obj' = [obj EXCEPT ![o].mapped = TRUE]
    /\ UNCHANGED <<driver, phase, step, todo, held, fdtab, refs, registered, abandoned, newest>>

Unmapped(o, at) ==
    /\ obj' = [obj EXCEPT ![o].mapped = FALSE, ![o].at = at]
    /\ IF obj[o].mapped THEN Close ELSE UNCHANGED vars

UnmapRings(o) ==
    /\ obj[o].at = "live" /\ obj[o].mapped
    /\ Unmapped(o, "live")
    /\ UNCHANGED <<fdtab, refs, registered, abandoned, newest>>

\* The destructor: unmap, close the eventfd, close the device.
Destroy(o) ==
    /\ obj[o].at = "live"
    /\ Unmapped(o, "closing_evt")
    /\ UNCHANGED <<fdtab, refs, registered, abandoned, newest>>

DestroyEventfd(o) ==
    /\ obj[o].at = "closing_evt"
    /\ CloseEventfd(obj[o].evt)
    /\ obj' = [obj EXCEPT ![o].at = "closing_fd", ![o].evt = NoFd]
    /\ newest' = IF newest = o THEN "nobody" ELSE newest
    /\ UNCHANGED <<vars, registered, abandoned>>

DestroyFd(o) ==
    /\ obj[o].at = "closing_fd"
    /\ CloseFile(obj[o].fd)
    /\ obj' = [obj EXCEPT ![o] = NoObj]
    /\ UNCHANGED <<refs, registered, abandoned, newest>>

\* Deviations: the source of a move keeps its eventfd; the mapping is not taken over.
MovedKeepsEventfd(o, p) == [obj EXCEPT ![o] = [obj[p] EXCEPT !.at = "live"],
                                       ![p] = [MovedFrom EXCEPT !.evt = obj[p].evt]]
MovedWithoutRings(o, p) == [obj EXCEPT ![o] = [obj[p] EXCEPT !.at = "live", !.mapped = FALSE],
                                       ![p] = MovedFrom]

\* What both moves do in the end: o takes the members of p, p is left with none.
Moved(o, p) == [obj EXCEPT ![o] = [obj[p] EXCEPT !.at = "live"], ![p] = MovedFrom]

\* What follows the members of p.
NewestMoved(o, p) == IF newest = p THEN o ELSE newest

MoveConstruct(o, p) ==
    /\ obj[o].at = "none" /\ obj[p].at = "live"
    /\ obj' = Moved(o, p)
    /\ newest' = NewestMoved(o, p)
    /\ UNCHANGED <<vars, fdtab, refs, registered, abandoned>>

\* operator= gives up what the target has, as the destructor does, and takes over
\* the source's members; p waits for it.
MoveAssign(o, p) ==
    /\ o # p /\ obj[o].at = "live" /\ obj[p].at = "live"
    /\ obj' = [obj EXCEPT ![o].mapped = FALSE, ![o].at = "assign_evt", ![p].at = "source"]
    /\ IF obj[o].mapped THEN Close ELSE UNCHANGED vars
    /\ UNCHANGED <<fdtab, refs, registered, abandoned, newest>>

AssignEventfd(o) ==
    /\ obj[o].at = "assign_evt"
    /\ CloseEventfd(obj[o].evt)
    /\ obj' = [obj EXCEPT ![o].at = "assign_fd", ![o].evt = NoFd]
    /\ newest' = IF newest = o THEN "nobody" ELSE newest
    /\ UNCHANGED <<vars, registered, abandoned>>

AssignTake(o, p) ==
    /\ obj[o].at = "assign_fd" /\ obj[p].at = "source"
    /\ CloseFile(obj[o].fd)
    /\ obj' = Moved(o, p)
    /\ newest' = NewestMoved(o, p)
    /\ UNCHANGED <<refs, registered, abandoned>>

-----------------------------------------------------------------------------
(* The rest of the process, its end, and the driver.                        *)

OtherOpens ==
    /\ FreeFds # {}
    /\ fdtab' = [fdtab EXCEPT ![NewFd] = File("other")]
    /\ UNCHANGED <<vars, obj, refs, registered, abandoned, newest>>

OtherCloses ==
    /\ \E fd \in Fd : /\ fdtab[fd].kind = "other"
                      /\ fdtab' = [fdtab EXCEPT ![fd] = Nothing]
    /\ UNCHANGED <<vars, obj, refs, registered, abandoned, newest>>

\* The kernel closes every descriptor and mapping of a process that ends.
ProcessEnds ==
    /\ driver = "edu_pci"
    /\ files' = 0
    /\ obj' = [o \in Obj |-> NoObj]
    /\ fdtab' = [fd \in Fd |-> Nothing]
    /\ refs' = [e \in EventfdId |-> IF e \in registered THEN 1 ELSE 0]
    /\ abandoned' = {} /\ newest' = "nobody"
    /\ UNCHANGED <<driver, phase, step, todo, held, registered>>

\* edu_remove puts the registered eventfd, if there is one.
RefsPut == [e \in EventfdId |-> refs[e] - (IF e \in registered THEN 1 ELSE 0)]

ReleaseOne ==
    /\ Release
    /\ IF todo # <<>> /\ Head(todo) = "evt_ctx"
       THEN refs' = RefsPut /\ registered' = {}
       ELSE UNCHANGED <<refs, registered>>
    /\ UNCHANGED <<obj, fdtab, abandoned, newest>>

DriverStep ==
    \/ (Probe \/ ProbeStep \/ ProbeStepFails \/ Remove) /\ UNCHANGED handleVars
    \/ ReleaseOne

\* The other drivers have plain programs as their users.
OtherDriverFiles == driver # "edu_pci" /\ (Open \/ Close) /\ UNCHANGED handleVars

ObjectStep(o) ==
    \/ ConstructNode(o) \/ ConstructForeign(o) \/ MakeEventfd(o) \/ MakeEventfdFails(o)
    \/ Register(o) \/ RegisterFails(o) \/ MapRings(o) \/ UnmapRings(o)
    \/ Destroy(o) \/ DestroyEventfd(o) \/ DestroyFd(o) \/ AssignEventfd(o)
    \/ \E p \in Obj : MoveConstruct(o, p) \/ MoveAssign(o, p) \/ AssignTake(o, p)

HandlesInit ==
    /\ Init
    /\ obj = [o \in Obj |-> NoObj]
    /\ fdtab = [fd \in Fd |-> Nothing]
    /\ refs = [e \in EventfdId |-> 0]
    /\ registered = {} /\ abandoned = {} /\ newest = "nobody"

HandlesNext ==
    \/ \E o \in Obj : driver = "edu_pci" /\ ObjectStep(o)
    \/ driver = "edu_pci" /\ (OtherOpens \/ OtherCloses)
    \/ ProcessEnds \/ DriverStep \/ OtherDriverFiles

HandlesSpec == HandlesInit /\ [][HandlesNext]_allVars

-----------------------------------------------------------------------------
HeldBy(o)     == {obj[o].fd, obj[o].evt} \ {NoFd}
OpenFds(kind) == {fd \in Fd : fdtab[fd].kind = kind}

\* Every member that is a descriptor is open and is what its object opened, though
\* numbers are used again as soon as they are closed: no object closes one twice
\* or closes another's (the destructor and both moves).  And every descriptor the
\* class has opened has an owner that will close it, unless its constructor threw in
\* register_eventfd.
DescriptorsOwned ==
    /\ \A o \in Obj :
          /\ obj[o].fd # NoFd => fdtab[obj[o].fd].kind \in {"node", "foreign"}
          /\ obj[o].evt # NoFd => fdtab[obj[o].evt].kind = "eventfd"
          /\ \A p \in Obj \ {o} : HeldBy(o) \cap HeldBy(p) = {}
    /\ OpenFds("node") \cup OpenFds("foreign") \cup OpenFds("eventfd")
          = (UNION {HeldBy(o) : o \in Obj}) \cup abandoned

\* The driver's node is held open by the objects and by nothing they left behind
\* (a moved mapping is unmapped once), so that the module can be unloaded when the
\* last of them is gone.
NodePinnedByObjects ==
    driver = "edu_pci" =>
        files = Cardinality(OpenFds("node")) + Cardinality({o \in Obj : obj[o].mapped})

\* An eventfd has one reference for each descriptor and one for the driver that
\* signals it, whoever registers, closes, dies or unloads first: what the handler
\* signals is never free, and what nobody holds is.
RefsBalanced ==
    /\ registered # {} <=> "evt_ctx" \in held
    /\ \A e \in EventfdId :
          refs[e] = Cardinality({fd \in Fd : fdtab[fd] = Efd(e)})
                    + Cardinality(registered \cap {e})

\* The eventfd the driver signals is the one the newest object sleeps on, also after
\* the object was moved.
SignalsReachNewest ==
    newest \in Obj => /\ obj[newest].evt # NoFd
                      /\ registered = {fdtab[obj[newest].evt].id}
=============================================================================
