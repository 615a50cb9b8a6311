------------------------------ MODULE MetaPointer ------------------------------
(***************************************************************************)
(* The reference-counted meta-object handle ObMetaPointer<T>, in           *)
(* src/storage/meta_mem/ob_meta_pointer.h.                                 *)
(*                                                                         *)
(* A pointer names a meta block on disk (phy_addr_) and, once the block   *)
(* is loaded, an object from a pool (obj_.ptr_).  Each pointer and each   *)
(* ObMetaObjGuard that names an object holds one reference on it; the     *)
(* holder that drops the count to zero returns the object to the pool.    *)
(*                                                                         *)
(* The map that owns the pointers (outside this header) calls each        *)
(* method of one pointer under that pointer's bucket lock, so every       *)
(* method on a pointer is one atomic step here, interleaved with the      *)
(* methods of other pointers and guards that share its object.  The      *)
(* exception is load_obj_from_disk(), which the header says runs without *)
(* locks, concurrently with the slog checkpoint: its acquire, its reads  *)
(* of phy_addr_ and the disk, and its deserialize are separate steps of   *)
(* a loader, and hook_obj() (again under the lock) ends the load.        *)
(*                                                                         *)
(* The slog checkpoint moves a pointer's block to a fresh address         *)
(* (set_addr_without_reset_obj) or moves it and drops the in-memory copy  *)
(* (set_addr_with_reset_obj).  A block stays readable while some live     *)
(* pointer names its address; addresses are never reused.                 *)
(***************************************************************************)
EXTENDS Integers, FiniteSets

CONSTANTS
  Ptrs,      \* slots that hold an ObMetaPointer (live) or raw buffer (dead)
  Objs,      \* the objects of the pool
  Guards,    \* ObMetaObjGuards held by callers
  Loaders,   \* threads running load_obj_from_disk() then hook_obj()
  Addrs,     \* meta block addresses (ObMetaDiskAddr)
  InitAddr,  \* Ptrs -> Addrs \cup {NoAddr}: the pointers the map starts with
  NoObj,     \* nullptr
  NoAddr,    \* an ObMetaDiskAddr that is_none()
  MaxRef     \* bound on a reference count: inc_ref() is not taken beyond it

ASSUME NoObj \notin Objs /\ NoAddr \notin Addrs

\* A loader's guard is the ObMetaObjGuard it passes to hook_obj().
Holders == Guards \cup Loaders

VARIABLES
  live,     \* Ptrs -> BOOLEAN: a constructed, not yet destroyed pointer
  addr,     \* Ptrs -> phy_addr_
  ptr,      \* Ptrs -> obj_.ptr_
  guard,    \* Holders -> the object the guard names
  refcnt,   \* Objs -> the object's reference count
  free,     \* objects in the pool
  used,     \* addresses ever written by the checkpoint
  lpc,      \* Loaders -> where the loader is in the load
  lptr,     \* Loaders -> the pointer being loaded
  lobj,     \* Loaders -> the object t acquired for the load
  lsnap     \* Loaders -> the phy_addr_ the loader last read

vars == <<live, addr, ptr, guard, refcnt, free, used, lpc, lptr, lobj, lsnap>>

LoaderPcs == {"idle", "snap", "read", "deser", "hook"}

TypeOK ==
  /\ live \in [Ptrs -> BOOLEAN]
  /\ addr \in [Ptrs -> Addrs \cup {NoAddr}]
  /\ ptr \in [Ptrs -> Objs \cup {NoObj}]
  /\ guard \in [Holders -> Objs \cup {NoObj}]
  /\ refcnt \in [Objs -> 0 .. MaxRef]
  /\ free \subseteq Objs
  /\ used \subseteq Addrs
  /\ lpc \in [Loaders -> LoaderPcs]
  /\ lptr \in [Loaders -> Ptrs]
  /\ lobj \in [Loaders -> Objs \cup {NoObj}]
  /\ lsnap \in [Loaders -> Addrs \cup {NoAddr}]

-----------------------------------------------------------------------------
(* Reference counting.                                                     *)

\* A block the slog handler can still read: some live pointer names it.
Readable == {addr[p] : p \in {q \in Ptrs : live[q]}} \ {NoAddr}

\* One holder lets go of o (reset_obj() of a pointer, reset() of a guard):
\* dec_ref(), and the holder that reaches zero releases o to the pool.
Unref(rc, fr, o) ==
  IF o = NoObj THEN [rc |-> rc, fr |-> fr]
  ELSE [rc |-> [rc EXCEPT ![o] = @ - 1],
        fr |-> IF rc[o] = 1 THEN fr \cup {o} ELSE fr]

\* inc_ref() on a non-null object.
IncRef(rc, o) == IF o = NoObj THEN rc ELSE [rc EXCEPT ![o] = @ + 1]

\* The model's bound: a step that would inc_ref() o past MaxRef is not
\* taken.  Counts that match their holders stay below it; only counts a
\* lost hook has left too high reach it.
BelowMaxRef(o) == o \in Objs => refcnt[o] < MaxRef

-----------------------------------------------------------------------------
Init ==
  /\ live = [p \in Ptrs |-> InitAddr[p] # NoAddr]
  /\ addr = InitAddr
  /\ ptr = [p \in Ptrs |-> NoObj]
  /\ guard = [h \in Holders |-> NoObj]
  /\ refcnt = [o \in Objs |-> 0]
  /\ free = Objs
  /\ used = {InitAddr[p] : p \in Ptrs} \ {NoAddr}
  /\ lpc = [l \in Loaders |-> "idle"]
  /\ lptr \in [Loaders -> {p \in Ptrs : live[p]}]
  /\ lobj = [l \in Loaders |-> NoObj]
  /\ lsnap = [l \in Loaders |-> NoAddr]

LoaderVars == <<lpc, lptr, lobj, lsnap>>

\* reset_obj() that leaves obj_.ptr_ set after dec_ref().
ResetObjKeepPtr(p) ==
  LET r == Unref(refcnt, free, ptr[p])
  IN /\ live[p]
     /\ refcnt' = r.rc
     /\ free' = r.fr
     /\ UNCHANGED <<live, addr, ptr, guard, used, LoaderVars>>

\* reset_obj(): drop the pointer's reference and null obj_.ptr_.
ResetObj(p) ==
  LET r == Unref(refcnt, free, ptr[p])
  IN /\ live[p]
     /\ ptr' = [ptr EXCEPT ![p] = NoObj]
     /\ refcnt' = r.rc
     /\ free' = r.fr
     /\ UNCHANGED <<live, addr, guard, used, LoaderVars>>

\* get_in_memory_obj(guard): the guard is reset first; a pointer without
\* an address or without an object in memory gives an error, otherwise
\* the guard takes a reference on the object.
GetInMemoryObj(p, g) ==
  LET r   == Unref(refcnt, free, guard[g])
      got == IF addr[p] = NoAddr \/ ptr[p] = NoObj THEN NoObj ELSE ptr[p]
  IN /\ live[p] /\ BelowMaxRef(got)
     /\ guard' = [guard EXCEPT ![g] = got]
     /\ refcnt' = IncRef(r.rc, got)
     /\ free' = r.fr
     /\ UNCHANGED <<live, addr, ptr, used, LoaderVars>>

\* set_obj(guard) with the order swapped: the guard's object is taken
\* before reset_obj(), which then drops it instead of the old one.
SetObjSwapped(p, g) ==
  LET r == Unref(refcnt, free, guard[g])
  IN /\ live[p] /\ guard[g] # NoObj
     /\ ptr' = [ptr EXCEPT ![p] = NoObj]
     /\ refcnt' = r.rc
     /\ free' = r.fr
     /\ UNCHANGED <<live, addr, guard, used, LoaderVars>>

\* set_obj(guard): reset_obj(), take the guard's object, inc_ref() it.
\* Callers pass a guard that holds an object.
SetObj(p, g) ==
  LET r == Unref(refcnt, free, ptr[p])
  IN /\ live[p] /\ guard[g] # NoObj /\ BelowMaxRef(guard[g])
     /\ ptr' = [ptr EXCEPT ![p] = guard[g]]
     /\ refcnt' = IncRef(r.rc, guard[g])
     /\ free' = r.fr
     /\ UNCHANGED <<live, addr, guard, used, LoaderVars>>

\* The guard's holder lets it go (ObMetaObjGuard::reset()).
GuardReset(g) ==
  LET r == Unref(refcnt, free, guard[g])
  IN /\ guard[g] # NoObj
     /\ guard' = [guard EXCEPT ![g] = NoObj]
     /\ refcnt' = r.rc
     /\ free' = r.fr
     /\ UNCHANGED <<live, addr, ptr, used, LoaderVars>>

\* deep_copy(buf, ...): placement-new a pointer with the same address and
\* object into a raw buffer q, taking a reference on the object.
DeepCopy(p, q) ==
  /\ live[p] /\ ~live[q] /\ BelowMaxRef(ptr[p])
  /\ live' = [live EXCEPT ![q] = TRUE]
  /\ addr' = [addr EXCEPT ![q] = addr[p]]
  /\ ptr' = [ptr EXCEPT ![q] = ptr[p]]
  /\ refcnt' = IncRef(refcnt, ptr[p])
  /\ UNCHANGED <<guard, free, used, LoaderVars>>

\* ObMetaPointer(addr, guard): placement-new a pointer into a raw buffer q
\* for a block just written at a fresh address a; it takes the guard's
\* object (none, if the guard is empty) and a reference on it.
ConstructWithGuard(q, a, g) ==
  /\ ~live[q] /\ a \notin used /\ BelowMaxRef(guard[g])
  /\ live' = [live EXCEPT ![q] = TRUE]
  /\ addr' = [addr EXCEPT ![q] = a]
  /\ ptr' = [ptr EXCEPT ![q] = guard[g]]
  /\ refcnt' = IncRef(refcnt, guard[g])
  /\ used' = used \cup {a}
  /\ UNCHANGED <<guard, free, LoaderVars>>

\* operator=(other): unless q is p, reset() q, then copy the address and
\* share the object, taking a reference on it.
Assign(q, p) ==
  LET r == Unref(refcnt, free, ptr[q])
  IN /\ live[p] /\ live[q] /\ q # p /\ BelowMaxRef(ptr[p])
     /\ addr' = [addr EXCEPT ![q] = addr[p]]
     /\ ptr' = [ptr EXCEPT ![q] = ptr[p]]
     /\ refcnt' = IncRef(r.rc, ptr[p])
     /\ free' = r.fr
     /\ UNCHANGED <<live, guard, used, LoaderVars>>

\* ~ObMetaPointer(): reset() drops the object and the address.  The map
\* destroys no pointer that a load is in progress for.
Destroy(p) ==
  LET r == Unref(refcnt, free, ptr[p])
  IN /\ live[p]
     /\ \A l \in Loaders : lpc[l] # "idle" => lptr[l] # p
     /\ live' = [live EXCEPT ![p] = FALSE]
     /\ addr' = [addr EXCEPT ![p] = NoAddr]
     /\ ptr' = [ptr EXCEPT ![p] = NoObj]
     /\ refcnt' = r.rc
     /\ free' = r.fr
     /\ UNCHANGED <<guard, used, LoaderVars>>

\* The slog checkpoint writes p's block at a fresh address a and calls
\* set_addr_without_reset_obj(a), or set_addr_with_reset_obj(a) when it
\* also drops the in-memory object.
Checkpoint(p, a, wash) ==
  LET r == Unref(refcnt, free, ptr[p])
  IN /\ live[p] /\ a \notin used
     /\ used' = used \cup {a}
     /\ addr' = [addr EXCEPT ![p] = a]
     /\ IF wash
          THEN /\ ptr' = [ptr EXCEPT ![p] = NoObj]
               /\ refcnt' = r.rc
               /\ free' = r.fr
          ELSE UNCHANGED <<ptr, refcnt, free>>
     /\ UNCHANGED <<live, guard, LoaderVars>>

-----------------------------------------------------------------------------
(* load_obj_from_disk(), without locks, then hook_obj().                   *)

\* A load starts for a pointer not in memory.  acquire_obj() takes an
\* object from the pool; when the pool is empty the load fails before
\* anything changes.
LoadStart(l, p) ==
  /\ lpc[l] = "idle" /\ live[p] /\ ptr[p] = NoObj
  /\ \E o \in free :
       /\ free' = free \ {o}
       /\ lobj' = [lobj EXCEPT ![l] = o]
  /\ lpc' = [lpc EXCEPT ![l] = "snap"]
  /\ lptr' = [lptr EXCEPT ![l] = p]
  /\ UNCHANGED <<live, addr, ptr, guard, refcnt, used, lsnap>>

\* read_from_disk() reads phy_addr_ (the size and the address it passes
\* to the slog handler), unlocked: the checkpoint may move it right after.
ReadAddr(l) ==
  /\ lpc[l] = "snap"
  /\ lsnap' = [lsnap EXCEPT ![l] = addr[lptr[l]]]
  /\ lpc' = [lpc EXCEPT ![l] = "read"]
  /\ UNCHANGED <<live, addr, ptr, guard, refcnt, free, used, lptr, lobj>>

\* The load failed: release_obj(t) returns t to the pool.
LoadFail(l) ==
  /\ lpc' = [lpc EXCEPT ![l] = "idle"]
  /\ free' = free \cup {lobj[l]}
  /\ lobj' = [lobj EXCEPT ![l] = NoObj]
  /\ UNCHANGED <<live, addr, ptr, guard, refcnt, used, lptr, lsnap>>

\* The do-while loop, retrying with a stale address: the loop goes back
\* to the disk read without reading phy_addr_ again.
ReadDiskStale(l) ==
  /\ lpc[l] = "read"
  /\ lpc' = [lpc EXCEPT ![l] = IF lsnap[l] \in Readable THEN "deser" ELSE "read"]
  /\ UNCHANGED <<live, addr, ptr, guard, refcnt, free, used, lptr, lobj, lsnap>>

\* The slog handler reads the block at the address read: the block is
\* there, or the checkpoint has freed it (OB_SEARCH_NOT_FOUND: sleep and
\* go round the loop, reading phy_addr_ again).
ReadDisk(l) ==
  /\ lpc[l] = "read"
  /\ lpc' = [lpc EXCEPT ![l] = IF lsnap[l] \in Readable THEN "deser" ELSE "snap"]
  /\ UNCHANGED <<live, addr, ptr, guard, refcnt, free, used, lptr, lobj, lsnap>>

\* The read fails with another error (I/O, allocation) and the loop ends,
\* or T::load_deserialize() fails: either way release_obj(t).
LoadError(l) ==
  /\ lpc[l] \in {"read", "deser"}
  /\ LoadFail(l)

\* deserialize(allocator, buf, len, t) succeeds.
Deserialize(l) ==
  /\ lpc[l] = "deser"
  /\ lpc' = [lpc EXCEPT ![l] = "hook"]
  /\ UNCHANGED <<live, addr, ptr, guard, refcnt, free, used, lptr, lobj, lsnap>>

\* hook_obj(t, guard), under the lock: the guard is reset; a pointer that
\* already has an object (another load or set_obj() got there first)
\* makes the hook fail, and the failure block returns t to the pool and
\* sets obj_.ptr_ = nullptr without dec_ref() of the object it held;
\* otherwise t gets one reference for the pointer and one for the guard.
Hook(l) ==
  LET p    == lptr[l]
      t    == lobj[l]
      r    == Unref(refcnt, free, guard[l])
      lost == ptr[p] # NoObj
  IN /\ lpc[l] = "hook"
     /\ lpc' = [lpc EXCEPT ![l] = "idle"]
     /\ lobj' = [lobj EXCEPT ![l] = NoObj]
     /\ guard' = [guard EXCEPT ![l] = IF lost THEN NoObj ELSE t]
     /\ ptr' = [ptr EXCEPT ![p] = IF lost THEN NoObj ELSE t]
     /\ refcnt' = IF lost THEN r.rc ELSE [r.rc EXCEPT ![t] = 2]
     /\ free' = IF lost THEN r.fr \cup {t} ELSE r.fr
     /\ UNCHANGED <<live, addr, used, lptr, lsnap>>

-----------------------------------------------------------------------------
LoaderStep(l) == ReadAddr(l) \/ ReadDisk(l) \/ Deserialize(l) \/ Hook(l)

Next ==
  \/ \E p \in Ptrs :
       \/ ResetObj(p)
       \/ Destroy(p)
       \/ \E g \in Guards : GetInMemoryObj(p, g) \/ SetObj(p, g)
       \/ \E q \in Ptrs : DeepCopy(p, q) \/ Assign(q, p)
       \/ \E a \in Addrs, g \in Guards : ConstructWithGuard(p, a, g)
       \/ \E a \in Addrs, wash \in BOOLEAN : Checkpoint(p, a, wash)
  \/ \E g \in Holders : GuardReset(g)
  \/ \E l \in Loaders :
       \/ \E p \in Ptrs : LoadStart(l, p)
       \/ LoaderStep(l)
       \/ LoadError(l)

\* Loader threads keep running their load; errors, callers and the
\* checkpoint are not obliged to happen.
Spec == Init /\ [][Next]_vars /\ \A l \in Loaders : WF_vars(LoaderStep(l))

-----------------------------------------------------------------------------
(* Properties.                                                             *)

\* The holders of an object, and the loader that owns it before hook_obj().
HoldersOf(o) == {p \in Ptrs : live[p] /\ ptr[p] = o} \cup {h \in Holders : guard[h] = o}

\* No object is back in the pool while a pointer or guard still names it
\* or a load still fills it: reset_obj() releases only at count zero.
NoDanglingHandle ==
  \A o \in free : HoldersOf(o) = {} /\ \A l \in Loaders : lobj[l] # o

\* No object leaks: one out of the pool is named by a pointer or a guard,
\* or owned by a load in progress.  A failed load or hook must return its
\* own t, and every holder that lets go must drop its reference, so the
\* last one to go releases the object.
NoLeakedObject ==
  \A o \in Objs \ free : HoldersOf(o) # {} \/ \E l \in Loaders : lobj[l] = o

\* A load ends: the retry loop on OB_SEARCH_NOT_FOUND in
\* load_obj_from_disk() terminates although the checkpoint may move the
\* block after the loader read its address, because each round reads
\* phy_addr_ again.
LoadTerminates ==
  \A l \in Loaders : (lpc[l] # "idle") ~> (lpc[l] = "idle")
=============================================================================
