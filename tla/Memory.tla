-------------------------------- MODULE Memory --------------------------------
(***************************************************************************)
(* Arrays of words on the host and on the device (utils/box.h,             *)
(* utils/dynamic_array.h), the copies between them (kernel_provider.h) and *)
(* the memory pools the device's blocks come from (utils/memory_pool.h,    *)
(* memory_pool_safe.in, the pool that is built by default), used by        *)
(* several threads.  Each thread has a stream of its own: what it asks of  *)
(* the device is done later, in the order of that thread only.  A thread   *)
(* works on its own arrays; pools are shared.                              *)
(*                                                                         *)
(* An array that was moved from, or whose pool was destroyed, is only      *)
(* released or assigned to, and a pool is destroyed while no thread is in  *)
(* a call: the library leaves both to its caller.  Host memory is never    *)
(* short.                                                                  *)
(***************************************************************************)
EXTENDS Integers, Sequences, FiniteSetsExt, SequencesExt

CONSTANTS
  NumThreads, NumSlots,     \* slot s holds an array of thread ThreadOf(s)
  Pools, Shared,            \* the pools, and the ones every thread uses
  NewLens, Lens,            \* lengths arrays are made with and resized to
  Capacity,                 \* words of the device
  PRESERVED_MEMORY_BYTES,   \* words the pools leave free
  MaxCalls                  \* bound: calls of the program

ASSUME MemoryAssumption ==
  /\ NumThreads \in Nat \ {0} /\ NumSlots \in Nat /\ NewLens \subseteq Nat /\ Lens \subseteq Nat /\ Shared \subseteq Pools
  /\ Pools \cap {"none", "array", "call"} = {}   \* the names of no pool, and of holders that are none
  /\ Capacity \in Nat /\ PRESERVED_MEMORY_BYTES \in Nat /\ MaxCalls \in Nat

VARIABLES
  arrays,    \* [pointer, len, device, pool, words]; the words only on the host
  mem,       \* the device's blocks: address -> words
  pools,     \* [unused, allocated, zombie, destroyed, denying]
  streams,   \* thread -> what the device has still to do for it
  running,   \* thread -> the call it is in: [stage, plan, got]
  meant,     \* slot -> the words the program expects there
  fault,     \* a release has thrown
  calls
memoryVars == <<arrays, mem, pools, streams, running, meant, fault, calls>>

Threads     == 1 .. NumThreads
Slots       == 1 .. NumSlots
ThreadOf(s) == (s % NumThreads) + 1
PoolsOf(t)  == IF t = 1 THEN Pools ELSE Shared   \* the first thread has pools of its own
Addresses   == 1 .. Capacity     \* a block has at least one word
NoPool      == "none"
Garbage     == 9                 \* a word nobody has written
FreshWords(n)    == [i \in 1 .. n |-> Garbage]
ZeroWords(n) == [i \in 1 .. n |-> 0]
Array       == [pointer |-> 0, len |-> 0, device |-> FALSE, pool |-> NoPool, words |-> << >>]

-----------------------------------------------------------------------------
(* What the device does: copies, cudaMemsetAsync and kernels. *)
Copy(dst, src, n)    == [op |-> "copy", dst |-> dst, src |-> src, first |-> 0, last |-> n, vals |-> << >>]
Upload(dst, vals)    == [op |-> "write", dst |-> dst, src |-> 0, first |-> 0, last |-> Len(vals), vals |-> vals]
Zero(dst, from, to)  == [op |-> "zero", dst |-> dst, src |-> 0, first |-> from, last |-> to, vals |-> << >>]
Kernel(dst, n)       == [op |-> "kernel", dst |-> dst, src |-> 0, first |-> 0, last |-> n, vals |-> << >>]

Increased(w) == IF w = Garbage THEN Garbage ELSE (w + 1) % 3
Perform(m, o) ==
  [m EXCEPT ![o.dst] = [i \in DOMAIN @ |->
     IF i <= o.first \/ i > o.last THEN @[i]
     ELSE CASE o.op = "copy" -> m[o.src][i]
            [] o.op = "write" -> o.vals[i]
            [] o.op = "zero" -> 0
            [] OTHER -> Increased(@[i])]]
Ran(m, stream) ==
  LET done[i \in 0 .. Len(stream)] == IF i = 0 THEN m ELSE Perform(done[i - 1], stream[i])
  IN  done[Len(stream)]
Finished(m, t) == Ran(m, streams[t])
cudaDeviceSynchronize(m) ==
  LET done[t \in 0 .. NumThreads] == IF t = 0 THEN m ELSE Finished(done[t - 1], t) IN done[NumThreads]
Drained == [t \in Threads |-> << >>]

-----------------------------------------------------------------------------
(* The pool.  unused is the multimap by size, equal sizes in the order they *)
(* came; an entry names the thread that gave the block back.               *)
Pool0 == [unused |-> << >>, allocated |-> {}, zombie |-> {}, destroyed |-> FALSE, denying |-> FALSE]
Free  == Capacity - MapThenSumSet(LAMBDA a : Len(mem[a]), DOMAIN mem)

(* release: a block of a destroyed pool must be a zombie; another goes to  *)
(* the unused ones.  The result is the pool and whether the call threw.    *)
release(p, ptr, t) ==
  CASE p.destroyed /\ ptr \in p.zombie -> <<[p EXCEPT !.zombie = @ \ {ptr}], FALSE>>
    [] ~p.destroyed /\ ptr \in p.allocated ->
         <<[p EXCEPT !.unused = Append(@, [size |-> Len(mem[ptr]), ptr |-> ptr, thread |-> t])], FALSE>>
    [] OTHER -> <<p, TRUE>>

(* Array::release, for the array a slot holds. *)
Released(a, t) ==
  IF a.pointer = 0 \/ ~a.device THEN <<pools, fault>>
  ELSE LET r == release(pools[a.pool], a.pointer, t)
       IN  <<[pools EXCEPT ![a.pool] = r[1]], fault \/ r[2]>>

(* lower_bound(required): the first of the least of the sizes that fit. *)
Candidates(p, required) == {i \in DOMAIN p.unused : p.unused[i].size >= required}
Best(p, required) ==
  CHOOSE i \in Candidates(p, required) : \A j \in Candidates(p, required) \ {i} :
    \/ p.unused[i].size < p.unused[j].size
    \/ p.unused[i].size = p.unused[j].size /\ i < j
WithoutUnused(p) ==
  [p EXCEPT !.allocated = @ \ {p.unused[i].ptr : i \in DOMAIN p.unused}, !.unused = << >>]
Without(m, addresses) == [a \in DOMAIN m \ addresses |-> m[a]]
UnusedBlocks(p) == {p.unused[i].ptr : i \in DOMAIN p.unused}

-----------------------------------------------------------------------------
(* The calls that make an array.  A plan says which slot gets the new      *)
(* array, its length and place, which slot it is copied from (0: none),    *)
(* how many words, what the rest is filled with, and what is then meant.   *)
Plan(dest, len, device, pool, from, take, rest) ==
  [dest |-> dest, len |-> len, device |-> device, pool |-> pool, from |-> from, take |-> take, rest |-> rest]

(* Array(count, device, pool) and create_uninitialized. *)
Constructed(d, n, device, p)   == Plan(d, n, device, IF device THEN p ELSE NoPool, 0, 0, 0)
create_uninitialized(d, n, device, p) == Plan(d, n, device, IF device THEN p ELSE NoPool, 0, 0, Garbage)
(* from_vector, with words the program has made. *)
from_vector(d, n) == Plan(d, n, FALSE, NoPool, 0, 0, 1)
(* clone keeps the place and, on the host too, the pool it was given. *)
clone(d, s, p) == Plan(d, arrays[s].len, arrays[s].device, p, s, arrays[s].len, Garbage)
to_host(d, s) ==
  IF ~arrays[s].device THEN clone(d, s, NoPool)
  ELSE Plan(d, arrays[s].len, FALSE, NoPool, s, arrays[s].len, Garbage)
to_device(d, s, p) == Plan(d, arrays[s].len, TRUE, p, s, arrays[s].len, Garbage)
to_pool_inplace(s, p) == Plan(s, arrays[s].len, TRUE, p, s, arrays[s].len, Garbage)
to_host_inplace(s) == to_host(s, s)
to_device_inplace(s, p) == IF arrays[s].device THEN to_pool_inplace(s, p) ELSE to_device(s, s, p)
resize_internal(s, n, zeros, copy) ==
  Plan(s, n, arrays[s].device, arrays[s].pool, s,
       IF copy THEN Min({n, arrays[s].len}) ELSE 0, IF zeros THEN 0 ELSE Garbage)
create_and_copy_from_slice(d, s, device, p) ==
  Plan(d, arrays[s].len, device, IF device THEN p ELSE NoPool, s, arrays[s].len, Garbage)

(* Words that resize leaves to the caller when it copies none: below the   *)
(* old length they are not filled.                                         *)
Unfilled(plan) == IF plan.from # 0 /\ plan.take = 0 THEN Min({plan.len, arrays[plan.from].len}) ELSE plan.take

-----------------------------------------------------------------------------
Idle == [stage |-> "idle", plan |-> Plan(1, 0, FALSE, NoPool, 0, 0, 0), got |-> 0]

MemoryInit ==
  /\ arrays = [s \in Slots |-> Array]
  /\ mem = << >>
  /\ pools = [p \in Pools |-> Pool0]
  /\ streams = Drained
  /\ running = [t \in Threads |-> Idle]
  /\ meant = [s \in Slots |-> << >>]
  /\ fault = FALSE
  /\ calls = 0

Usable(s) == arrays[s].pointer # 0 => ~pools[arrays[s].pool].destroyed
MovedFrom(s)  == arrays[s].device /\ arrays[s].pool = NoPool
MayCall(t) == running[t].stage = "idle" /\ calls < MaxCalls

Got(t, ptr) == running' = [running EXCEPT ![t].stage = "build", ![t].got = ptr]
Goes(t, stage) == running' = [running EXCEPT ![t].stage = stage]

(* allocate, under the lock: a block that is not twice as long as needed   *)
(* is used again, after the device is done if another thread had it.       *)
Mutantallocate(t) ==   \* no synchronisation with the thread that had the block
  LET plan == running[t].plan
      p    == pools[plan.pool]
  IN  /\ running[t].stage = "allocate"
      /\ IF Candidates(p, plan.len) = {} \/ p.unused[Best(p, plan.len)].size >= plan.len * 2
         THEN Goes(t, "try") /\ UNCHANGED <<mem, pools, streams>>
         ELSE LET i == Best(p, plan.len)
              IN  /\ Got(t, p.unused[i].ptr)
                  /\ pools' = [pools EXCEPT ![plan.pool].unused = RemoveAt(@, i)]
                  /\ UNCHANGED <<mem, streams>>
      /\ UNCHANGED <<arrays, meant, fault, calls>>
allocate(t) ==
  LET plan == running[t].plan
      p    == pools[plan.pool]
  IN  /\ running[t].stage = "allocate"
      /\ IF Candidates(p, plan.len) = {} \/ p.unused[Best(p, plan.len)].size >= plan.len * 2
         THEN Goes(t, "try") /\ UNCHANGED <<mem, pools, streams>>
         ELSE LET i == Best(p, plan.len)
              IN  /\ Got(t, p.unused[i].ptr)
                  /\ pools' = [pools EXCEPT ![plan.pool].unused = RemoveAt(@, i)]
                  /\ IF p.unused[i].thread # t
                     THEN mem' = cudaDeviceSynchronize(mem) /\ streams' = Drained
                     ELSE UNCHANGED <<mem, streams>>
      /\ UNCHANGED <<arrays, meant, fault, calls>>

(* try_allocate, under the lock again: cudaMalloc if there is room; if     *)
(* not, the lock is let go and the unused blocks of this pool are freed    *)
(* (cudaFree waits for the device), and the room is looked at once more.   *)
Room(t) == Free >= running[t].plan.len + PRESERVED_MEMORY_BYTES
cudaMalloc(t) ==
  \E ptr \in Addresses \ DOMAIN mem :
      /\ \A a \in Addresses \ DOMAIN mem : ptr <= a
      /\ Got(t, ptr)
      /\ mem' = [a \in DOMAIN mem \cup {ptr} |-> IF a = ptr THEN FreshWords(running[t].plan.len) ELSE mem[a]]
      /\ pools' = [pools EXCEPT ![running[t].plan.pool].allocated = @ \cup {ptr}]
      /\ UNCHANGED <<arrays, streams, meant, fault, calls>>
try_allocate(t) ==
  /\ running[t].stage = "try"
  /\ \/ Room(t) /\ cudaMalloc(t)
     \/ ~Room(t) /\ Goes(t, "free") /\ UNCHANGED <<arrays, mem, pools, streams, meant, fault, calls>>
FreeUnused(p) ==
  /\ IF pools[p].unused = << >> THEN UNCHANGED <<mem, streams>>
     ELSE mem' = Without(cudaDeviceSynchronize(mem), UnusedBlocks(pools[p])) /\ streams' = Drained
  /\ pools' = [pools EXCEPT ![p] = WithoutUnused(@)]
FreeAndTryAgain(t) ==
  /\ running[t].stage = "free"
  /\ FreeUnused(running[t].plan.pool) /\ Goes(t, "again")
  /\ UNCHANGED <<arrays, meant, fault, calls>>
TryAgain(t) ==
  /\ running[t].stage = "again"
  /\ \/ Room(t) /\ cudaMalloc(t)
     \/ /\ ~Room(t)
        /\ running' = [running EXCEPT ![t] = Idle]
        /\ UNCHANGED <<arrays, mem, pools, streams, meant, fault, calls>>

(* The rest of the call: the new array is filled (a copy to the host waits *)
(* for the thread's stream), the slot's old array released and replaced.   *)
Filled(plan, copied) ==
  [i \in 1 .. plan.len |-> IF i <= plan.take THEN copied[i] ELSE IF i <= Unfilled(plan) THEN Garbage ELSE plan.rest]
Build(t, plan, got) ==
  LET src    == IF plan.from = 0 THEN Array ELSE arrays[plan.from]
      after  == Finished(mem, t)
      waits  == ~plan.device /\ src.device /\ plan.take > 0
      source == IF plan.take = 0 THEN << >> ELSE IF src.device THEN after[src.pointer] ELSE src.words
      fills  == (IF plan.take = 0 THEN << >>
                 ELSE IF src.device THEN <<Copy(got, src.pointer, plan.take)>>
                 ELSE <<Upload(got, SubSeq(src.words, 1, plan.take))>>)
                \o (IF plan.rest = 0 /\ plan.len > Unfilled(plan) THEN <<Zero(got, Unfilled(plan), plan.len)>> ELSE << >>)
      r      == Released(arrays[plan.dest], t)
  IN  /\ arrays' = [arrays EXCEPT ![plan.dest] =
           [pointer |-> got, len |-> plan.len, device |-> plan.device, pool |-> plan.pool,
            words |-> IF plan.device THEN << >> ELSE Filled(plan, source)]]
      /\ pools' = r[1] /\ fault' = r[2]
      /\ mem' = IF waits THEN after ELSE mem
      /\ streams' = CASE waits -> [streams EXCEPT ![t] = << >>]
                      [] ~waits /\ plan.device /\ plan.len > 0 -> [streams EXCEPT ![t] = @ \o fills]
                      [] OTHER -> streams
      /\ meant' = [meant EXCEPT ![plan.dest] = Filled(plan, IF plan.from = 0 THEN << >> ELSE meant[plan.from])]
      /\ running' = [running EXCEPT ![t] = Idle]
Finish(t) ==
  /\ running[t].stage = "build"
  /\ Build(t, running[t].plan, running[t].got)
  /\ UNCHANGED calls

(* A call begins.  One that needs a block of the device enters allocate,   *)
(* which refuses when the pool is denying or destroyed.                    *)
Begin(t, plan) ==
  /\ MayCall(t) /\ calls' = calls + 1
  /\ IF plan.device /\ plan.len > 0
     THEN /\ running' = [running EXCEPT ![t] =
               IF pools[plan.pool].denying \/ pools[plan.pool].destroyed THEN Idle
               ELSE [stage |-> "allocate", plan |-> plan, got |-> 0]]
          /\ UNCHANGED <<arrays, mem, pools, streams, meant, fault>>
     ELSE Build(t, plan, 0)

(* The move assignment; the array moved from keeps its place. *)
Move(t, d, s) ==
  LET r == Released(arrays[d], t)
  IN  /\ MayCall(t) /\ calls' = calls + 1 /\ d # s
      /\ arrays' = [arrays EXCEPT ![d] = arrays[s], ![s] = [Array EXCEPT !.device = arrays[s].device]]
      /\ meant' = [meant EXCEPT ![d] = meant[s], ![s] = << >>]
      /\ pools' = r[1] /\ fault' = r[2]
      /\ UNCHANGED <<mem, streams, running>>

(* Slice::copy_from_slice and set_zero on a whole array, and a kernel on it. *)
WrittenTo(s, words) ==
  arrays' = IF arrays[s].device THEN arrays ELSE [arrays EXCEPT ![s].words = words]
Queued(t, s, o) ==
  streams' = IF arrays[s].device THEN [streams EXCEPT ![t] = Append(@, o)] ELSE streams
copy_from_slice(t, d, s) ==
  LET src   == arrays[s]
      waits == src.device /\ ~arrays[d].device
      after == Finished(mem, t)
  IN  /\ MayCall(t) /\ calls' = calls + 1 /\ d # s /\ src.len = arrays[d].len /\ src.len > 0
      /\ WrittenTo(d, IF src.device THEN SubSeq(after[src.pointer], 1, src.len) ELSE src.words)
      /\ IF waits THEN mem' = after /\ streams' = [streams EXCEPT ![t] = << >>]
         ELSE /\ mem' = mem
              /\ Queued(t, d, IF src.device THEN Copy(arrays[d].pointer, src.pointer, src.len)
                              ELSE Upload(arrays[d].pointer, src.words))
      /\ meant' = [meant EXCEPT ![d] = meant[s]]
      /\ UNCHANGED <<pools, running, fault>>
set_zero(t, s) ==
  /\ MayCall(t) /\ calls' = calls + 1 /\ arrays[s].len > 0
  /\ WrittenTo(s, ZeroWords(arrays[s].len))
  /\ Queued(t, s, Zero(arrays[s].pointer, 0, arrays[s].len))
  /\ meant' = [meant EXCEPT ![s] = ZeroWords(arrays[s].len)]
  /\ UNCHANGED <<mem, pools, running, fault>>
Launch(t, s) ==
  /\ MayCall(t) /\ calls' = calls + 1 /\ arrays[s].device /\ arrays[s].len > 0
  /\ Queued(t, s, Kernel(arrays[s].pointer, arrays[s].len))
  /\ meant' = [meant EXCEPT ![s] = [i \in DOMAIN @ |-> Increased(@[i])]]
  /\ UNCHANGED <<arrays, mem, pools, running, fault>>

(* The device does the next thing of a thread's stream. *)
Device(t) ==
  /\ streams[t] # << >>
  /\ mem' = Perform(mem, Head(streams[t]))
  /\ streams' = [streams EXCEPT ![t] = Tail(@)]
  /\ UNCHANGED <<arrays, pools, running, meant, fault, calls>>

(* Calls of the pool itself.  destroy frees every block; the ones arrays   *)
(* still hold become zombies.  The destructor of a pool no array belongs   *)
(* to does the same.                                                       *)
ReleaseUnused(t, p) ==
  /\ MayCall(t) /\ calls' = calls + 1 /\ pools[p].unused # << >>
  /\ FreeUnused(p)
  /\ UNCHANGED <<arrays, running, meant, fault>>
destroy(p) ==
  /\ \A t \in Threads : MayCall(t)
  /\ calls' = calls + 1 /\ ~pools[p].destroyed
  /\ mem' = Without(cudaDeviceSynchronize(mem), pools[p].allocated) /\ streams' = Drained
  /\ pools' = [pools EXCEPT ![p] = [@ EXCEPT !.zombie = WithoutUnused(pools[p]).allocated,
                                             !.allocated = {}, !.unused = << >>, !.destroyed = TRUE]]
  /\ UNCHANGED <<arrays, running, meant, fault>>
deny(t, p, set) ==
  /\ MayCall(t) /\ calls' = calls + 1 /\ pools[p].denying # set
  /\ pools' = [pools EXCEPT ![p].denying = set]
  /\ UNCHANGED <<arrays, mem, streams, running, meant, fault>>
(* The caller says another thread's work is done. *)
force_set_thread_id(t, p) ==
  /\ MayCall(t) /\ calls' = calls + 1 /\ pools[p].unused # << >> /\ streams = Drained
  /\ pools' = [pools EXCEPT ![p].unused = [i \in DOMAIN @ |-> [@[i] EXCEPT !.thread = t]]]
  /\ UNCHANGED <<arrays, mem, streams, running, meant, fault>>

Inside(t) == allocate(t) \/ try_allocate(t) \/ FreeAndTryAgain(t) \/ TryAgain(t) \/ Finish(t)
Make(t) ==
  \E d \in Slots : ThreadOf(d) = t /\
    \/ \E n \in NewLens, p \in PoolsOf(t) :
         Begin(t, Constructed(d, n, TRUE, p)) \/ Begin(t, create_uninitialized(d, n, TRUE, p))
    \/ \E n \in NewLens : Begin(t, from_vector(d, n)) \/ Begin(t, Constructed(d, n, FALSE, NoPool))
    \/ \E s \in Slots : ThreadOf(s) = t /\ Usable(s) /\
         \/ Begin(t, to_host(d, s))
         \/ \E p \in PoolsOf(t) : Begin(t, clone(d, s, p)) \/ Begin(t, to_device(d, s, p))
         \/ \E p \in PoolsOf(t), device \in BOOLEAN : Begin(t, create_and_copy_from_slice(d, s, device, p))
    \/ /\ Usable(d)
       /\ \/ arrays[d].device /\ Begin(t, to_host_inplace(d))
          \/ \E p \in PoolsOf(t) :
               \/ (arrays[d].device => p # arrays[d].pool) /\ Begin(t, to_device_inplace(d, p))
               \/ arrays[d].device /\ Begin(t, to_pool_inplace(d, p))
          \/ ~MovedFrom(d) /\ \E n \in Lens \ {arrays[d].len}, zeros, copy \in BOOLEAN :
               (zeros \/ copy) /\ Begin(t, resize_internal(d, n, zeros, copy))
Use(t) ==
  \/ \E d, s \in Slots : /\ ThreadOf(d) = t /\ ThreadOf(s) = t
                         /\ \/ Move(t, d, s)
                            \/ Usable(s) /\ Usable(d) /\ copy_from_slice(t, d, s)
  \/ \E s \in Slots : ThreadOf(s) = t /\ Usable(s) /\ (set_zero(t, s) \/ Launch(t, s))
Manage(t) ==
  \E p \in PoolsOf(t) : \/ ReleaseUnused(t, p) \/ force_set_thread_id(t, p)
                        \/ \E set \in BOOLEAN : deny(t, p, set)

MemoryNext ==
  \/ \E t \in Threads : Inside(t) \/ Make(t) \/ Use(t) \/ Manage(t) \/ Device(t)
  \/ \E p \in Pools : destroy(p)
MemorySpec == MemoryInit /\ [][MemoryNext]_memoryVars

-----------------------------------------------------------------------------
(* Every block the device has belongs to one pool, and there either to one *)
(* array, to a call that is building one or to the unused blocks.          *)
Holders(ptr) ==
  {<<"array", s>> : s \in {s \in Slots : arrays[s].device /\ arrays[s].pointer = ptr
                                         /\ ~pools[arrays[s].pool].destroyed}}
  \cup {<<"call", t>> : t \in {t \in Threads : running[t].got = ptr}}
  \cup UNION {{<<p, i>> : i \in {i \in DOMAIN pools[p].unused : pools[p].unused[i].ptr = ptr}} : p \in Pools}
OneHolder ==
  /\ DOMAIN mem = UNION {pools[p].allocated : p \in Pools}
  /\ \A p, q \in Pools : p # q => pools[p].allocated \cap pools[q].allocated = {}
  /\ \A ptr \in DOMAIN mem : Cardinality(Holders(ptr)) = 1
  /\ \A s \in Slots : arrays[s].device /\ arrays[s].pointer # 0 =>
       LET p == pools[arrays[s].pool]
       IN  IF p.destroyed THEN arrays[s].pointer \in p.zombie
           ELSE arrays[s].pointer \in p.allocated /\ Len(mem[arrays[s].pointer]) >= arrays[s].len

(* Once its thread's stream is done, whatever the other threads' streams   *)
(* have still to do, an array holds what the program put there.            *)
Agrees(words, s) == \A i \in DOMAIN meant[s] : meant[s][i] \in {Garbage, words[i]}
WordsKept ==
  \A s \in Slots : Usable(s) /\ arrays[s].len > 0 =>
    Agrees(IF arrays[s].device THEN Finished(mem, ThreadOf(s))[arrays[s].pointer] ELSE arrays[s].words, s)

(* box.h, memory_pool_safe.in: no block is in two hands or lost, blocks    *)
(* that pass between threads carry none of the other's work with them, and *)
(* giving a block back never throws, after the pool was destroyed neither. *)
MemorySafe == OneHolder /\ WordsKept /\ ~fault
=============================================================================
