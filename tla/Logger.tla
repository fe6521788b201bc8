-------------------------------- MODULE Logger --------------------------------
(***************************************************************************)
(* The Logger and its RingBuffer: the engine's thread (the writer) copies  *)
(* records into a ring of memory blocks, the log thread (the reader)       *)
(* formats them.  They share two atomics, the writer's block and offset,   *)
(* and two plain arrays, the memory and the end of what a full block holds. *)
(*                                                                         *)
(* A step is one access to something the threads share.  They happen in    *)
(* program order: relaxed stores of one thread stay in order on x86-64,    *)
(* the platform the project builds for.                                    *)
(*                                                                         *)
(* A record is a LogInfo and a log struct of its kind; memory holds pieces *)
(* of records, so that a reader in the wrong place finds no whole record.  *)
(* Records are of two kinds: formatted text, whose struct is a std::string *)
(* (LOG_DEBUG to LOG_ERROR), and structs of plain data (LOG_ORDER and the  *)
(* like).  Which calls the log level lets through is left open.            *)
(* A definition whose name ends in Slip is a plausible slip in the         *)
(* operator of that name, against which the properties are tried.          *)
(***************************************************************************)
EXTENDS Integers, Sequences

CONSTANTS
    Blocks,     \* number_blocks
    BlockSize,  \* mem_block_size
    TextSize,   \* sizeof(LogInfo) + sizeof(FormatStringLog)
    OrderSize,  \* sizeof(LogInfo) + sizeof(OrderLog)
    MaxRecords  \* BOUND: records written in a behaviour

ASSUME BlocksAssumption == Blocks \in Nat \ {0, 1} /\ BlockSize \in Nat \ {0}
ASSUME SizesAssumption == {TextSize, OrderSize} \subseteq 1 .. BlockSize
ASSUME MaxRecordsAssumption == MaxRecords \in Nat

VARIABLES
    wOff,       \* write_ptr_offset_
    wBlk,       \* write_block_index_
    rOff,       \* read_ptr_offset_
    rBlk,       \* read_block_index_
    end,        \* end[b]: mem_blocks_end_, 0 while block b is not full
    mem,        \* mem[b][o]: the piece of a record that is there
    kinds,      \* kinds[k]: the kind of the k-th record written
    registered, \* kinds with a function in function_register_
    wpc,        \* where the writer is
    rpc,        \* where the reader is
    seenOff,    \* the write offset can_read loaded
    run,        \* run_
    committed,  \* records whose write has ended
    received    \* the records the log thread formatted

buffer == <<wOff, wBlk, rOff, rBlk, end, mem>>
history == <<kinds, committed, received>>
vars == <<buffer, history, registered, wpc, rpc, seenOff, run>>

BlockIds == 0 .. Blocks - 1
Offsets == 0 .. BlockSize - 1
Nothing == [record |-> 0, part |-> 0]
Kinds == {"FORMAT_STRING", "ORDER"}
SizeOf == [FORMAT_STRING |-> TextSize, ORDER |-> OrderSize]
Pieces == [record : 0 .. MaxRecords, part : 0 .. BlockSize]

TypeOK ==
    /\ wOff \in 0 .. BlockSize /\ wBlk \in BlockIds
    /\ rOff \in 0 .. BlockSize /\ rBlk \in BlockIds
    /\ end \in [BlockIds -> 0 .. BlockSize]
    /\ mem \in [BlockIds -> [Offsets -> Pieces]]
    /\ kinds \in Seq(Kinds) /\ Len(kinds) <= MaxRecords
    /\ registered \subseteq Kinds
    /\ wpc \in {"idle", "store_block", "store_offset", "copy", "forward", "joining", "joined",
                "undefined"}
    /\ rpc \in {"can_read", "load_offset", "load_block", "get_pointer", "read", "empty",
                "stopped", "crashed"}
    /\ seenOff \in 0 .. BlockSize
    /\ run \in BOOLEAN
    /\ committed \in Nat /\ received \in Seq(Nat)

Init ==
    /\ wOff = 0 /\ wBlk = 0 /\ rOff = 0 /\ rBlk = 0
    /\ end = [b \in BlockIds |-> 0]
    /\ mem = [b \in BlockIds |-> [o \in Offsets |-> Nothing]]
    /\ kinds = <<>> /\ registered = {} /\ committed = 0 /\ received = <<>>
    /\ wpc = "idle" /\ rpc = "can_read" /\ seenOff = 0 /\ run = TRUE

-----------------------------------------------------------------------------
(* The writer: registration, Logger::write_buffer, then Logger::stop       *)

Alive == rpc # "crashed"
NextBlock(b) == (b + 1) % Blocks
Size == SizeOf[kinds[Len(kinds)]]

\* register_common_types comes first; the constructor of a book registers its
\* own types, before there is an order to log but after it has logged itself.
RegisterCommonTypes == registered = {} /\ registered' = {"FORMAT_STRING"}
RegisterBookTypes == registered = {"FORMAT_STRING"} /\ registered' = Kinds

Register ==
    /\ wpc = "idle" /\ Alive
    /\ RegisterCommonTypes \/ RegisterBookTypes
    /\ UNCHANGED <<buffer, history, wpc, rpc, seenOff, run>>

\* get_write_pointer: a record that does not fit closes the block.
FitsSlip(n) == wOff < BlockSize
Fits(n) == wOff + n <= BlockSize

GetWritePointer ==
    /\ wpc = "idle" /\ Alive /\ Len(kinds) < MaxRecords
    /\ \E t \in registered :
        /\ kinds' = Append(kinds, t)
        /\ \/ Fits(SizeOf[t]) /\ wpc' = "copy" /\ UNCHANGED end
           \/ ~Fits(SizeOf[t]) /\ wpc' = "store_block" /\ end' = [end EXCEPT ![wBlk] = wOff]
    /\ UNCHANGED <<wOff, wBlk, rOff, rBlk, mem, registered, rpc, seenOff, run, committed, received>>

StoreBlock ==
    /\ wpc = "store_block" /\ Alive
    /\ wBlk' = NextBlock(wBlk) /\ wpc' = "store_offset"
    /\ UNCHANGED <<wOff, rOff, rBlk, end, mem, history, registered, rpc, seenOff, run>>

StoreOffset ==
    /\ wpc = "store_offset" /\ Alive
    /\ wOff' = 0 /\ wpc' = "copy"
    /\ UNCHANGED <<wBlk, rOff, rBlk, end, mem, history, registered, rpc, seenOff, run>>

\* write_buffer copies the LogInfo and the log struct where the pointer says.
\* No constructor has run there: text is assigned to what is taken for a
\* std::string, which is one if a text's was at that very place, and is as
\* good as an empty one in memory nobody wrote (blocks of megabytes are fresh
\* pages, all zero).  With anything else there, the assignment frees or writes
\* through a pointer that is none: nothing is known from here on.
Place == wOff .. wOff + Size - 1
Untouched == \A o \in Place : mem[wBlk][o] = Nothing
TextAt(k) ==
    /\ kinds[k] = "FORMAT_STRING"
    /\ \A o \in Place : mem[wBlk][o] = [record |-> k, part |-> o - wOff]
Assignable ==
    kinds[Len(kinds)] = "FORMAT_STRING" => Untouched \/ \E k \in DOMAIN kinds : TextAt(k)

CopyRecord ==
    /\ wpc = "copy" /\ Alive
    /\ \/ /\ Assignable
          /\ mem' = [mem EXCEPT ![wBlk] =
                [o \in Offsets |->
                    IF o \in Place THEN [record |-> Len(kinds), part |-> o - wOff] ELSE @[o]]]
          /\ wpc' = "forward"
       \/ ~Assignable /\ wpc' = "undefined" /\ UNCHANGED mem
    /\ UNCHANGED <<wOff, wBlk, rOff, rBlk, end, history, registered, rpc, seenOff, run>>

\* forward_write_pointer makes the record visible.
ForwardedSlip == wOff + 1
Forwarded == wOff + Size

ForwardWritePointer ==
    /\ wpc = "forward" /\ Alive
    /\ wOff' = Forwarded /\ wpc' = "idle" /\ committed' = committed + 1
    /\ UNCHANGED <<wBlk, rOff, rBlk, end, mem, kinds, registered, received, rpc, seenOff, run>>

\* stop clears run_ and joins the log thread.
Stop ==
    /\ wpc = "idle" /\ Alive
    /\ run' = FALSE /\ wpc' = "joining"
    /\ UNCHANGED <<buffer, history, registered, rpc, seenOff>>

Joined ==
    /\ wpc = "joining" /\ rpc = "stopped" /\ wpc' = "joined"
    /\ UNCHANGED <<buffer, history, registered, rpc, seenOff, run>>

-----------------------------------------------------------------------------
(* The reader: Logger::read_buffer                                         *)

\* check_wrap_read_pointer: at the end of a full block, go to the next one
\* and mark it not full.
AtEndSlip == rOff = end[rBlk]
AtEnd == end[rBlk] # 0 /\ rOff = end[rBlk]
EndsSlip == end
Ends == [end EXCEPT ![NextBlock(rBlk)] = 0]

CheckWrap ==
    \/ AtEnd /\ rBlk' = NextBlock(rBlk) /\ rOff' = 0 /\ end' = Ends
    \/ ~AtEnd /\ UNCHANGED <<rBlk, rOff, end>>

CanRead ==
    /\ rpc = "can_read" /\ CheckWrap /\ rpc' = "load_offset"
    /\ UNCHANGED <<wOff, wBlk, mem, history, registered, wpc, seenOff, run>>

LoadOffset ==
    /\ rpc = "load_offset" /\ seenOff' = wOff /\ rpc' = "load_block"
    /\ UNCHANGED <<buffer, history, registered, wpc, run>>

\* A block other than the writer's is taken to hold something to read.
ReadableSlip == rBlk = wBlk /\ rOff < seenOff
Readable == IF rBlk = wBlk THEN rOff < seenOff ELSE TRUE

LoadBlock ==
    /\ rpc = "load_block"
    /\ rpc' = IF Readable THEN "get_pointer" ELSE "empty"
    /\ UNCHANGED <<buffer, history, registered, wpc, seenOff, run>>

GetReadPointer ==
    /\ rpc = "get_pointer" /\ CheckWrap /\ rpc' = "read"
    /\ UNCHANGED <<wOff, wBlk, mem, history, registered, wpc, seenOff, run>>

\* The whole record k is at the read pointer.
Holds(k) ==
    \A i \in 0 .. SizeOf[kinds[k]] - 1 :
        rOff + i \in Offsets /\ mem[rBlk][rOff + i] = [record |-> k, part |-> i]

\* The registered function formats the record and says how much it read.
\* What is not a record has none, nor has a kind before it is registered: the
\* thread dies of the call.
Formattable(k) == Holds(k) /\ kinds[k] \in registered

Read ==
    /\ rpc = "read"
    /\ \/ \E k \in DOMAIN kinds :
            /\ Formattable(k)
            /\ received' = Append(received, k)
            /\ rOff' = rOff + SizeOf[kinds[k]] /\ rpc' = "can_read"
       \/ /\ \A k \in DOMAIN kinds : ~Formattable(k)
          /\ rpc' = "crashed" /\ UNCHANGED <<received, rOff>>
    /\ UNCHANGED <<wOff, wBlk, rBlk, end, mem, kinds, registered, committed, wpc, seenOff, run>>

\* Nothing to read: sleep and look again, unless run_ has been cleared.
StopsWhenEmptySlip == FALSE
StopsWhenEmpty == ~run

Empty ==
    /\ rpc = "empty"
    /\ rpc' = IF StopsWhenEmpty THEN "stopped" ELSE "can_read"
    /\ UNCHANGED <<buffer, history, registered, wpc, seenOff, run>>

-----------------------------------------------------------------------------
Defined == wpc # "undefined"
Write == StoreBlock \/ StoreOffset \/ CopyRecord \/ ForwardWritePointer \/ Joined
Reader ==
    /\ Defined
    /\ CanRead \/ LoadOffset \/ LoadBlock \/ GetReadPointer \/ Read \/ Empty

Next == Register \/ GetWritePointer \/ Write \/ Stop \/ Reader

\* Both threads are scheduled; a call once begun goes on.
Fairness == WF_vars(Write) /\ WF_vars(Reader)
Spec == Init /\ [][Next]_vars /\ Fairness

-----------------------------------------------------------------------------
(* Calm behaviours: all interleavings but those of a block switch.         *)

\* The writer is changing blocks and has not yet committed a record there.
Switching ==
    /\ committed > 0
    /\ \/ wpc \in {"store_block", "store_offset"}
       \/ wpc \in {"copy", "forward"} /\ wOff = 0

\* ENVIRONMENT: the reader keeps up, it is never a whole block behind; and it
\* takes no step while the writer switches blocks.
CalmWrite == GetWritePointer /\ (wpc' = "store_block" => rBlk = wBlk)
CalmReader == ~Switching /\ Reader
CalmNext == Register \/ CalmWrite \/ Write \/ Stop \/ CalmReader
CalmSpec == Init /\ [][CalmNext]_vars /\ WF_vars(Write) /\ WF_vars(CalmReader)

-----------------------------------------------------------------------------
(* Properties *)

\* The log thread formats the records that were written, each one whole, once
\* and in order, and none before its write has ended (write_buffer and
\* read_buffer, with one thread in the middle of each).
InOrder ==
    /\ rpc # "crashed"
    /\ Len(received) <= committed
    /\ \A i \in DOMAIN received : received[i] = i

\* When can_read says so, a record whose write has ended is there to be read:
\* test_ring_buffer.cpp asserts it is FALSE once everything was read.
CanReadMeansUnread ==
    rpc \in {"get_pointer", "read"} => Len(received) < committed

\* Every record that was written is formatted, unless the logger stops or the
\* process is lost.
EveryRecordFormatted ==
    \A k \in 1 .. MaxRecords : committed >= k ~> (Len(received) >= k \/ ~run \/ ~Defined)

\* stop returns: the log thread sees that it should end, and ends.
StopReturns == wpc = "joining" ~> wpc = "joined"

\* stop ends the log thread only after it has formatted all that was written:
\* defines.h has the records copied to "format in another thread later".
NothingLostAtStop == rpc = "stopped" => Len(received) = committed

\* Text can be written wherever the ring has room for it: the types are
\* registered so that LOG_INFO and the like "can be written/read from log
\* buffer" (logger.h).
TextIsWritable == Defined

=============================================================================
