------------------------------- MODULE Header -------------------------------
(***************************************************************************)
(* The 32-bit immediate values that multicast pages and RPCs carry, as the *)
(* driver builds them (drive/sib.c, drive/ib.h) and the servers take them  *)
(* apart (lib/rpc.c, lib/handler.c), and the arithmetic both ends use to   *)
(* find a page: an offset counts pages, a memory block has 2^18 of them.   *)
(***************************************************************************)
EXTENDS Integers

Half == 65536                       \* 2^16
BlockPages == 4 * Half              \* 2^18
OffsetSpan == 1024 * BlockPages      \* 2^28: an offset field is 28 bits
OPEN == 1
COMMIT == 3
QCOMMIT == 7
FLOW == 1
NR_BINDERS == 256
MAX_MEMBLOCK == 128     \* entries of rdma_info and of memblocks

PageNo == 0 .. OffsetSpan - 1
Binder == 0 .. NR_BINDERS - 1

----------------------------------------------------------------------------
(* The driver. *)

\* maruswap_multicast_write: the offset is cut to its field.
flow_header(offset) == FLOW * OffsetSpan + (offset % OffsetSpan)

\* The opcode argument of __ib_rpc for the three calls.
open_opcode_within(offset) == OPEN * OffsetSpan + (offset % BlockPages)     \* mutant
open_opcode(offset) == OPEN * OffsetSpan + offset
commit_opcode == COMMIT * OffsetSpan
qcommit_opcode(count) == QCOMMIT * OffsetSpan + ((count * 256) % OffsetSpan)

\* Bitwise or of two bytes.
OrBytes(a, b) ==
    LET bit(w) == IF (a \div w) % 2 = 1 \/ (b \div w) % 2 = 1 THEN w ELSE 0
    IN bit(1) + bit(2) + bit(4) + bit(8) + bit(16) + bit(32) + bit(64) + bit(128)

\* __ib_rpc: opcode | binder.  The binder is a byte.
imm_data(opcode, binder) == (opcode - (opcode % 256)) + OrBytes(opcode % 256, binder)

\* The binder a reply is for.
reply_binder_short(imm) == imm % 128                                       \* mutant
reply_binder(imm) == imm % 256

\* Where maruswap_rdma_read looks for a page: entry of rdma_info, page in it.
get_num_memblock(offset) == (offset \div BlockPages) % 1024
send_offset(offset) == offset % BlockPages

----------------------------------------------------------------------------
(* The server. *)

interpret_header_half(header) ==                                           \* mutant
    LET off == header % OffsetSpan
    IN [opcode |-> header \div OffsetSpan,
        nr_buffer |-> (off \div (BlockPages \div 2)) % 4096,
        offset |-> off % BlockPages]
interpret_header(header) ==
    LET off == header % OffsetSpan
    IN [opcode |-> header \div OffsetSpan,
        nr_buffer |-> (off \div BlockPages) % 4096,
        offset |-> off % BlockPages]

\* The count __process_rdma_rpc_commit waits for when the call is a qcommit.
qcommit_count(header) == (header \div 256) % (16 * Half)

----------------------------------------------------------------------------
(* The buffers the receives of a server are posted with, as distances from  *)
(* the beginning of the region registered for them.                         *)

PAGE_SIZE == 4096
UD_EXTRA == 40                      \* the global routing header before a datagram
RPC_MAX_EACH_SIZE == 64
RPC_BUFFER_SIZE == RPC_MAX_EACH_SIZE * 1024 + PAGE_SIZE
MCM_MAX_RECV_WR == 4096
MULTICAST_NR_BUFFER == 4 * Half
MULTICAST_BUFFER_SIZE == (UD_EXTRA + PAGE_SIZE) * MULTICAST_NR_BUFFER

Receives == 0 .. MCM_MAX_RECV_WR - 1

rpc_buffer(i) == (i * RPC_MAX_EACH_SIZE) .. (i * RPC_MAX_EACH_SIZE + RPC_MAX_EACH_SIZE - 1)
multicast_buffer(i) ==
    (i * (UD_EXTRA + PAGE_SIZE)) .. (i * (UD_EXTRA + PAGE_SIZE) + UD_EXTRA + PAGE_SIZE - 1)
=============================================================================
