------------------------------ MODULE CoreRules ------------------------------
(***************************************************************************)
(* The rules of dg-core: which limits a policy may have and how a graph    *)
(* may tighten them, how many bytes a tensor needs, what reshaping and     *)
(* copying keep, which buffers the host can read, how nibbles are packed.  *)
(***************************************************************************)
EXTENDS RuleValues

-----------------------------------------------------------------------------
(* Limits (resource.rs, process_policy.rs).  A policy is a function of     *)
(* its field names.                                                        *)

PolicyFields == {"max_config_bytes", "max_include_depth", "max_include_count", "max_nodes",
                 "max_connections", "max_tensor_bytes", "max_frame_bytes", "max_model_bytes",
                 "max_buffer_packets", "max_buffer_bytes"}

check_nonzero(v) == v # 0
check_representable(v) == v <= U32Max

PolicyValid(p) == \A f \in PolicyFields : check_nonzero(p[f]) /\ check_representable(p[f])

\* A graph may only tighten; asking for more is refused, not clamped.
effective_for(hard, requested) ==
    LET effective == [f \in PolicyFields |-> Min({hard[f], requested[f]})] IN
    IF (\E f \in PolicyFields : requested[f] > hard[f]) \/ ~PolicyValid(effective)
    THEN Err ELSE effective

WithinLimit(policy, field, n) == n <= policy[field]

\* StreamRegistryLimits::validate; the time to live is 64 bits wide.
RegistryLimitsValid(l) ==
    /\ \A f \in {"max_streams", "max_subscribers_per_stream", "max_bootstrap_bytes",
                 "max_bootstrap_frames"} : check_nonzero(l[f]) /\ check_representable(l[f])
    /\ check_nonzero(l.idle_ttl_seconds)

\* DeadlinePolicy::validate
DeadlinesValid(d) ==
    /\ \A f \in {"connect_ms", "recv_poll_ms", "io_ms", "drain_ms", "shutdown_ms"} :
         check_nonzero(d[f])
    /\ d.connect_ms <= d.io_ms
    /\ d.drain_ms <= d.shutdown_ms

\* ProcessRuntimePolicy::validate (memory_pool is the answer of its own check)
ProcessPolicyValid(p) ==
    /\ PolicyValid(p.resource) /\ p.memory_pool
    /\ RegistryLimitsValid(p.stream_registry)
    /\ DeadlinesValid(p.deadlines)
    /\ check_nonzero(p.affinity_ttl_seconds)
    /\ \A f \in {"affinity_capacity", "metrics_serialization_bytes"} :
         check_nonzero(p[f]) /\ check_representable(p[f])

-----------------------------------------------------------------------------
(* Shapes and strides (shape.rs)                                           *)

element_count(dims) == FoldLeft(CheckedMul, 1, dims)

\* From the last dimension to the first; the product before the last step is
\* the stride of the first dimension, and even the step after it may not overflow.
contiguous_for(dims) ==
    LET Step(dim, acc) ==
          [strides |-> <<acc.stride>> \o acc.strides, stride |-> CheckedMul(acc.stride, dim)]
        r == FoldRight(Step, dims, [strides |-> <<>>, stride |-> 1])
    IN  IF Err \in ToSet(r.strides) \cup {r.stride} THEN Err ELSE r.strides

is_contiguous_for(strides, dims) == strides = contiguous_for(dims)

physical_element_count(strides, dims) ==
    IF Len(strides) # Len(dims) THEN Err
    ELSE IF 0 \in ToSet(dims) THEN 0
    ELSE IF 0 \in ToSet(strides) THEN Err
    ELSE FoldLeft(CheckedAdd, 1, [i \in 1..Len(dims) |-> CheckedMul(dims[i] - 1, strides[i])])

-----------------------------------------------------------------------------
(* Data types (datatype.rs): [bits, lanes]                                 *)

size_in_bits(t) == t.bits * t.lanes
bytes_per_element_ceil(t) == DivCeil(size_in_bits(t), 8)

storage_bytes_for_elements(t, n) ==
    LET bits == CheckedMul(size_in_bits(t), n) IN IF bits = Err THEN Err ELSE DivCeil(bits, 8)

storage_bytes_for_shape(t, dims) == storage_bytes_for_elements(t, element_count(dims))

\* Two values of four bits in a byte, the first in its low half.
pack_nibbles(v) ==
    [i \in 1..DivCeil(Len(v), 2) |->
        v[2 * i - 1] + 16 * (IF 2 * i <= Len(v) THEN v[2 * i] ELSE 0)]

unpack_nibbles(b, count) ==
    [i \in 1..Min({count, 2 * Len(b)}) |->
        IF i % 2 = 1 THEN b[(i + 1) \div 2] % 16 ELSE b[i \div 2] \div 16]

pack_int4(v) ==
    IF \E i \in 1..Len(v) : v[i] < -8 \/ v[i] > 7 THEN Err
    ELSE pack_nibbles([i \in 1..Len(v) |-> v[i] % 16])

unpack_int4(b, count) ==
    LET raw == unpack_nibbles(b, count)
    IN  [i \in 1..Len(raw) |-> IF raw[i] >= 8 THEN raw[i] - 16 ELSE raw[i]]

pack_float4(v) == IF \E i \in 1..Len(v) : v[i] > 15 THEN Err ELSE pack_nibbles(v)
unpack_float4(b, count) == unpack_nibbles(b, count)

-----------------------------------------------------------------------------
(* Buffers (buffer.rs): [device, len, storage, bytes], the storage "Host", *)
(* "Mapped" (external with host bytes) or "Device" (external, no bytes).   *)

from_host_bytes(device, size, bytes) ==
    IF Len(bytes) # size THEN Err
    ELSE [device |-> device, len |-> size, storage |-> "Host", bytes |-> bytes]

from_external_with_host_bytes(device, size, bytes) ==
    IF Len(bytes) # size THEN Err
    ELSE [device |-> device, len |-> size, storage |-> "Mapped", bytes |-> bytes]

from_external(device, size) ==
    [device |-> device, len |-> size, storage |-> "Device", bytes |-> <<>>]

is_host_readable(b) == b.storage # "Device"

read_bytes(b) == IF is_host_readable(b) THEN b.bytes ELSE Err

\* The mapper of an external buffer is the caller's; its answer is checked.
map_with(b, mapped) ==
    IF is_host_readable(b) THEN read_bytes(b)
    ELSE IF mapped = Err THEN Err ELSE IF Len(mapped) # b.len THEN Err ELSE mapped

\* Moved when nobody shares the storage, cloned otherwise: the same bytes.
try_into_host_bytes(b) == read_bytes(b)

write_from_slice(b, src) ==
    IF Len(src) # b.len \/ ~is_host_readable(b) THEN Err
    ELSE IF Len(src) # Len(b.bytes) THEN Err ELSE [b EXCEPT !.bytes = src]

copy_into(b, n) == IF n # b.len THEN Err ELSE read_bytes(b)

CopyBuffer(src, dst) ==
    IF read_bytes(src) = Err THEN Err ELSE write_from_slice(dst, read_bytes(src))

-----------------------------------------------------------------------------
(* Tensors (tensor.rs): a description [dims, strides, dtype, device] and a *)
(* buffer.                                                                 *)

storage_bytes(d) ==
    LET n == IF d.strides = None THEN element_count(d.dims)
             ELSE physical_element_count(d.strides, d.dims)
    IN  IF n = Err THEN Err ELSE storage_bytes_for_elements(d.dtype, n)

\* The limit is checked before the device is asked for memory.
allocate_with_policy(d, policy) ==
    LET n == storage_bytes(d) IN
    IF n = Err THEN Err ELSE IF ~WithinLimit(policy, "max_tensor_bytes", n) THEN Err ELSE n

from_buffer(d, b) ==
    IF storage_bytes(d) = b.len /\ b.device = d.device THEN [desc |-> d, buffer |-> b] ELSE Err

reshape(t, dims) ==
    IF \/ element_count(t.desc.dims) = Err \/ element_count(dims) = Err
       \/ element_count(t.desc.dims) # element_count(dims)
       \/ t.desc.strides # None /\ ~is_contiguous_for(t.desc.strides, t.desc.dims)
       \/ contiguous_for(dims) = Err
    THEN Err
    ELSE [t EXCEPT !.desc.dims = dims, !.desc.strides = contiguous_for(dims)]

CopyTensor(src, dst) ==
    IF src.buffer.len # dst.buffer.len \/ CopyBuffer(src.buffer, dst.buffer) = Err THEN Err
    ELSE [dst EXCEPT !.buffer = CopyBuffer(src.buffer, dst.buffer)]
=============================================================================
