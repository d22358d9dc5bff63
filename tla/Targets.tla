------------------------------ MODULE Targets ------------------------------
(***************************************************************************)
(* The expansion of a discovery request's target specification into the    *)
(* list of addresses the job scans: one address, a CIDR block or a dashed  *)
(* range.                                                                  *)
(*   src/internal/discovery/targets.go                                     *)
(* An address is a tuple of bytes, the way net.IP holds it.  The width of  *)
(* a byte and the length of an address are parameters, so that all         *)
(* addresses of a small address space can be tried.                        *)
(***************************************************************************)
EXTENDS Integers, Sequences, FiniteSets

CONSTANTS Width,       \* bits of a byte
          Bytes,       \* bytes of an address
          MaxTargets   \* the cap on the length of the list

Bits == Width * Bytes

\* Powers of two, up to the size of the address space.
pow2[n \in 0..Bits] == IF n = 0 THEN 1 ELSE 2 * pow2[n - 1]

ASSUME ConstAssumption ==
    /\ Width \in Nat \ {0}
    /\ Bytes \in Nat \ {0}
    /\ MaxTargets \in 1..(pow2[Bits] - 1)

VARIABLES spec,  \* the parsed specification
          pc,    \* "start", the loops "cidr" and "range", and the outcomes
          cur,   \* the address of the current iteration
          ips    \* the list so far

vars == <<spec, pc, cur, ips>>

-----------------------------------------------------------------------------
Base    == pow2[Width]
Address == [1..Bytes -> 0..(Base - 1)]

\* What net.ParseIP, net.ParseCIDR and the split at the dash can give.
Specs == [kind : {"ip"}, ip : Address]
         \cup [kind : {"cidr"}, ip : Address, len : 0..Bits]
         \cup [kind : {"range"}, start : Address, end : Address]
         \cup [kind : {"unrecognized"}]

\* The bits of byte i that a prefix of length len covers.
Covered(i, len) ==
    LET bits == len - Width * (i - 1)
    IN  IF bits <= 0 THEN 0 ELSE IF bits >= Width THEN Width ELSE bits

\* net.IP.Mask
Mask(ip, len) ==
    [i \in 1..Bytes |-> LET low == pow2[Width - Covered(i, len)] IN (ip[i] \div low) * low]

\* net.IPNet.Contains
Contains(ip, len, a) == Mask(a, len) = Mask(ip, len)

\* Mutant: the carry stops after one byte.
nextIP_OneCarry(ip) ==
    [i \in 1..Bytes |->
        IF i = Bytes \/ (i = Bytes - 1 /\ ip[Bytes] = Base - 1) THEN (ip[i] + 1) % Base ELSE ip[i]]

\* A byte is incremented iff every byte after it overflowed to zero.
nextIP(ip) ==
    [i \in 1..Bytes |->
        IF \A j \in (i + 1)..Bytes : ip[j] = Base - 1 THEN (ip[i] + 1) % Base ELSE ip[i]]

ipToUint32(ip) ==
    LET value[n \in 0..Bytes] == IF n = 0 THEN 0 ELSE value[n - 1] * Base + ip[n]
    IN  value[Bytes]

Full(list) == Len(list) >= MaxTargets

-----------------------------------------------------------------------------
Init == /\ spec \in Specs
        /\ pc = "start"
        /\ cur = [i \in 1..Bytes |-> 0]
        /\ ips = <<>>

Finish(outcome, list) ==
    /\ pc' = outcome
    /\ ips' = list
    /\ UNCHANGED <<spec, cur>>

\* ExpandTargets: which kind of specification it is.
ExpandTargets ==
    /\ pc = "start"
    /\ \/ spec.kind = "ip" /\ Finish("ok", <<spec.ip>>)
       \/ spec.kind = "unrecognized" /\ Finish("error", <<>>)
       \/ /\ spec.kind = "cidr"
          /\ pc' = "cidr" /\ cur' = Mask(spec.ip, spec.len)
          /\ UNCHANGED <<spec, ips>>
       \/ /\ spec.kind = "range"
          /\ ipToUint32(spec.start) > ipToUint32(spec.end)
          /\ Finish("error", <<>>)
       \/ /\ spec.kind = "range"
          /\ ipToUint32(spec.start) <= ipToUint32(spec.end)
          /\ pc' = "range" /\ cur' = spec.start
          /\ UNCHANGED <<spec, ips>>

\* The list does not get any longer: no list at all.
TooMany == Full(ips) /\ Finish("tooMany", <<>>)

\* One iteration of the loop of expandCIDR: the block is left when the next
\* address is not in it, also when that address has wrapped around to zero.
expandCIDR ==
    /\ pc = "cidr"
    /\ \/ ~Contains(spec.ip, spec.len, cur) /\ Finish("ok", ips)
       \/ Contains(spec.ip, spec.len, cur) /\ TooMany
       \/ /\ Contains(spec.ip, spec.len, cur)
          /\ ~Full(ips)
          /\ ips' = Append(ips, cur)
          /\ cur' = nextIP(cur)
          /\ UNCHANGED <<spec, pc>>

\* One iteration of the loop of expandRange.
expandRange ==
    /\ pc = "range"
    /\ \/ TooMany
       \/ ~Full(ips) /\ cur = spec.end /\ Finish("ok", Append(ips, cur))
       \/ /\ ~Full(ips)
          /\ cur # spec.end
          /\ ips' = Append(ips, cur)
          /\ cur' = nextIP(cur)
          /\ UNCHANGED <<spec, pc>>

Next == ExpandTargets \/ expandCIDR \/ expandRange

Spec == Init /\ [][Next]_vars

-----------------------------------------------------------------------------
(* Correctness. *)

\* The reference: the addresses a specification stands for, by their values.
Block == CASE spec.kind = "ip"    -> {spec.ip}
           [] spec.kind = "cidr"  ->
                LET size == pow2[Bits - spec.len]
                IN  {a \in Address : ipToUint32(a) \div size = ipToUint32(spec.ip) \div size}
           [] spec.kind = "range" ->
                {a \in Address : ipToUint32(a) \in ipToUint32(spec.start)..ipToUint32(spec.end)}
           [] OTHER -> {}

\* ExpandTargets returns every address of the block exactly once, in
\* ascending order, also across byte boundaries and at the very end of the
\* address space; it refuses a specification that stands for nothing.  The
\* cap: a block of exactly MaxTargets addresses is accepted, a larger one is
\* refused, and the loop stops there, which is what ends the loop of a block
\* that covers the whole address space.
ExpansionIsExact ==
    /\ pc = "ok" => Len(ips) = Cardinality(Block) /\ \A i \in DOMAIN ips : ips[i] \in Block
    /\ \A i \in 1..(Len(ips) - 1) : ipToUint32(ips[i + 1]) = ipToUint32(ips[i]) + 1
    /\ pc = "error" => Block = {}
    /\ Len(ips) <= MaxTargets
    /\ pc = "tooMany" => Cardinality(Block) > MaxTargets
=============================================================================
