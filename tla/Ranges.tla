------------------------------- MODULE Ranges -------------------------------
(* The range parsers of xutil (engine_ip_range.cpp).  The text is          *)
(* abstracted to what the C functions find in it: the kind of each         *)
(* comma-separated token and the numbers in it.  Words have WordBits bits  *)
(* instead of 32, ports PortBits instead of 16; an IPv4 address is one     *)
(* word of four "bytes", an IPv6 address four words of two groups each.    *)
EXTENDS Integers, Sequences, FiniteSetsExt, Bitwise

CONSTANTS
    WordBits,       \* 32 in the code; a multiple of 4
    PortBits,       \* 16 in the code
    SCAN_PORT_MIN,  \* 16 in the code
    TokenLists,     \* the lists of tokens the parsers are called with
    RangeHabits     \* the rules their caller keeps, see below

(* portFits     the ports written are below 2^16                           *)
AllRangeHabits == {"portFits"}

ASSUME RangesAssumption ==
    /\ WordBits \in {4, 8, 16, 32} /\ PortBits \in 1 .. 31
    /\ SCAN_PORT_MIN \in 0 .. 2^PortBits - 1
    /\ RangeHabits \subseteq AllRangeHabits

Ones == 2^WordBits - 1
SCAN_PORT_MAX == 2^PortBits - 1
AddressBits(v) == IF v = 4 THEN WordBits ELSE 4 * WordBits

(* A token has a kind: "subnet" (1.2.3.4/24), "range" (1.2.3.4-1.2.3.9),   *)
(* "short" (1.2.3.4-9), "single", "ports" (2-1000), "port", or "bad" when  *)
(* an address in it cannot be read.  v is 4 or 6, ip and to are sequences  *)
(* of words, n and m numbers.                                              *)
Failed == [ok |-> FALSE, start |-> <<>>, end |-> <<>>]
Parsed(a, b) == [ok |-> TRUE, start |-> a, end |-> b]

Begin(w, i_mask) == w & ((Ones * 2^(WordBits - i_mask)) % 2^WordBits)

\* Mutant: one address too many.
End_off_by_one(w, i_mask) == (Begin(w, i_mask) + 2^(WordBits - i_mask)) % 2^WordBits

(* The two halves of CONVERT_TO_BEGIN_END: the mask is applied in 64 bits  *)
(* and cut to a word.                                                      *)
End(w, i_mask) == (Begin(w, i_mask) + (Ones \div 2^i_mask)) % 2^WordBits

load_ipv4_subnet(ip, i_mask) ==
    IF i_mask > WordBits THEN Failed
    ELSE Parsed(<<Begin(ip[1], i_mask)>>, <<End(ip[1], i_mask)>>)

(* The word that the prefix ends in, 1 .. 4: the chain of tests of i_mask  *)
(* against 96, 64 and 32; everything else is the first word.               *)
MaskWord(i_mask) ==
    IF i_mask > WordBits /\ i_mask <= 4 * WordBits
    THEN (i_mask - 1) \div WordBits + 1
    ELSE 1

load_ipv6_subnet(ip, i_mask) ==
    LET k == MaskWord(i_mask)
        in == i_mask - (k - 1) * WordBits
    IN  Parsed([i \in 1 .. 4 |-> IF i < k THEN ip[i] ELSE IF i = k THEN Begin(ip[i], in) ELSE 0],
               [i \in 1 .. 4 |-> IF i < k THEN ip[i] ELSE IF i = k THEN End(ip[i], in) ELSE Ones])

(* The last byte (IPv4) or group (IPv6) of an address replaced by n; an    *)
(* n that does not fit is not an address.                                  *)
TailBits(v) == IF v = 4 THEN WordBits \div 4 ELSE WordBits \div 2
Splice(v, ip, n) == [ip EXCEPT ![Len(ip)] = (@ \div 2^TailBits(v)) * 2^TailBits(v) + n]

engine_ip_parse_range(t) ==
    CASE t.kind = "subnet" /\ t.v = 4 -> load_ipv4_subnet(t.ip, t.n)
      [] t.kind = "subnet" /\ t.v = 6 -> load_ipv6_subnet(t.ip, t.n)
      [] t.kind = "range" -> Parsed(t.ip, t.to)
      [] t.kind = "short" -> IF t.n < 2^TailBits(t.v) THEN Parsed(t.ip, Splice(t.v, t.ip, t.n))
                             ELSE Failed
      [] t.kind = "single" -> Parsed(t.ip, t.ip)
      [] OTHER -> Failed

(* The fields are unsigned shorts: atoi's value is cut before it is        *)
(* tested.                                                                 *)
Short(n) == n % 2^PortBits

port_parse_range(t) ==
    LET start_port == Short(t.n)
        end_port == IF t.kind = "ports" THEN Short(t.m) ELSE start_port
    IN  IF \/ start_port < SCAN_PORT_MIN \/ start_port > SCAN_PORT_MAX
           \/ end_port < SCAN_PORT_MIN \/ end_port > SCAN_PORT_MAX
           \/ end_port < start_port
        THEN Failed ELSE Parsed(<<start_port>>, <<end_port>>)

IsPort(t) == t.kind \in {"port", "ports"}
ParseToken(t) == IF IsPort(t) THEN port_parse_range(t) ELSE engine_ip_parse_range(t)

-----------------------------------------------------------------------------
(* engine_ip_parse_ranges and port_parse_ranges: one step per token.       *)
VARIABLES
    toks,       \* the tokens of the call
    maxCnt,     \* the size of the caller's array
    ranges,     \* the array, as far as it is written
    count,      \* *ipRangesCnt; -1 before it is written
    res         \* "idle", "run", "ok" or "failed"

rangeVars == <<toks, maxCnt, ranges, count, res>>

RangeInit == toks = <<>> /\ maxCnt = 0 /\ ranges = <<>> /\ count = -1 /\ res = "idle"

(* An IPv6 prefix above 128, which the code does not reject, would shift   *)
(* by more bits than a word has: no list has one.                          *)
Kept(t) ==
    /\ t.kind = "subnet" /\ t.v = 6 => t.n <= 4 * WordBits
    /\ "portFits" \in RangeHabits /\ IsPort(t) => t.n < 2^PortBits /\ t.m < 2^PortBits

parse_ranges(list, max) ==
    /\ res = "idle" /\ \A i \in DOMAIN list : Kept(list[i])
    /\ toks' = list /\ maxCnt' = max
    /\ res' = IF list = <<>> THEN "failed" ELSE "run"
    /\ UNCHANGED <<ranges, count>>

TooMany == Len(ranges) >= maxCnt

parse_next ==
    /\ res = "run" /\ Len(ranges) < Len(toks)
    /\ LET r == ParseToken(toks[Len(ranges) + 1])
       IN  IF TooMany \/ ~r.ok
           THEN res' = "failed" /\ UNCHANGED ranges
           ELSE ranges' = Append(ranges, r) /\ UNCHANGED res
    /\ UNCHANGED <<toks, maxCnt, count>>

parse_done ==
    /\ res = "run" /\ Len(ranges) = Len(toks)
    /\ count' = Len(ranges) /\ res' = "ok"
    /\ UNCHANGED <<toks, maxCnt, ranges>>

RangeNext ==
    \/ \E list \in TokenLists, max \in 1 .. 2 : parse_ranges(list, max)
    \/ parse_next \/ parse_done

-----------------------------------------------------------------------------
(* The reference: an address as one number, and the addresses a token      *)
(* stands for as a set.                                                    *)
Number(ip) ==
    IF Len(ip) = 1 THEN ip[1]
    ELSE ((ip[1] * 2^WordBits + ip[2]) * 2^WordBits + ip[3]) * 2^WordBits + ip[4]

SamePrefix(v, a, b, n) == a \div 2^(AddressBits(v) - n) = b \div 2^(AddressBits(v) - n)

(* r bounds the token's subnet: its ends are in it, and the addresses just *)
(* outside are not.                                                        *)
IsSubnet(t, r) ==
    LET a == Number(t.ip)
        lo == Number(r.start)
        hi == Number(r.end)
    IN  /\ lo <= a /\ a <= hi
        /\ SamePrefix(t.v, lo, a, t.n) /\ SamePrefix(t.v, hi, a, t.n)
        /\ lo > 0 => ~SamePrefix(t.v, lo - 1, a, t.n)
        /\ hi < 2^AddressBits(t.v) - 1 => ~SamePrefix(t.v, hi + 1, a, t.n)

Means(t, r) ==
    CASE t.kind = "subnet" -> IsSubnet(t, r)
      [] IsPort(t) -> r.start = <<t.n>> /\ r.end = <<IF t.kind = "ports" THEN t.m ELSE t.n>>
                      /\ SCAN_PORT_MIN <= t.n /\ r.start[1] <= r.end[1]
      [] t.kind = "range" -> r.start = t.ip /\ r.end = t.to
      [] t.kind = "short" -> /\ r.start = t.ip
                             /\ Number(r.end) % 2^TailBits(t.v) = t.n
                             /\ SamePrefix(t.v, Number(r.end), Number(t.ip), AddressBits(t.v) - TailBits(t.v))
      [] OTHER -> r.start = t.ip /\ r.end = t.ip

(* A list is accepted only if every token is, none is skipped, and each    *)
(* stored range is the one the token means: a subnet's first and last      *)
(* address across the word boundaries of IPv6, and the ports as written;   *)
(* the array is never overrun and a failed call leaves the count alone     *)
(* (engine_ip_range.cpp:376-498).                                          *)
RangesRight ==
    /\ \A i \in DOMAIN ranges : Means(toks[i], ranges[i])
    /\ Len(ranges) <= maxCnt
    /\ res = "ok" <=> count # -1
    /\ res = "ok" => count = Len(toks)
=============================================================================
