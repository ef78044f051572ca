----------------------------- MODULE WindowRecoding ----------------------------
(***************************************************************************)
(* Signed-window recoding of a scalar and the multiplication by G built on *)
(* it, computed twice: by the host (scalar_bytes_to_point) and by the      *)
(* circuit that proves T = mG (enforce_secp_fixed_base_mul).               *)
(*                                                                         *)
(* A 32-byte string is one number of TotalBits bits.  A point of secp256k1 *)
(* is its discrete logarithm modulo the group order; add_mixed, complete   *)
(* by its case selection, is the addition of logarithms.  The two loops    *)
(* run window by window, in step.                                          *)
(***************************************************************************)
EXTENDS Positional

CONSTANTS
    WindowSize,     \* WINDOW_SIZE, 6 in the code
    NumWindows,     \* NUM_WINDOWS, 43
    TotalBits,      \* 256
    Order           \* the order of G

ASSUME ShapeAssumption ==
    /\ WindowSize \in Nat \ {0, 1} /\ NumWindows \in Nat \ {0}
    /\ TotalBits \in Nat /\ Order \in Nat \ {0}
    \* the two bits of slack that keep the last carry at 0
    /\ TotalBits <= WindowSize * NumWindows - 2

Base == TwoTo(WindowSize)
Half == TwoTo(WindowSize - 1)        \* TABLE_LEN, and the literal 32
Weight(w) == TwoTo(WindowSize * w)

Bit(m, i) == IF i < TotalBits THEN (m \div TwoTo(i)) % 2 ELSE 0
WindowBits(m, w) == [b \in 0 .. WindowSize - 1 |-> Bit(m, w * WindowSize + b)]

Number(bits, n) == DigitsValue(n, bits, 1)

--------------------------------------------------------------------------------
\* Host: digit and next carry from the window's bits and the carry.

HostDigit(chunk) ==
    LET d == IF chunk >= Base THEN chunk - Base ELSE chunk
    IN  IF d = Half THEN 0 ELSE IF d > Half THEN d - Base ELSE d

\* Mutant: the old carry is never cleared.
BugHostCarry(chunk, carry) ==
    IF HostDigit(chunk) < 0 \/ carry = 1 \/ chunk = Half THEN 1
    ELSE (chunk - HostDigit(chunk)) \div Base

\* The branch for d > Half leaves the old carry, which is recomputed only if 0.
HostCarry(chunk, carry) ==
    LET d == IF chunk >= Base THEN chunk - Base ELSE chunk
        kept == IF d = Half THEN 1 ELSE IF d > Half THEN carry ELSE 0
    IN  IF kept = 0 THEN (chunk - HostDigit(chunk)) \div Base ELSE kept

--------------------------------------------------------------------------------
\* Circuit: the same window over Boolean wires.

\* The carry rippled through the window, with the carry out on top.
ChunkBits(bits, carry) ==
    LET into[b \in 0 .. WindowSize] ==
            IF b = 0 THEN carry ELSE bits[b - 1] * into[b - 1]
    IN  [b \in 0 .. WindowSize |->
            IF b = WindowSize THEN into[b] ELSE (bits[b] + into[b]) % 2]

\* subtract_from_sixty_four: Base - bits by a borrow chain, cut to
\* MAG_SIZE bits.
SubtractFromBase(bits) ==
    LET a(b) == IF b = WindowSize THEN 1 ELSE 0
        borrow[b \in 0 .. WindowSize] ==
            IF b = 0 THEN 0
            ELSE IF \/ a(b - 1) = 0 /\ (bits[b - 1] = 1 \/ borrow[b - 1] = 1)
                    \/ bits[b - 1] = 1 /\ borrow[b - 1] = 1
                 THEN 1 ELSE 0
    IN  [b \in 0 .. WindowSize - 2 |-> (a(b) + bits[b] + borrow[b]) % 2]

\* What the muxes pick from FIXED_G_TABLE[w], as a signed digit.
CircuitDigit(bits) ==
    LET chunk == Number(bits, WindowSize + 1)
        mag == IF chunk > Half THEN SubtractFromBase(bits)
               ELSE [b \in 0 .. WindowSize - 2 |-> IF chunk = Half THEN 0 ELSE bits[b]]
    IN  IF chunk > Half THEN - Number(mag, WindowSize - 1) ELSE Number(mag, WindowSize - 1)

\* Mutant: the test for equality dropped.
BugCircuitCarry(bits) == IF Number(bits, WindowSize + 1) > Half THEN 1 ELSE 0

CircuitCarry(bits) == IF Number(bits, WindowSize + 1) >= Half THEN 1 ELSE 0

--------------------------------------------------------------------------------
VARIABLES
    scalar,     \* the 32 bytes, as a number
    window,     \* the next window of both loops
    host,       \* digits, zero from window on, carry and accumulated point
    circuit

recodeVars == <<scalar, window, host, circuit>>

Digits == (1 - Half) .. (Half - 1)      \* a sign and an index into the table

Fresh == [digits |-> [w \in 0 .. NumWindows - 1 |-> 0], carry |-> 0, point |-> 0]

RecodeInit ==
    /\ scalar \in 0 .. TwoTo(TotalBits) - 1
    /\ window = 0 /\ host = Fresh /\ circuit = Fresh

\* acc += digit * table[w]
Accumulate(r, w, digit, carry) ==
    [digits |-> [r.digits EXCEPT ![w] = digit],
     carry  |-> carry,
     point  |-> (r.point + digit * Weight(w)) % Order]

Step ==
    /\ window < NumWindows
    /\ LET bits == WindowBits(scalar, window)
           chunk == host.carry + Number(bits, WindowSize)
           wires == ChunkBits(bits, circuit.carry)
       IN  /\ host' = Accumulate(host, window, HostDigit(chunk),
                                 HostCarry(chunk, host.carry))
           /\ circuit' = Accumulate(circuit, window, CircuitDigit(wires),
                                    CircuitCarry(wires))
    /\ window' = window + 1
    /\ UNCHANGED scalar

RecodeNext == Step

RecodeSpec == RecodeInit /\ [][RecodeNext]_recodeVars

Done == window = NumWindows

\* The constraints enforce_secp_fixed_base_mul leaves for the public point t.
Satisfied(t) == t # 0 /\ circuit.carry = 0 /\ circuit.point = t

--------------------------------------------------------------------------------
\* Host arithmetic and circuit wires recode alike, window by window, so the
\* bytes satisfy the circuit for the point the host made from them, the last
\* carry included (fixed_base_matches_host).
HostMatchesCircuit ==
    /\ host = circuit
    /\ Done /\ host.point # 0 => Satisfied(host.point)

\* The reference: a carry leaves the windows below w when they exceed the
\* number whose digits are all Half - 1.
Repunit(w) == (Weight(w) - 1) \div (Base - 1)
CarryInto(m, w) == IF m % Weight(w) > (Half - 1) * Repunit(w) THEN 1 ELSE 0
\* The windows whose bits and carry come to exactly Half.
Window(m, w) == (m \div Weight(w)) % Base
IsHalf(m, w) == Window(m, w) + CarryInto(m, w) = Half

\* What the digits are worth at every window boundary: the low bits of the
\* scalar, plus Half for each window that came to exactly Half, which is
\* recoded as digit 0 and carry 1 as if it were Base.  So the point is right for
\* the scalars without such a window, and off by these amounts for the others.
\* Every digit is a sign and a magnitude below TABLE_LEN, so the lookup never
\* leaves the table.
RecodedValue ==
    /\ host.digits \in [0 .. NumWindows - 1 -> Digits] /\ host.carry \in {0, 1}
    /\ DigitsValue(window, host.digits, WindowSize) + host.carry * Weight(window)
         = (scalar % Weight(window))
           + DigitsValue(window, [w \in 0 .. window - 1 |-> IF IsHalf(scalar, w) THEN Half ELSE 0],
                   WindowSize)

\* host_window_table_matches_scalar_mul: the point is generator() * scalar.
ScalarTimesG == Done => host.point = scalar % Order

================================================================================
