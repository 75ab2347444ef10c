-------------------------------- MODULE CpuProofs --------------------------------
(***************************************************************************)
(* The simulator, for words of every width and programs of any length:     *)
(* what cmpl computes, that registers, memory and program counter keep     *)
(* their ranges, and that every conditional jump decides the comparison    *)
(* that the last cmpl made.                                                *)
(***************************************************************************)
EXTENDS Cpu, TLAPS, WellFoundedInduction

-----------------------------------------------------------------------------
(* What cmpl computes.                                                     *)

LEMMA Width == /\ WordValues \in Nat /\ INT_MIN \in Int /\ INT_MAX \in Int
               /\ WordValues = -2 * INT_MIN /\ INT_MAX = -INT_MIN - 1 /\ INT_MIN < 0
<1>1. WordValues \in Nat /\ WordValues % 2 = 0 /\ 2 * STACK_SIZE < WordValues /\ STACK_SIZE \in Nat \ {0}
    BY CpuAssumption DEF WordValues
<1> QED
    BY <1>1 DEF INT_MIN, INT_MAX

\* The remainder of a number that is less than one divisor off the range.
LEMMA Remainder == ASSUME NEW w \in Nat \ {0}, NEW n \in -w .. 2 * w - 1
                   PROVE  n % w = IF n < 0 THEN n + w ELSE IF n < w THEN n ELSE n - w
<1>1. CASE n < 0
  <2>1. n = (-1) * w + (n + w) /\ n + w \in 0 .. w - 1
    BY <1>1
  <2> QED
    BY <1>1, <2>1
<1>2. CASE n >= 0 /\ n < w
    BY <1>2
<1>3. CASE n >= w
    BY <1>3
<1> QED
    BY <1>1, <1>2, <1>3

\* The difference of two ints, wrapped around, is off by the width or exact.
LEMMA SignedDifference ==
    ASSUME NEW a \in INT_MIN .. INT_MAX, NEW b \in INT_MIN .. INT_MAX
    PROVE  Signed(b - a) = IF b - a < INT_MIN THEN b - a + WordValues
                           ELSE IF b - a > INT_MAX THEN b - a - WordValues ELSE b - a
<1> DEFINE n == b - a - INT_MIN
<1>1. n \in -WordValues .. 2 * WordValues - 1 /\ WordValues \in Nat \ {0}
    BY Width
<1>2. n % WordValues = IF n < 0 THEN n + WordValues
                       ELSE IF n < WordValues THEN n ELSE n - WordValues
    BY <1>1, Remainder
<1>3. Signed(b - a) = (n % WordValues) + INT_MIN
    BY DEF Signed
<1> HIDE DEF n
<1>4. Signed(b - a) = (IF n < 0 THEN n + WordValues
                       ELSE IF n < WordValues THEN n ELSE n - WordValues) + INT_MIN
    BY <1>2, <1>3
<1> QED
    BY <1>4, Width DEF n

\* The sign and the overflow of the difference differ exactly when reg2 is less
\* than reg1, in both builds, for every pair but the one that is misjudged: what
\* jl, jle and jge rely on (simulator.c:252-258, 276, 284, 292).
THEOREM SignAndOverflow ==
    ASSUME NEW how \in {"wraps", "exact"},
           NEW reg1 \in INT_MIN .. INT_MAX, NEW reg2 \in INT_MIN .. INT_MAX,
           ~Misjudged(how, reg1, reg2)
    PROVE  reg2 < reg1 <=> (Diff(how, reg1, reg2) < 0 <=> ~Overflows(how, reg1, reg2))
<1>1. CASE how = "exact"
    BY <1>1, Width DEF Diff, Overflows
<1>2. CASE how = "wraps"
    BY <1>2, SignedDifference, Width DEF Diff, Overflows, Misjudged
<1> QED
    BY <1>1, <1>2

\* The pair is misjudged indeed: 0 counts as less than the least integer.
THEOREM Misjudgement ==
    (Diff("wraps", INT_MIN, 0) < 0) /\ ~Overflows("wraps", INT_MIN, 0) /\ ~(0 < INT_MIN)
    BY SignedDifference, Width DEF Diff, Overflows

\* In the build that compares exact values no overflow is ever noticed, and in the
\* other one every overflow but that of the same pair: for the bit of eflags that
\* Specs.md describes at line 349.
THEOREM OverflowNoticed ==
    ASSUME NEW reg1 \in INT_MIN .. INT_MAX, NEW reg2 \in INT_MIN .. INT_MAX
    PROVE  /\ ~Overflows("exact", reg1, reg2)
           /\ ~Misjudged("wraps", reg1, reg2) =>
                 (Overflows("wraps", reg1, reg2) <=> reg2 - reg1 \notin INT_MIN .. INT_MAX)
<1>1. ~Overflows("exact", reg1, reg2)
    BY Width DEF Diff, Overflows
<1>2. ASSUME ~Misjudged("wraps", reg1, reg2)
      PROVE  Overflows("wraps", reg1, reg2) <=> reg2 - reg1 \notin INT_MIN .. INT_MAX
  <2>1. Diff("wraps", reg1, reg2) = IF reg2 - reg1 < INT_MIN THEN reg2 - reg1 + WordValues
                                    ELSE IF reg2 - reg1 > INT_MAX THEN reg2 - reg1 - WordValues
                                    ELSE reg2 - reg1
    BY SignedDifference DEF Diff
  <2> HIDE DEF Diff
  <2>2. CASE reg2 - reg1 < INT_MIN
    BY <2>1, <2>2, Width DEF Overflows
  <2>3. CASE reg2 - reg1 > INT_MAX
    BY <1>2, <2>1, <2>3, Width DEF Overflows, Misjudged
  <2>4. CASE reg2 - reg1 \in INT_MIN .. INT_MAX
    BY <2>1, <2>4, Width DEF Overflows
  <2> QED
    BY <2>2, <2>3, <2>4, Width
<1> QED
    BY <1>1, <1>2

-----------------------------------------------------------------------------
(* Load, whose value is a sum defined by recursion.                        *)

\* A set of natural numbers has a least element.
LEMMA Least ==
    ASSUME NEW S \in SUBSET Nat, S # {}
    PROVE  \E n \in S : \A m \in S : n <= m
<1>0. OpToRel(<, Nat) = {ss \in Nat \X Nat : ss[1] < ss[2]}
    BY Zenon DEF OpToRel
<1> DEFINE R == OpToRel(<, Nat)
<1>1. \E x \in S : \A y \in S : ~ (<<y, x>> \in R)
    BY NatLessThanWellFounded, WFMin
<1>2. R = {ss \in Nat \X Nat : ss[1] < ss[2]}
    BY <1>0
<1> HIDE DEF R
<1>3. PICK x \in S : \A y \in S : ~ (<<y, x>> \in R)
    BY <1>1
<1>4. ASSUME NEW y \in S, y < x PROVE FALSE
    <2>1. <<y, x>> \in Nat \X Nat /\ <<y, x>>[1] < <<y, x>>[2]
        BY <1>4
    <2>2. <<y, x>> \in R
        BY <2>1, <1>2
    <2> QED
        BY <2>2, <1>3
<1> QED
    BY <1>4, <1>3

\* Induction over the natural numbers.
LEMMA InductionOnNat ==
    ASSUME NEW S \in SUBSET Nat, 0 \in S, \A n \in Nat : n \in S => n + 1 \in S
    PROVE  S = Nat
<1> SUFFICES ASSUME S # Nat PROVE FALSE
    OBVIOUS
<1> DEFINE T == Nat \ S
<1>1. T \in SUBSET Nat /\ T # {}
    OBVIOUS
<1> HIDE DEF T
<1>2. PICK n \in T : \A m \in T : n <= m
    BY <1>1, Least
<1>3. n \in Nat /\ n \notin S /\ n # 0
    BY <1>1, <1>2 DEF T
<1>4. n - 1 \in Nat /\ n - 1 \notin T
    BY <1>2, <1>3
<1>5. n - 1 \in S
    BY <1>4 DEF T
<1>6. (n - 1) + 1 \in S
    BY <1>4, <1>5
<1> QED
    BY <1>3, <1>6

\* An int is a word.
LEMMA SignedIsWord == ASSUME NEW n \in Int PROVE Signed(n) \in INT_MIN .. INT_MAX
<1>1. WordValues \in Nat \ {0} /\ n - INT_MIN \in Int
    BY Width
<1>2. (n - INT_MIN) % WordValues \in 0 .. WordValues - 1
    BY <1>1
<1> QED
    BY <1>2, Width DEF Signed

\* A word is an unsigned int.
LEMMA UnsignedIsWord == ASSUME NEW n \in Int PROVE Unsigned(n) \in 0 .. WordValues - 1
<1>1. WordValues \in Nat \ {0}
    BY Width
<1> QED
    BY <1>1 DEF Unsigned

\* The sum of the first n terms is defined for every n, by the recursion of Load.
LEMMA SumsExist ==
    ASSUME NEW t, NEW w \in Nat
    PROVE  \E f : f = [i \in 0 .. w |-> IF i = 0 THEN 0 ELSE f[i-1] + t[i]]
<1> DEFINE S == {n \in Nat : \E f : f = [i \in 0 .. n |-> IF i = 0 THEN 0 ELSE f[i-1] + t[i]]}
<1>1. 0 \in S
    <2> DEFINE f == [i \in 0 .. 0 |-> 0]
    <2>1. f = [i \in 0 .. 0 |-> IF i = 0 THEN 0 ELSE f[i-1] + t[i]]
        OBVIOUS
    <2> QED
        BY <2>1
<1>2. ASSUME NEW n \in Nat, n \in S PROVE n + 1 \in S
    <2>1. PICK f : f = [i \in 0 .. n |-> IF i = 0 THEN 0 ELSE f[i-1] + t[i]]
        BY <1>2
    <2> DEFINE g == [i \in 0 .. n + 1 |-> IF i = n + 1 THEN f[n] + t[n+1] ELSE f[i]]
    <2>2. \A i \in 0 .. n : f[i] = IF i = 0 THEN 0 ELSE f[i-1] + t[i]
        BY <2>1
    <2>3. ASSUME NEW i \in 0 .. n + 1
          PROVE  g[i] = IF i = 0 THEN 0 ELSE g[i-1] + t[i]
        <3>1. CASE i = n + 1
            <4>1. g[i] = f[n] + t[n+1] /\ g[n] = f[n] /\ i - 1 = n /\ i # 0
                BY <3>1
            <4> QED
                BY <4>1, <3>1
        <3>2. CASE i = 0
            <4>1. g[i] = f[i] /\ i \in 0 .. n
                BY <3>2
            <4> QED
                BY <4>1, <3>2, <2>2
        <3>3. CASE i # 0 /\ i # n + 1
            <4>1. i \in 0 .. n /\ i - 1 \in 0 .. n
                BY <3>3
            <4>2. g[i] = f[i] /\ g[i-1] = f[i-1]
                BY <4>1
            <4>3. f[i] = f[i-1] + t[i]
                BY <4>1, <3>3, <2>2
            <4> QED
                BY <4>2, <4>3, <3>3
        <3> QED
            BY <3>1, <3>2, <3>3
    <2>4. g = [i \in 0 .. n + 1 |-> g[i]]
        OBVIOUS
    <2> HIDE DEF g
    <2>5. g = [i \in 0 .. n + 1 |-> IF i = 0 THEN 0 ELSE g[i-1] + t[i]]
        BY <2>3, <2>4
    <2> QED
        BY <2>5
<1>3. S \in SUBSET Nat
    OBVIOUS
<1> HIDE DEF S
<1>4. S = Nat
    BY <1>1, <1>2, <1>3, InductionOnNat
<1> QED
    BY <1>4 DEF S

\* So Load reads an int.
LEMMA LoadIsWord ==
    ASSUME NEW a \in Int, OnStack(a), memory \in [0 .. STACK_SIZE - 1 -> 0 .. BYTE - 1]
    PROVE  Load(a) \in INT_MIN .. INT_MAX
<1> DEFINE t == [i \in 1 .. WORD |-> memory[a + i - 1] * BYTE ^ (i - 1)]
           F(f) == [i \in 0 .. WORD |-> IF i = 0 THEN 0 ELSE f[i-1] + t[i]]
           sum == CHOOSE f : f = F(f)
           G(f) == [i \in 0 .. WORD |-> IF i = 0 THEN 0
                                        ELSE f[i-1] + memory[a + i - 1] * BYTE ^ (i-1)]
           s == CHOOSE f : f = G(f)
<1>0. WORD \in Nat \ {0} /\ BYTE \in Nat \ {0} /\ STACK_SIZE \in Nat
    BY CpuAssumption
<1>1. \A f : F(f) = G(f)
    <2> TAKE f
    <2>1. \A i \in 0 .. WORD : i # 0 => i \in 1 .. WORD
        BY <1>0
    <2> QED
        BY <2>1
<1>2. \E f : f = F(f)
    <2> HIDE DEF t
    <2> QED
        BY <1>0, SumsExist
<1>3. \E f : f = G(f)
    <2> HIDE DEF F, G
    <2>1. PICK f : f = F(f)
        BY <1>2
    <2>2. f = G(f)
        BY <2>1, <1>1
    <2> QED
        BY <2>2
<1>4. s = G(s)
    <2> HIDE DEF G
    <2> QED
        BY <1>3, Zenon
<1>5. Load(a) = Signed(s[WORD])
    BY DEF Load
<1>6. \A i \in 1 .. WORD : memory[a + i - 1] * BYTE ^ (i - 1) \in Int
    <2> TAKE i \in 1 .. WORD
    <2>1. a + i - 1 \in 0 .. STACK_SIZE - 1
        BY <1>0 DEF OnStack
    <2>2. memory[a + i - 1] \in Int
        BY <2>1, <1>0
    <2>3. i - 1 \in 0 .. WORD
        BY <1>0
    <2>4. BYTE ^ (i - 1) \in Nat
        BY <2>3, CpuAssumption
    <2> QED
        BY <2>2, <2>4
<1> HIDE DEF t, F, sum, s
<1>7. s[0] = 0 /\ \A i \in 1 .. WORD : s[i] = s[i-1] + memory[a + i - 1] * BYTE ^ (i-1)
    <2>1. \A i \in 0 .. WORD : s[i] = IF i = 0 THEN 0
                                   ELSE s[i-1] + memory[a + i - 1] * BYTE ^ (i-1)
        <3>1. \A i \in 0 .. WORD : G(s)[i] = IF i = 0 THEN 0
                                   ELSE s[i-1] + memory[a + i - 1] * BYTE ^ (i-1)
            OBVIOUS
        <3> HIDE DEF G
        <3> QED
            BY <3>1, <1>4
    <2>2. 0 \in 0 .. WORD /\ \A i \in 1 .. WORD : i \in 0 .. WORD /\ i # 0
        BY <1>0
    <2> QED
        BY <2>1, <2>2
<1> DEFINE T == {n \in Nat : n <= WORD => s[n] \in Int}
<1>8. 0 \in T
    BY <1>7
<1>9. ASSUME NEW n \in Nat, n \in T PROVE n + 1 \in T
    <2>1. CASE n + 1 <= WORD
        <3>1. n + 1 \in 1 .. WORD /\ (n + 1) - 1 = n /\ n <= WORD
            BY <2>1, <1>0
        <3>2. s[n] \in Int
            BY <3>1, <1>9
        <3> DEFINE k == n + 1
        <3>3. k \in 1 .. WORD /\ s[k] = s[k-1] + memory[a + k - 1] * BYTE ^ (k-1) /\ k - 1 = n
            BY <3>1, <1>7
        <3>4. memory[a + k - 1] * BYTE ^ (k-1) \in Int
            BY <3>3, <1>6
        <3>5. s[k] \in Int
            BY <3>2, <3>3, <3>4
        <3> QED
            BY <3>5
    <2>2. CASE ~(n + 1 <= WORD)
        BY <2>2
    <2> QED
        BY <2>1, <2>2
<1>10. T \in SUBSET Nat
    OBVIOUS
<1> HIDE DEF T
<1>11. T = Nat
    BY <1>8, <1>9, <1>10, InductionOnNat
<1>12. s[WORD] \in Int
    BY <1>11, <1>0 DEF T
<1> QED
    BY <1>5, <1>12, SignedIsWord

-----------------------------------------------------------------------------
(* Types.                                                                  *)

\* The values of the registers and of the memory.
RegisterFile == [0 .. NUM_REGS - 1 -> INT_MIN .. INT_MAX]
Bytes == [0 .. STACK_SIZE - 1 -> 0 .. BYTE - 1]

\* While the program runs there is an instruction to execute.
CpuInv ==
    /\ TypeOK
    /\ build \in {"wraps", "exact"}
    /\ program \in DOMAIN Programs
    /\ instructions \in Seq(Instruction)
    /\ status = "running" => program_counter \div WORD < Len(instructions)

\* The constants.
LEMMA Sizes == /\ WORD \in Nat \ {0} /\ BYTE \in Nat \ {0} /\ STACK_SIZE \in Nat \ {0}
               /\ STACK_SIZE \in INT_MIN .. INT_MAX /\ 0 \in INT_MIN .. INT_MAX
BY CpuAssumption, Width DEF WordValues

\* Decoding gave every instruction registers that exist.
LEMMA InstrIs ==
    ASSUME CpuInv, status = "running"
    PROVE  /\ instr \in Instruction
           /\ r1 \in 0 .. NUM_REGS - 1 /\ r2 \in 0 .. NUM_REGS - 1
           /\ imm \in 1 - WordValues .. WordValues - 1
<1>1. program_counter \in Nat /\ program_counter \div WORD < Len(instructions)
    BY DEF CpuInv, TypeOK
<1>2. program_counter \div WORD \in Nat
    BY <1>1, Sizes
<1>3. Len(instructions) \in Nat /\ instructions \in Seq(Instruction)
    BY DEF CpuInv
<1>4. program_counter \div WORD + 1 \in 1 .. Len(instructions)
    BY <1>1, <1>2, <1>3
<1>5. instr \in Instruction
    BY <1>3, <1>4 DEF instr
<1> QED
    BY <1>5 DEF Instruction, r1, r2, imm

\* Registers and bytes written keep their types.
LEMMA SetIs ==
    ASSUME NEW regs \in RegisterFile, NEW r, NEW val \in Int
    PROVE  Set(regs, r, val) \in RegisterFile
BY SignedIsWord DEF Set, RegisterFile

\* So do bytes.
LEMMA StoreIs ==
    ASSUME memory \in Bytes, NEW a \in Int, NEW val \in Int
    PROVE  Store(a, val) \in Bytes
<1> SUFFICES ASSUME NEW b \in 0 .. STACK_SIZE - 1
             PROVE  (IF b \in a .. a + WORD - 1 THEN (Unsigned(val) \div BYTE ^ (b - a)) % BYTE
                     ELSE memory[b]) \in 0 .. BYTE - 1
    BY DEF Store, Bytes
<1>1. CASE b \in a .. a + WORD - 1
    <2>1. b - a \in 0 .. WORD
        BY <1>1, Sizes
    <2> DEFINE k == BYTE ^ (b - a)
    <2>2. k \in Nat \ {0}
        BY <2>1, CpuAssumption
    <2>3. Unsigned(val) \in Nat
        BY UnsignedIsWord
    <2> HIDE DEF k
    <2>4. Unsigned(val) \div k \in Nat
        BY <2>2, <2>3
    <2>5. (Unsigned(val) \div k) % BYTE \in 0 .. BYTE - 1
        BY <2>4, Sizes
    <2> QED
        BY <1>1, <2>5 DEF k
<1>2. CASE b \notin a .. a + WORD - 1
    BY <1>2 DEF Bytes
<1> QED
    BY <1>1, <1>2

\* The loop of main goes on only to instructions that exist.
Arrived ==
    /\ program_counter' \in 0 .. WordValues - 1
    /\ status' \in {"running", "done", "stray"}
    /\ status' = "running" => program_counter' \div WORD < Len(instructions)

LEMMA GotoIs ==
    ASSUME NEW pc \in Int, Goto(pc)
    PROVE  Arrived
BY UnsignedIsWord DEF Goto, Arrived

\* So does the instruction after this one.
LEMMA NextIs ==
    ASSUME CpuInv, NextInstruction
    PROVE  Arrived
BY GotoIs, Sizes DEF NextInstruction, CpuInv, TypeOK

\* A step that leads on and writes what it should keeps the invariant.
LEMMA Keeps ==
    ASSUME CpuInv, UNCHANGED <<program, build, instructions>>, Arrived,
           registers' \in RegisterFile, memory' \in Bytes
    PROVE  CpuInv'
BY DEF CpuInv, TypeOK, Arrived, RegisterFile, Bytes

\* So does a step that ends the program.
LEMMA StrayKeeps ==
    ASSUME CpuInv, UNCHANGED <<program, build, instructions, program_counter, registers, memory>>,
           status' \in {"done", "stray"}
    PROVE  CpuInv'
BY DEF CpuInv, TypeOK

\* The steps that compute a register, and the jumps, are among those.
LEMMA ComputesKeeps ==
    ASSUME CpuInv, NEW op, NEW r, NEW val \in Int, Computes(op, r, val)
    PROVE  CpuInv'
<1>1. registers \in RegisterFile /\ memory \in Bytes
    BY DEF CpuInv, TypeOK, RegisterFile, Bytes
<1>2. registers' \in RegisterFile
    BY <1>1, SetIs DEF Computes
<1> QED
    BY <1>1, <1>2, NextIs, Keeps DEF Computes, Executes

\* The jumps.
LEMMA JumpsKeeps ==
    ASSUME CpuInv, NEW op, NEW cond, Jumps(op, cond)
    PROVE  CpuInv'
<1>1. registers \in RegisterFile /\ memory \in Bytes
    BY DEF CpuInv, TypeOK, RegisterFile, Bytes
<1>2. imm \in Int /\ program_counter \in Int
    BY InstrIs, Width DEF Jumps, Executes, CpuInv, TypeOK
<1>3. program_counter + (IF cond THEN imm ELSE 0) + WORD \in Int
    BY <1>2, Sizes
<1>4. Arrived
    BY <1>3, GotoIs DEF Jumps
<1> QED
    BY <1>1, <1>4, Keeps DEF Jumps, Executes

\* The flags are a number.
LEMMA FlagsAreInt == ASSUME NEW how, NEW a, NEW b PROVE Flags(how, a, b) \in Int
BY CpuAssumption DEF Flags

\* Each opcode keeps the invariant.
LEMMA CpuStep == ASSUME CpuInv, [Next]_vars PROVE CpuInv'
<1> USE DEF Executes
<1>0. CASE UNCHANGED vars
    BY <1>0 DEF vars, CpuInv, TypeOK
<1> SUFFICES ASSUME Next PROVE CpuInv'
    BY <1>0
<1> DEFINE int == INT_MIN .. INT_MAX
<1>a. /\ registers \in RegisterFile /\ memory \in Bytes /\ program_counter \in Nat
      /\ \A r \in 0 .. NUM_REGS - 1 : registers[r] \in int
      /\ ESP \in 0 .. NUM_REGS - 1 /\ EFLAGS \in 0 .. NUM_REGS - 1
    BY DEF CpuInv, TypeOK, RegisterFile, Bytes, ESP, EFLAGS, NUM_REGS
<1>b. int \subseteq Int
    BY Width
<1>c. status = "running" => /\ r1 \in 0 .. NUM_REGS - 1 /\ r2 \in 0 .. NUM_REGS - 1 /\ imm \in Int
                            /\ registers[r1] \in Int /\ registers[r2] \in Int
    BY <1>a, <1>b, InstrIs, Width
<1> HIDE DEF int
<1>d. /\ registers[ESP] \in Int /\ registers[ESP] + WORD \in Int
      /\ registers[ESP] - WORD \in Int
    <2>1. registers[ESP] \in int
        BY <1>a
    <2>2. registers[ESP] \in Int
        BY <2>1, <1>b
    <2> QED
        BY <2>2, Sizes
<1>1. CASE subl
    BY <1>1, <1>c, ComputesKeeps DEF subl, Computes
<1>2. CASE addl_reg_reg
    BY <1>2, <1>c, ComputesKeeps DEF addl_reg_reg, Computes
<1>3. CASE addl_imm_reg
    BY <1>3, <1>c, ComputesKeeps DEF addl_imm_reg, Computes
<1>4. CASE imull
    BY <1>4, <1>c, ComputesKeeps DEF imull, Computes
<1>5. CASE shrl
    <2>1. Unsigned(registers[r1]) \div 2 \in Int
        BY <1>5, <1>c, UnsignedIsWord DEF shrl, Computes
    <2> QED
        BY <1>5, <2>1, ComputesKeeps DEF shrl
<1>6. CASE movl_reg_reg
    BY <1>6, <1>c, ComputesKeeps DEF movl_reg_reg, Computes
<1>7. CASE movl_imm_reg
    BY <1>7, <1>c, ComputesKeeps DEF movl_imm_reg, Computes
<1>8. CASE movl_deref_reg
    <2> DEFINE a == registers[r1] + imm
    <2>1. a \in Int
        BY <1>8, <1>c DEF movl_deref_reg
    <2>2. CASE OnStack(a) /\ Computes("movl_deref_reg", r2, Load(a))
        <3>1. Load(a) \in Int
            BY <2>1, <2>2, <1>a, LoadIsWord, Width DEF Bytes
        <3> QED
            BY <2>2, <3>1, ComputesKeeps
    <2>3. CASE ~OnStack(a) /\ status' = "stray" /\ UNCHANGED <<program_counter, registers, memory, io, history>>
        BY <1>8, <2>3, StrayKeeps DEF movl_deref_reg
    <2> QED
        BY <1>8, <2>2, <2>3 DEF movl_deref_reg, Access
<1>9. CASE movl_reg_deref
    <2> DEFINE a == registers[r2] + imm
    <2>1. a \in Int /\ registers[r1] \in Int
        BY <1>9, <1>c DEF movl_reg_deref
    <2>2. CASE /\ memory' = Store(a, registers[r1])
               /\ NextInstruction
               /\ UNCHANGED <<registers, io, history>>
        <3>1. memory' \in Bytes
            BY <2>1, <2>2, <1>a, StoreIs
        <3> QED
            BY <1>9, <2>2, <3>1, <1>a, NextIs, Keeps DEF movl_reg_deref
    <2>3. CASE status' = "stray" /\ UNCHANGED <<program_counter, registers, memory, io, history>>
        BY <1>9, <2>3, StrayKeeps DEF movl_reg_deref
    <2> QED
        BY <1>9, <2>2, <2>3 DEF movl_reg_deref, Access
<1>10. CASE cmpl
    <2> DEFINE cleared == Set(registers, EFLAGS, 0)
               flags == Flags(build, cleared[r1], cleared[r2])
    <2>1. cleared \in RegisterFile
        BY <1>a, SetIs
    <2>2. flags \in Int
        BY FlagsAreInt
    <2>3. registers' = Set(cleared, EFLAGS, flags)
        BY <1>10 DEF cmpl
    <2> HIDE DEF cleared, flags
    <2>4. registers' \in RegisterFile
        BY <2>1, <2>2, <2>3, SetIs
    <2> QED
        BY <1>10, <2>4, <1>a, NextIs, Keeps DEF cmpl
<1>11. CASE jcc
    BY <1>11, JumpsKeeps DEF jcc
<1>12. CASE jmp
    BY <1>12, JumpsKeeps DEF jmp
<1>13. CASE call
    <2> DEFINE esp == Signed(registers[ESP] - WORD)
    <2>1. esp \in int /\ esp \in Int
        BY <1>a, <1>b, Sizes, SignedIsWord DEF int
    <2>2. CASE /\ registers' = Set(registers, ESP, esp)
               /\ memory' = Store(esp, program_counter + WORD)
               /\ Goto(program_counter + imm + WORD)
        <3>1. registers' \in RegisterFile
            BY <2>1, <2>2, <1>a, SetIs
        <3>2. memory' \in Bytes
            BY <2>1, <2>2, <1>a, Sizes, StoreIs
        <3>3. program_counter + imm + WORD \in Int
            BY <1>13, <1>a, <1>c, Sizes DEF call
        <3>4. Arrived
            BY <2>2, <3>3, GotoIs
        <3> QED
            BY <1>13, <3>1, <3>2, <3>4, Keeps DEF call
    <2>3. CASE status' = "stray" /\ UNCHANGED <<program_counter, registers, memory, io, history>>
        BY <1>13, <2>3, StrayKeeps DEF call
    <2> HIDE DEF esp
    <2> QED
        BY <1>13, <2>2, <2>3 DEF call, Access, esp
<1>14. CASE ret
    <2>1. CASE status' = "done" /\ UNCHANGED <<program_counter, registers, memory, io, history>>
        BY <1>14, <2>1, StrayKeeps DEF ret
    <2>2. CASE /\ OnStack(registers[ESP])
               /\ registers' = Set(registers, ESP, registers[ESP] + WORD)
               /\ Goto(Load(registers[ESP]))
               /\ UNCHANGED <<memory, io, compared>>
        <3>1. registers[ESP] \in Int /\ registers[ESP] + WORD \in Int
            BY <1>d
        <3>2. registers' \in RegisterFile
            BY <2>2, <3>1, <1>a, SetIs
        <3> DEFINE to == Load(registers[ESP])
        <3>3. to \in Int
            BY <2>2, <3>1, <1>a, LoadIsWord, Width DEF Bytes
        <3>4. Goto(to)
            BY <2>2
        <3> HIDE DEF to
        <3>5. Arrived
            BY <3>3, <3>4, GotoIs
        <3> QED
            BY <1>14, <2>2, <3>2, <3>5, <1>a, Keeps DEF ret
    <2>3. CASE status' = "stray" /\ UNCHANGED <<program_counter, registers, memory, io, history>>
        BY <1>14, <2>3, StrayKeeps DEF ret
    <2> QED
        BY <1>14, <2>1, <2>2, <2>3 DEF ret, Access
<1>15. CASE pushl
    <2> DEFINE moved == Set(registers, ESP, registers[ESP] - WORD)
    <2>0. registers[ESP] - WORD \in Int
        BY <1>d
    <2>1. moved \in RegisterFile
        BY <2>0, <1>a, SetIs
    <2> HIDE DEF moved
    <2>2. moved[ESP] \in Int /\ moved[r1] \in Int
        BY <1>15, <2>1, <1>a, <1>b, <1>c DEF RegisterFile, pushl, int
    <2>3. CASE registers' = moved /\ memory' = Store(moved[ESP], moved[r1]) /\ NextInstruction
        <3>1. memory' \in Bytes
            BY <2>2, <2>3, <1>a, StoreIs
        <3> QED
            BY <1>15, <2>1, <2>3, <3>1, NextIs, Keeps DEF pushl
    <2>4. CASE status' = "stray" /\ UNCHANGED <<program_counter, registers, memory, io, history>>
        BY <1>15, <2>4, StrayKeeps DEF pushl
    <2> QED
        BY <1>15, <2>3, <2>4 DEF pushl, Access, moved
<1>16. CASE popl
    <2> DEFINE loaded == Set(registers, r1, Load(registers[ESP]))
    <2>1. CASE /\ OnStack(registers[ESP])
               /\ registers' = Set(loaded, ESP, loaded[ESP] + WORD)
               /\ NextInstruction
               /\ UNCHANGED <<memory, io, history>>
        <3>1. registers[ESP] \in Int
            BY <1>d
        <3>2. Load(registers[ESP]) \in Int
            BY <2>1, <3>1, <1>a, LoadIsWord, Width DEF Bytes
        <3>3. loaded \in RegisterFile
            BY <3>2, <1>a, SetIs
        <3> HIDE DEF loaded
        <3>4. loaded[ESP] + WORD \in Int
            BY <3>3, <1>a, <1>b, Sizes DEF RegisterFile, int
        <3>5. registers' \in RegisterFile
            BY <2>1, <3>3, <3>4, SetIs
        <3> QED
            BY <1>16, <2>1, <3>5, <1>a, NextIs, Keeps DEF popl
    <2>2. CASE status' = "stray" /\ UNCHANGED <<program_counter, registers, memory, io, history>>
        BY <1>16, <2>2, StrayKeeps DEF popl
    <2> QED
        BY <1>16, <2>1, <2>2 DEF popl, Access
<1>17. CASE printr
    BY <1>17, <1>a, NextIs, Keeps DEF printr
<1>18. CASE readr
    <2>1. PICK val \in Programs[program].inputs \cup {registers[r1]} :
              registers' = Set(registers, r1, val)
        BY <1>18 DEF readr
    <2>2. Programs[program].inputs \subseteq Int
        BY ProgramsAssumption, Width DEF CpuInv
    <2>3. val \in Int
        BY <1>18, <2>1, <2>2, <1>c DEF readr
    <2>4. registers' \in RegisterFile
        BY <2>1, <2>3, <1>a, SetIs
    <2> QED
        BY <1>18, <2>4, <1>a, NextIs, Keeps DEF readr
<1> QED
    BY <1>1, <1>2, <1>3, <1>4, <1>5, <1>6, <1>7, <1>8, <1>9, <1>10, <1>11, <1>12, <1>13, <1>14,
       <1>15, <1>16, <1>17, <1>18 DEF Next

\* main establishes the invariant.
LEMMA CpuStart == Init => CpuInv
<1> SUFFICES ASSUME Init PROVE CpuInv
    OBVIOUS
<1>1. instructions \in Seq(Instruction)
    BY ProgramsAssumption DEF Init
<1>2. instructions # <<>> => Len(instructions) > 0
    BY <1>1
<1>3. 0 \div WORD = 0
    BY Sizes
<1>4. 0 \in 0 .. WordValues - 1
    BY Width
<1>5. registers \in RegisterFile /\ memory \in Bytes
    BY Sizes DEF Init, RegisterFile, Bytes
<1> QED
    BY <1>1, <1>2, <1>3, <1>4, <1>5 DEF Init, CpuInv, TypeOK, RegisterFile, Bytes

\* Registers stay ints, bytes stay bytes and the program counter a word, whatever
\* the program computes, in both builds (simulator.c:79-371).
THEOREM TypeCorrect == Spec => []TypeOK
<1>1. Init => CpuInv
    BY CpuStart
<1>2. CpuInv /\ [Next]_vars => CpuInv'
    BY CpuStep
<1>3. CpuInv => TypeOK
    BY DEF CpuInv
<1> QED
    BY <1>1, <1>2, <1>3, PTL DEF Spec

-----------------------------------------------------------------------------
(* What eflags tells.                                                      *)

\* A program that names eflags in no instruction, unless to print it, leaves the
\* flags to cmpl.
EflagsHidden(program_instructions) ==
    \A n \in DOMAIN program_instructions :
        program_instructions[n].opcode # "printr" =>
            /\ program_instructions[n].first_register # EFLAGS
            /\ program_instructions[n].second_register # EFLAGS

\* No program does more with eflags than print it.
FlagsPrivate == \A name \in DOMAIN Programs : EflagsHidden(decode_instructions(Programs[name].bytes))

\* A flag of weight w, above what is less than w and below what is a multiple
\* of 2 * w.
LEMMA FlagIs ==
    ASSUME NEW w \in Nat \ {0}, NEW low \in 0 .. w - 1, NEW z \in {0, 1}, NEW k \in Nat
    PROVE  HasFlag(low + w * (z + 2 * k), w) <=> z = 1
<1> DEFINE q == z + 2 * k
<1>1. q \in Nat /\ q % 2 = z
    OBVIOUS
<1> HIDE DEF q
<1>2. \A d, r \in Nat : r < w => (w * d + r) \div w = d
    OBVIOUS
<1>3. low \in Nat /\ low < w
    OBVIOUS
<1>4. (w * q + low) \div w = q
    BY <1>1, <1>2, <1>3
<1>5. low + w * q = w * q + low
    BY <1>1
<1>6. HasFlag(low + w * q, w) <=> z = 1
    BY <1>1, <1>4, <1>5 DEF HasFlag
<1> QED
    BY <1>6 DEF q

\* The weight of each flag is an even multiple of those below it.
Higher(x, w) == \E a \in Nat \ {0} : x = w * (2 * a)
Divides(w, x) == x % (2 * w) = 0

LEMMA MultipleOf ==
    ASSUME NEW w \in Nat \ {0}, NEW x \in Nat \ {0}, Divides(w, x)
    PROVE  Higher(x, w)
<1> DEFINE d == 2 * w
<1>1. d \in Nat \ {0} /\ x % d = 0
    BY DEF Divides
<1> HIDE DEF d
<1>2. x = d * (x \div d) + (x % d) /\ x \div d \in Nat
    BY <1>1
<1>3. x = d * (x \div d) /\ x \div d # 0
    BY <1>1, <1>2
<1> DEFINE a == x \div d
<1>4. a \in Nat \ {0} /\ x = d * a
    BY <1>2, <1>3
<1> HIDE DEF a
<1>5. x = w * (2 * a)
    BY <1>4 DEF d
<1> QED
    BY <1>4, <1>5 DEF Higher

\* Even multiples of even multiples are even multiples.
LEMMA MultipleTrans ==
    ASSUME NEW w \in Nat \ {0}, NEW x \in Nat \ {0}, NEW y \in Nat \ {0},
           Higher(x, w), Higher(y, x)
    PROVE  Higher(y, w)
<1>1. PICK a \in Nat \ {0} : x = w * (2 * a)
    BY DEF Higher
<1>2. PICK b \in Nat \ {0} : y = x * (2 * b)
    BY DEF Higher
<1> DEFINE c == 2 * a * b
<1>3. y = w * (2 * c)
    BY <1>1, <1>2
<1>4. c \in Nat \ {0}
    BY <1>1, <1>2
<1> QED
    BY <1>3, <1>4 DEF Higher

\* A word with the flags c, z, s and o.
Weighted(c, z, s, o) == (IF c THEN CF ELSE 0) + (IF z THEN ZF ELSE 0)
                        + (IF s THEN SF ELSE 0) + (IF o THEN OF ELSE 0)

\* A flag that is set, and one that is not.
LEMMA FlagTrue ==
    ASSUME NEW w \in Nat \ {0}, NEW low \in 0 .. w - 1, NEW k \in Nat
    PROVE  HasFlag(low + w + w * (2 * k), w)
<1>1. HasFlag(low + w * (1 + 2 * k), w)
    BY FlagIs
<1>2. low + w * (1 + 2 * k) = low + w + w * (2 * k)
    OBVIOUS
<1> QED
    BY <1>1, <1>2

LEMMA FlagFalse ==
    ASSUME NEW w \in Nat \ {0}, NEW low \in 0 .. w - 1, NEW k \in Nat
    PROVE  ~HasFlag(low + w * (2 * k), w)
<1> DEFINE z == 0
<1>1. z \in {0, 1} /\ z # 1
    OBVIOUS
<1>2. low + w * (z + 2 * k) = low + w * (2 * k)
    OBVIOUS
<1> HIDE DEF z
<1>3. ~HasFlag(low + w * (z + 2 * k), w)
    BY <1>1, FlagIs
<1> QED
    BY <1>2, <1>3

\* A sum of two even multiples is one.
Even(x, w) == \E a \in Nat : x = w * (2 * a)

LEMMA SumOf ==
    ASSUME NEW w \in Nat \ {0}, NEW x \in Nat, NEW y \in Nat, Even(x, w), Even(y, w)
    PROVE  Even(x + y, w)
<1>1. PICK a \in Nat : x = w * (2 * a)
    BY DEF Even
<1>2. PICK b \in Nat : y = w * (2 * b)
    BY DEF Even
<1>3. x + y = w * (2 * (a + b)) /\ a + b \in Nat
    BY <1>1, <1>2
<1> QED
    BY <1>3 DEF Even

\* The flags do not get into each other's way.
LEMMA FlagsRead ==
    ASSUME NEW c \in BOOLEAN, NEW z \in BOOLEAN, NEW s \in BOOLEAN, NEW o \in BOOLEAN
    PROVE  /\ Weighted(c, z, s, o) \in 0 .. WordValues - 1
           /\ HasFlag(Weighted(c, z, s, o), CF) <=> c
           /\ HasFlag(Weighted(c, z, s, o), ZF) <=> z
           /\ HasFlag(Weighted(c, z, s, o), SF) <=> s
           /\ HasFlag(Weighted(c, z, s, o), OF) <=> o
<1>0. /\ CF \in Nat \ {0} /\ ZF \in Nat \ {0} /\ SF \in Nat \ {0} /\ OF \in Nat \ {0}
      /\ WordValues \in Nat /\ 2 * OF <= WordValues
    BY CpuAssumption, Width DEF WordValues
<1>0a. Divides(CF, ZF) /\ Divides(ZF, SF) /\ Divides(SF, OF)
    BY CpuAssumption DEF Divides
<1> DEFINE C == IF c THEN CF ELSE 0
           Z == IF z THEN ZF ELSE 0
           S == IF s THEN SF ELSE 0
           O == IF o THEN OF ELSE 0
<1>1. Higher(ZF, CF)
    BY <1>0, <1>0a, MultipleOf
<1>2. Higher(SF, ZF)
    BY <1>0, <1>0a, MultipleOf
<1>3. Higher(OF, SF)
    BY <1>0, <1>0a, MultipleOf
<1>4. Higher(SF, CF)
    BY <1>0, <1>1, <1>2, MultipleTrans
<1>5. Higher(OF, CF)
    BY <1>0, <1>4, <1>3, MultipleTrans
<1>6. Higher(OF, ZF)
    BY <1>0, <1>2, <1>3, MultipleTrans
<1>7. ZF >= 2 * CF /\ SF >= 2 * ZF /\ OF >= 2 * SF
    <2>1. \A w, x \in Nat \ {0} : Higher(x, w) => x >= 2 * w
        <3> TAKE w, x \in Nat \ {0}
        <3> HAVE Higher(x, w)
        <3>1. PICK a \in Nat \ {0} : x = w * (2 * a)
            BY DEF Higher
        <3>2. w * (2 * a) >= w * 2
            BY <3>1
        <3> QED
            BY <3>1, <3>2
    <2> QED
        BY <2>1, <1>0, <1>1, <1>2, <1>3
<1>8. /\ C \in 0 .. CF /\ Z \in 0 .. ZF /\ S \in 0 .. SF /\ O \in 0 .. OF
      /\ c => C = CF
      /\ z => Z = ZF
      /\ s => S = SF
      /\ o => O = OF
      /\ ~c => C = 0
      /\ ~z => Z = 0
      /\ ~s => S = 0
      /\ ~o => O = 0
    BY <1>0
<1>9. Weighted(c, z, s, o) = C + Z + S + O
    BY DEF Weighted
<1>10. \A w \in Nat \ {0} : Even(0, w)
    <2>1. \A w \in Nat \ {0} : 0 = w * (2 * 0)
        OBVIOUS
    <2> QED
        BY <2>1 DEF Even
<1>11. Even(Z, CF) /\ Even(S, CF) /\ Even(O, CF) /\ Even(S, ZF) /\ Even(O, ZF) /\ Even(O, SF)
    BY <1>0, <1>1, <1>2, <1>3, <1>4, <1>5, <1>6, <1>10 DEF Even, Higher
<1> HIDE DEF C, Z, S, O
<1>11a. C \in Nat /\ Z \in Nat /\ S \in Nat /\ O \in Nat
    BY <1>0, <1>8
<1>12. /\ Even(Z + S, CF) /\ Even(S + O, ZF)
    BY <1>0, <1>11a, <1>11, SumOf
<1>13. Even(Z + S + O, CF)
    <2>1. Z + S \in Nat /\ O \in Nat
        BY <1>11a
    <2> QED
        BY <2>1, <1>0, <1>11, <1>12, SumOf
<1>14. HasFlag(C + Z + S + O, CF) <=> c
    <2> DEFINE low == 0
    <2>0. low \in 0 .. CF - 1 /\ low = 0
        BY <1>0
    <2> HIDE DEF low
    <2>1. PICK k \in Nat : Z + S + O = CF * (2 * k)
        BY <1>13 DEF Even
    <2>2. CASE c
        <3>1. C + Z + S + O = low + CF + CF * (2 * k)
            BY <2>0, <2>1, <2>2, <1>0, <1>8
        <3> QED
            BY <2>0, <2>2, <3>1, <1>0, FlagTrue
    <2>3. CASE ~c
        <3>1. C + Z + S + O = low + CF * (2 * k)
            BY <2>0, <2>1, <2>3, <1>0, <1>8
        <3> QED
            BY <2>0, <2>3, <3>1, <1>0, FlagFalse
    <2> QED
        BY <2>2, <2>3
<1>15. HasFlag(C + Z + S + O, ZF) <=> z
    <2>1. PICK k \in Nat : S + O = ZF * (2 * k)
        BY <1>12 DEF Even
    <2>0. C \in 0 .. ZF - 1
        BY <1>0, <1>7, <1>8
    <2>2. CASE z
        <3>1. C + Z + S + O = C + ZF + ZF * (2 * k)
            BY <2>1, <2>2, <1>0, <1>8
        <3> QED
            BY <2>0, <2>2, <3>1, <1>0, FlagTrue
    <2>3. CASE ~z
        <3>1. C + Z + S + O = C + ZF * (2 * k)
            BY <2>1, <2>3, <1>0, <1>8
        <3> QED
            BY <2>0, <2>3, <3>1, <1>0, FlagFalse
    <2> QED
        BY <2>2, <2>3
<1>16. HasFlag(C + Z + S + O, SF) <=> s
    <2>1. PICK k \in Nat : O = SF * (2 * k)
        BY <1>11 DEF Even
    <2> DEFINE low == C + Z
    <2>0. low \in 0 .. SF - 1
        BY <1>0, <1>7, <1>8
    <2>2. CASE s
        <3>1. C + Z + S + O = low + SF + SF * (2 * k)
            BY <2>1, <2>2, <1>0, <1>8
        <3> HIDE DEF low
        <3> QED
            BY <2>0, <2>2, <3>1, <1>0, FlagTrue
    <2>3. CASE ~s
        <3>1. C + Z + S + O = low + SF * (2 * k)
            BY <2>1, <2>3, <1>0, <1>8
        <3> HIDE DEF low
        <3> QED
            BY <2>0, <2>3, <3>1, <1>0, FlagFalse
    <2> QED
        BY <2>2, <2>3
<1>17. HasFlag(C + Z + S + O, OF) <=> o
    <2> DEFINE low == C + Z + S
    <2>0. low \in 0 .. OF - 1
        BY <1>0, <1>7, <1>8
    <2>2. CASE o
        <3>1. C + Z + S + O = low + OF + OF * (2 * 0)
            BY <2>2, <1>0, <1>8
        <3> HIDE DEF low
        <3> QED
            BY <2>0, <2>2, <3>1, <1>0, FlagTrue
    <2>3. CASE ~o
        <3>1. C + Z + S + O = low + OF * (2 * 0)
            BY <2>3, <1>0, <1>8
        <3> HIDE DEF low
        <3> QED
            BY <2>0, <2>3, <3>1, <1>0, FlagFalse
    <2> QED
        BY <2>2, <2>3
<1>18. C + Z + S + O \in 0 .. WordValues - 1
    BY <1>0, <1>7, <1>8
<1> QED
    BY <1>9, <1>14, <1>15, <1>16, <1>17, <1>18

\* The word in eflags tells the flags of the last cmpl.
FlagsOf(how, a, b) == registers[EFLAGS] = Signed(Flags(how, a, b))

\* No instruction names eflags, and after a cmpl eflags has its flags.
FlagsInv ==
    /\ CpuInv
    /\ EflagsHidden(instructions)
    /\ compared # <<>> => \E a, b \in INT_MIN .. INT_MAX : compared = <<a, b>> /\ FlagsOf(build, a, b)

\* Reading eflags as an unsigned int gives the weights back.
LEMMA UnsignedSigned ==
    ASSUME NEW n \in 0 .. WordValues - 1
    PROVE  Unsigned(Signed(n)) = n
<1> DEFINE w == WordValues
           m == n - INT_MIN
<1>1. w \in Nat \ {0} /\ m \in -w .. 2 * w - 1 /\ m \in Int
    BY Width
<1>2. m % w = IF m < 0 THEN m + w ELSE IF m < w THEN m ELSE m - w
    BY <1>1, Remainder
<1>3. Signed(n) = (m % w) + INT_MIN
    BY DEF Signed
<1> HIDE DEF m
<1> DEFINE k == Signed(n)
<1>4. k = IF m < 0 THEN m + w + INT_MIN ELSE IF m < w THEN m + INT_MIN ELSE m - w + INT_MIN
    BY <1>1, <1>2, <1>3, Width
<1>5. k = n \/ k = n - w
    BY <1>1, <1>4, Width DEF m
<1> HIDE DEF k
<1>6. k \in -w .. 2 * w - 1
    BY <1>1, <1>5
<1>7. k % w = IF k < 0 THEN k + w ELSE IF k < w THEN k ELSE k - w
    BY <1>1, <1>6, Remainder
<1>8. k % w = n
    BY <1>1, <1>5, <1>7
<1> QED
    BY <1>8 DEF k, Unsigned

\* An offset of less than a word's range leads somewhere else.
LEMMA OffsetMoves ==
    ASSUME NEW x \in Int, NEW d \in 1 - WordValues .. WordValues - 1, d # 0
    PROVE  Unsigned(x + d) # Unsigned(x)
<1> DEFINE w == WordValues
           y == x + d
<1>1. w \in Nat \ {0} /\ y \in Int /\ d \in Int
    BY Width
<1>2. \A a \in Int : a = w * (a \div w) + (a % w) /\ a \div w \in Int /\ a % w \in 0 .. w - 1
    BY <1>1
<1>3. /\ x = w * (x \div w) + (x % w) /\ x \div w \in Int /\ x % w \in Int
      /\ y = w * (y \div w) + (y % w) /\ y \div w \in Int /\ y % w \in Int
    BY <1>1, <1>2
<1> SUFFICES ASSUME y % w = x % w PROVE FALSE
    BY DEF Unsigned
<1> DEFINE q == y \div w - x \div w
<1>4. q \in Int /\ d = w * q
    BY <1>1, <1>3
<1> HIDE DEF y, q
<1>5. q = 0 \/ q >= 1 \/ q <= -1
    BY <1>4
<1>6. q >= 1 => w * q >= w
    BY <1>4, <1>1
<1>7. q <= -1 => w * q <= -w
    BY <1>4, <1>1
<1> QED
    BY <1>1, <1>4, <1>5, <1>6, <1>7

\* What the weights in eflags say of the operands.
LEMMA FlagsSay ==
    ASSUME NEW a \in INT_MIN .. INT_MAX, NEW b \in INT_MIN .. INT_MAX, NEW how \in {"wraps", "exact"},
           FlagsOf(how, a, b)
    PROVE  /\ HasFlag(Unsigned(registers[EFLAGS]), CF) <=> Unsigned(a) > Unsigned(b)
           /\ HasFlag(Unsigned(registers[EFLAGS]), ZF) <=> a = b
           /\ HasFlag(Unsigned(registers[EFLAGS]), SF) <=> Diff(how, a, b) < 0
           /\ HasFlag(Unsigned(registers[EFLAGS]), OF) <=> Overflows(how, a, b)
<1> DEFINE c == Unsigned(a) > Unsigned(b)
           z == a = b
           s == Diff(how, a, b) < 0
           o == Overflows(how, a, b)
           f == Flags(how, a, b)
           e == Unsigned(registers[EFLAGS])
<1>1. f = Weighted(c, z, s, o)
    BY DEF Flags, Weighted
<1>2. c \in BOOLEAN /\ z \in BOOLEAN /\ s \in BOOLEAN /\ o \in BOOLEAN
    <2>1. Unsigned(a) \in Int /\ Unsigned(b) \in Int
        BY UnsignedIsWord, Width
    <2>2. Diff(how, a, b) \in Int
        BY SignedIsWord, Width DEF Diff
    <2> QED
        BY <2>1, <2>2 DEF Overflows
<1>3. registers[EFLAGS] = Signed(f)
    BY DEF FlagsOf
<1> HIDE DEF c, z, s, o, f
<1>4. /\ Weighted(c, z, s, o) \in 0 .. WordValues - 1
      /\ HasFlag(Weighted(c, z, s, o), CF) <=> c
      /\ HasFlag(Weighted(c, z, s, o), ZF) <=> z
      /\ HasFlag(Weighted(c, z, s, o), SF) <=> s
      /\ HasFlag(Weighted(c, z, s, o), OF) <=> o
    BY <1>2, FlagsRead
<1>5. f \in 0 .. WordValues - 1
    BY <1>1, <1>4
<1>6. e = f
    BY <1>3, <1>5, UnsignedSigned
<1> HIDE DEF e
<1>7. (HasFlag(e, CF) <=> c) /\ (HasFlag(e, ZF) <=> z) /\ (HasFlag(e, SF) <=> s) /\ (HasFlag(e, OF) <=> o)
    BY <1>1, <1>4, <1>6
<1> QED
    BY <1>7 DEF c, z, s, o, e

\* Ints are equal when their bits are.
LEMMA UnsignedOneToOne ==
    ASSUME NEW a \in INT_MIN .. INT_MAX, NEW b \in INT_MIN .. INT_MAX, Unsigned(a) = Unsigned(b)
    PROVE  a = b
<1> DEFINE w == WordValues
<1>1. w \in Nat \ {0} /\ a \in -w .. 2 * w - 1 /\ b \in -w .. 2 * w - 1
    BY Width
<1>2. /\ a % w = IF a < 0 THEN a + w ELSE IF a < w THEN a ELSE a - w
      /\ b % w = IF b < 0 THEN b + w ELSE IF b < w THEN b ELSE b - w
    BY <1>1, Remainder
<1> QED
    BY <1>1, <1>2, Width DEF Unsigned

\* So a conditional jump decides the comparison it is named for.
LEMMA TakenHolds ==
    ASSUME NEW a \in INT_MIN .. INT_MAX, NEW b \in INT_MIN .. INT_MAX, NEW how \in {"wraps", "exact"},
           FlagsOf(how, a, b), ~Misjudged(how, a, b), NEW opcode \in Conditional
    PROVE  Taken(opcode, Unsigned(registers[EFLAGS])) <=> Holds(opcode, a, b)
<1> DEFINE e == Unsigned(registers[EFLAGS])
           s == HasFlag(e, SF)
           o == HasFlag(e, OF)
           c == HasFlag(e, CF)
           z == HasFlag(e, ZF)
<1>1. (c <=> Unsigned(a) > Unsigned(b)) /\ (z <=> a = b)
    BY FlagsSay
<1>2. (s <=> Diff(how, a, b) < 0) /\ (o <=> Overflows(how, a, b))
    BY FlagsSay
<1>3. b < a <=> (s <=> ~o)
    BY <1>2, SignAndOverflow
<1>4. a \in Int /\ b \in Int
    BY Width
<1>5. Unsigned(b) <= Unsigned(a) <=> c \/ z
    <2>1. Unsigned(a) \in Int /\ Unsigned(b) \in Int
        BY <1>4, UnsignedIsWord, Width
    <2>2. Unsigned(a) = Unsigned(b) <=> a = b
        BY UnsignedOneToOne
    <2> QED
        BY <2>1, <2>2, <1>1
<1>6. s \in BOOLEAN /\ o \in BOOLEAN
    BY DEF HasFlag
<1>7. /\ Taken("je", e) <=> z
      /\ Taken("jl", e) <=> (s <=> ~o)
      /\ Taken("jle", e) <=> (s <=> ~o) \/ z
      /\ Taken("jge", e) <=> ~(s <=> ~o)
      /\ Taken("jbe", e) <=> c \/ z
    <2> HIDE DEF s, o, c, z
    <2>1. (s # o) <=> (s <=> ~o)
        BY <1>6
    <2>2. (o # s) <=> (s <=> ~o)
        BY <1>6
    <2> QED
        BY <2>1, <2>2 DEF Taken, s, o, c, z
<1> HIDE DEF e, s, o, c, z
<1>8. opcode \in {"je", "jl", "jle", "jge", "jbe"}
    BY DEF Conditional
<1>9. Taken(opcode, e) <=> Holds(opcode, a, b)
    <2>1. CASE opcode = "je"
        BY <2>1, <1>1, <1>7 DEF Holds
    <2>2. CASE opcode = "jl"
        BY <2>2, <1>3, <1>7 DEF Holds
    <2>3. CASE opcode = "jle"
        <3>1. Holds(opcode, a, b) <=> b <= a
            BY <2>3 DEF Holds
        <3>2. b <= a <=> b < a \/ a = b
            BY <1>4
        <3> QED
            BY <2>3, <3>1, <3>2, <1>1, <1>3, <1>7
    <2>4. CASE opcode = "jge"
        <3>1. Holds(opcode, a, b) <=> b >= a
            BY <2>4 DEF Holds
        <3>2. b >= a <=> ~(b < a)
            BY <1>4
        <3> QED
            BY <2>4, <3>1, <3>2, <1>3, <1>7
    <2>5. CASE opcode = "jbe"
        BY <2>5, <1>5, <1>7 DEF Holds
    <2> QED
        BY <1>8, <2>1, <2>2, <2>3, <2>4, <2>5
<1> QED
    BY <1>9 DEF e

\* The least integer is a large number without its sign.
LEMMA LeastUnsigned == Unsigned(0) = 0 /\ Unsigned(INT_MIN) \in Nat /\ Unsigned(INT_MIN) > 0
<1> DEFINE w == WordValues
           least == INT_MIN
<1>1. w \in Nat \ {0} /\ w = -2 * least /\ least \in Int /\ least < 0
    BY Width
<1> HIDE DEF w, least
<1>2. least \in -w .. 2 * w - 1 /\ 0 \in -w .. 2 * w - 1
    BY <1>1
<1>3. least % w = least + w /\ 0 % w = 0
    <2>1. least % w = IF least < 0 THEN least + w ELSE IF least < w THEN least ELSE least - w
        BY <1>1, <1>2, Remainder
    <2>2. 0 % w = IF 0 < 0 THEN 0 + w ELSE IF 0 < w THEN 0 ELSE 0 - w
        BY <1>1, <1>2, Remainder
    <2> QED
        BY <1>1, <2>1, <2>2
<1>4. Unsigned(0) = 0 /\ Unsigned(least) = least + w
    BY <1>3 DEF Unsigned, w
<1> QED
    BY <1>1, <1>4 DEF least

\* On the pair that is misjudged the jumps that read sign and overflow go wrong.
LEMMA TakenJudged ==
    ASSUME NEW a \in INT_MIN .. INT_MAX, NEW b \in INT_MIN .. INT_MAX, NEW how \in {"wraps", "exact"},
           FlagsOf(how, a, b), NEW opcode \in Conditional
    PROVE  Taken(opcode, Unsigned(registers[EFLAGS])) <=> Judged(how, opcode, a, b)
<1>1. CASE ~Misjudged(how, a, b)
    BY <1>1, TakenHolds DEF Judged
<1>2. CASE Misjudged(how, a, b)
    <2> DEFINE e == Unsigned(registers[EFLAGS])
               s == HasFlag(e, SF)
               o == HasFlag(e, OF)
               c == HasFlag(e, CF)
               z == HasFlag(e, ZF)
    <2>1. how = "wraps" /\ a = INT_MIN /\ b = 0
        BY <1>2 DEF Misjudged
    <2>2. s = TRUE /\ o = FALSE
        <3>1. (s <=> Diff(how, a, b) < 0) /\ (o <=> Overflows(how, a, b))
            BY FlagsSay
        <3>2. s \in BOOLEAN /\ o \in BOOLEAN
            BY DEF HasFlag
        <3> HIDE DEF s, o
        <3> QED
            BY <2>1, <3>1, <3>2, Misjudgement
    <2>3. z = FALSE /\ c = TRUE
        <3>1. (c <=> Unsigned(a) > Unsigned(b)) /\ (z <=> a = b)
            BY FlagsSay
        <3>2. z \in BOOLEAN /\ c \in BOOLEAN
            BY DEF HasFlag
        <3>3. Unsigned(a) > Unsigned(b) /\ a < b
            BY <2>1, LeastUnsigned, Width
        <3>4. a # b
            BY <2>1, <3>3, Width
        <3> HIDE DEF z, c
        <3> QED
            BY <3>1, <3>2, <3>3, <3>4
    <2>4. /\ Taken("je", e) = FALSE /\ Taken("jl", e) = TRUE /\ Taken("jle", e) = TRUE
          /\ Taken("jge", e) = FALSE /\ Taken("jbe", e) = TRUE
        <3> HIDE DEF s, o, c, z
        <3> QED
            BY <2>2, <2>3 DEF Taken, s, o, c, z
    <2>5. a < b /\ a \in Int /\ b \in Int /\ Unsigned(b) <= Unsigned(a)
        BY <2>1, LeastUnsigned, Width
    <2> HIDE DEF e, s, o, c, z
    <2>6. opcode \in {"je", "jl", "jle", "jge", "jbe"}
        BY DEF Conditional
    <2>7. Taken(opcode, e) <=> Judged(how, opcode, a, b)
        <3>1. /\ ~Holds("je", a, b) /\ ~Holds("jl", a, b) /\ ~Holds("jle", a, b)
              /\ Holds("jge", a, b) /\ Holds("jbe", a, b)
            BY <2>5 DEF Holds
        <3>2. /\ ~Judged(how, "je", a, b) /\ Judged(how, "jl", a, b) /\ Judged(how, "jle", a, b)
              /\ ~Judged(how, "jge", a, b) /\ Judged(how, "jbe", a, b)
            BY <1>2, <3>1 DEF Judged
        <3> QED
            BY <2>4, <2>6, <3>2
    <2> QED
        BY <2>7 DEF e
<1> QED
    BY <1>1, <1>2

\* A write to another register leaves eflags alone.
LEMMA SetElsewhere ==
    ASSUME NEW regs \in RegisterFile, NEW r, NEW val \in Int, r # EFLAGS
    PROVE  Set(regs, r, val) \in RegisterFile /\ Set(regs, r, val)[EFLAGS] = regs[EFLAGS]
BY SetIs DEF Set, RegisterFile, EFLAGS, NUM_REGS

\* What is written to eflags is read from it.
LEMMA SetFlags ==
    ASSUME NEW regs \in RegisterFile, NEW val
    PROVE  Set(regs, EFLAGS, val)[EFLAGS] = Signed(val)
BY DEF Set, RegisterFile, EFLAGS, NUM_REGS

\* Only cmpl writes to eflags.
LEMMA OthersLeaveFlags ==
    ASSUME CpuInv, EflagsHidden(instructions), Next, ~cmpl
    PROVE  compared' = compared /\ registers'[EFLAGS] = registers[EFLAGS] /\ build' = build
<1> USE DEF Executes
<1> DEFINE int == INT_MIN .. INT_MAX
<1>a. /\ registers \in RegisterFile /\ memory \in Bytes
      /\ \A r \in 0 .. NUM_REGS - 1 : registers[r] \in int
      /\ ESP \in 0 .. NUM_REGS - 1 /\ ESP # EFLAGS
    BY DEF CpuInv, TypeOK, RegisterFile, Bytes, ESP, EFLAGS, NUM_REGS
<1>b. int \subseteq Int
    BY Width
<1>c. status = "running" /\ instr.opcode # "printr" => r1 # EFLAGS /\ r2 # EFLAGS
    <2> SUFFICES ASSUME status = "running", instr.opcode # "printr" PROVE r1 # EFLAGS /\ r2 # EFLAGS
        OBVIOUS
    <2> DEFINE n == program_counter \div WORD
    <2>1. n < Len(instructions) /\ program_counter \in Nat
        BY DEF CpuInv, TypeOK
    <2>2. n \in Nat
        BY <2>1, Sizes
    <2> HIDE DEF n
    <2>3. n + 1 \in DOMAIN instructions
        BY <2>1, <2>2 DEF CpuInv
    <2>4. /\ instructions[n + 1].first_register # EFLAGS
          /\ instructions[n + 1].second_register # EFLAGS
        BY <2>3 DEF EflagsHidden, instr, n
    <2> QED
        BY <2>4 DEF instr, r1, r2, n
<1>d. status = "running" => /\ r1 \in 0 .. NUM_REGS - 1 /\ r2 \in 0 .. NUM_REGS - 1 /\ imm \in Int
                            /\ registers[r1] \in Int /\ registers[r2] \in Int
    BY <1>a, <1>b, InstrIs, Width
<1> HIDE DEF int
<1>e. registers[ESP] \in Int /\ registers[ESP] + WORD \in Int /\ registers[ESP] - WORD \in Int
    <2>1. registers[ESP] \in int
        BY <1>a
    <2>2. registers[ESP] \in Int
        BY <2>1, <1>b
    <2> QED
        BY <2>2, Sizes
<1>f. ASSUME NEW op, NEW r, NEW val \in Int, Computes(op, r, val), r # EFLAGS
      PROVE  compared' = compared /\ registers'[EFLAGS] = registers[EFLAGS] /\ build' = build
    BY <1>a, <1>f, SetElsewhere DEF Computes, history
<1>0. CASE UNCHANGED <<registers, history>>
    BY <1>0 DEF Next, subl, addl_reg_reg, addl_imm_reg, imull, shrl, movl_reg_reg, movl_imm_reg,
                movl_deref_reg, movl_reg_deref, jcc, jmp, call, ret, pushl, popl, printr, readr,
                Computes, Jumps, history
<1>1. CASE subl
    BY <1>1, <1>c, <1>d, <1>f DEF subl, Computes
<1>2. CASE addl_reg_reg
    BY <1>2, <1>c, <1>d, <1>f DEF addl_reg_reg, Computes
<1>3. CASE addl_imm_reg
    BY <1>3, <1>c, <1>d, <1>f DEF addl_imm_reg, Computes
<1>4. CASE imull
    BY <1>4, <1>c, <1>d, <1>f DEF imull, Computes
<1>5. CASE shrl
    <2>1. Unsigned(registers[r1]) \div 2 \in Int /\ r1 # EFLAGS
        BY <1>5, <1>c, <1>d, UnsignedIsWord DEF shrl, Computes
    <2> QED
        BY <1>5, <2>1, <1>f DEF shrl
<1>6. CASE movl_reg_reg
    BY <1>6, <1>c, <1>d, <1>f DEF movl_reg_reg, Computes
<1>7. CASE movl_imm_reg
    BY <1>7, <1>c, <1>d, <1>f DEF movl_imm_reg, Computes
<1>8. CASE movl_deref_reg
    <2> DEFINE a == registers[r1] + imm
    <2>1. a \in Int /\ r2 # EFLAGS
        BY <1>8, <1>c, <1>d DEF movl_deref_reg
    <2>2. CASE OnStack(a) /\ Computes("movl_deref_reg", r2, Load(a))
        <3>1. Load(a) \in Int
            BY <2>1, <2>2, <1>a, LoadIsWord, Width DEF Bytes
        <3> QED
            BY <2>1, <2>2, <3>1, <1>f
    <2>3. CASE UNCHANGED <<registers, history>>
        BY <2>3, <1>0
    <2> QED
        BY <1>8, <2>2, <2>3 DEF movl_deref_reg, Access
<1>9. CASE movl_reg_deref
    BY <1>9, <1>0 DEF movl_reg_deref, Access
<1>11. CASE jcc
    BY <1>11, <1>0 DEF jcc, Jumps
<1>12. CASE jmp
    BY <1>12, <1>0 DEF jmp, Jumps
<1>13. CASE call
    <2> DEFINE esp == Signed(registers[ESP] - WORD)
    <2>1. esp \in Int
        BY <1>e, SignedIsWord, Width
    <2>2. CASE registers' = Set(registers, ESP, esp) /\ UNCHANGED compared
        BY <1>13, <2>1, <2>2, <1>a, SetElsewhere DEF call
    <2>3. CASE UNCHANGED <<registers, history>>
        BY <2>3, <1>0
    <2> HIDE DEF esp
    <2> QED
        BY <1>13, <2>2, <2>3 DEF call, Access, esp
<1>14. CASE ret
    <2>1. CASE registers' = Set(registers, ESP, registers[ESP] + WORD) /\ UNCHANGED compared
        BY <1>14, <2>1, <1>a, <1>e, SetElsewhere DEF ret
    <2>2. CASE UNCHANGED <<registers, history>>
        BY <2>2, <1>0
    <2> QED
        BY <1>14, <2>1, <2>2 DEF ret, Access
<1>15. CASE pushl
    <2> DEFINE moved == Set(registers, ESP, registers[ESP] - WORD)
    <2>1. moved[EFLAGS] = registers[EFLAGS]
        BY <1>a, <1>e, SetElsewhere
    <2> HIDE DEF moved
    <2>2. CASE registers' = moved /\ UNCHANGED history
        BY <1>15, <2>1, <2>2 DEF pushl, history
    <2>3. CASE UNCHANGED <<registers, history>>
        BY <2>3, <1>0
    <2> QED
        BY <1>15, <2>2, <2>3 DEF pushl, Access, moved
<1>16. CASE popl
    <2> DEFINE loaded == Set(registers, r1, Load(registers[ESP]))
    <2>1. CASE /\ OnStack(registers[ESP])
               /\ registers' = Set(loaded, ESP, loaded[ESP] + WORD)
               /\ UNCHANGED history
        <3>1. Load(registers[ESP]) \in Int /\ r1 # EFLAGS
            BY <1>16, <2>1, <1>a, <1>c, <1>e, LoadIsWord, Width DEF Bytes, popl
        <3>2. loaded \in RegisterFile /\ loaded[EFLAGS] = registers[EFLAGS]
            BY <3>1, <1>a, SetElsewhere
        <3> HIDE DEF loaded
        <3>3. loaded[ESP] + WORD \in Int
            BY <3>2, <1>a, <1>b, Sizes DEF RegisterFile, int
        <3>4. registers'[EFLAGS] = loaded[EFLAGS]
            BY <2>1, <3>2, <3>3, <1>a, SetElsewhere
        <3> QED
            BY <1>16, <2>1, <3>2, <3>4 DEF popl, history
    <2>2. CASE UNCHANGED <<registers, history>>
        BY <2>2, <1>0
    <2> QED
        BY <1>16, <2>1, <2>2 DEF popl, Access
<1>17. CASE printr
    BY <1>17, <1>0 DEF printr
<1>18. CASE readr
    <2>1. PICK val \in Programs[program].inputs \cup {registers[r1]} :
              registers' = Set(registers, r1, val)
        BY <1>18 DEF readr
    <2>2. Programs[program].inputs \subseteq Int
        BY ProgramsAssumption, Width DEF CpuInv
    <2>3. val \in Int /\ r1 # EFLAGS
        BY <1>18, <2>1, <2>2, <1>c, <1>d DEF readr
    <2> QED
        BY <1>18, <2>1, <2>3, <1>a, SetElsewhere DEF readr, history
<1> QED
    BY <1>1, <1>2, <1>3, <1>4, <1>5, <1>6, <1>7, <1>8, <1>9, <1>11, <1>12, <1>13, <1>14,
       <1>15, <1>16, <1>17, <1>18 DEF Next

-----------------------------------------------------------------------------
(* Jumps.                                                                  *)

\* At the start nothing has been compared.
LEMMA FlagsStart == ASSUME FlagsPrivate, Init PROVE FlagsInv
<1>1. EflagsHidden(instructions)
    BY DEF Init, FlagsPrivate
<1> QED
    BY <1>1, CpuStart DEF Init, FlagsInv

\* Every instruction keeps what eflags tells.
LEMMA FlagsStep == ASSUME FlagsInv, [Next]_vars PROVE FlagsInv'
<1>1. CpuInv'
    BY CpuStep DEF FlagsInv
<1>2. UNCHANGED instructions
    BY DEF Next, vars, subl, addl_reg_reg, addl_imm_reg, imull, shrl, movl_reg_reg, movl_imm_reg,
           movl_deref_reg, movl_reg_deref, cmpl, jcc, jmp, call, ret, pushl, popl, printr, readr,
           Computes, Jumps, Executes
<1>3. EflagsHidden(instructions)'
    BY <1>2 DEF FlagsInv, EflagsHidden
<1>4. CASE /\ compared' = compared /\ registers'[EFLAGS] = registers[EFLAGS] /\ build' = build
    BY <1>1, <1>3, <1>4 DEF FlagsInv, FlagsOf
<1>5. CASE cmpl
    <2> DEFINE cleared == Set(registers, EFLAGS, 0)
               a == cleared[r1]
               b == cleared[r2]
    <2>1. registers \in RegisterFile /\ 0 \in Int
        BY DEF FlagsInv, CpuInv, TypeOK, RegisterFile
    <2>2. cleared \in RegisterFile
        BY <2>1, SetIs
    <2>3. r1 \in 0 .. NUM_REGS - 1 /\ r2 \in 0 .. NUM_REGS - 1
        BY <1>5, InstrIs DEF cmpl, Executes, FlagsInv
    <2>4. registers' = Set(cleared, EFLAGS, Flags(build, a, b)) /\ compared' = <<a, b>> /\ build' = build
        BY <1>5 DEF cmpl, Executes
    <2> HIDE DEF cleared
    <2>5. a \in INT_MIN .. INT_MAX /\ b \in INT_MIN .. INT_MAX
        BY <2>2, <2>3 DEF RegisterFile
    <2> HIDE DEF a, b
    <2>6. registers'[EFLAGS] = Signed(Flags(build, a, b))
        BY <2>2, <2>4, SetFlags
    <2>7. \E x, y \in INT_MIN .. INT_MAX :
              compared' = <<x, y>> /\ registers'[EFLAGS] = Signed(Flags(build', x, y))
        BY <2>4, <2>5, <2>6
    <2> QED
        BY <1>1, <1>3, <2>7 DEF FlagsInv, FlagsOf
<1>6. CASE UNCHANGED vars
    BY <1>6, <1>4 DEF vars, history
<1>7. CASE Next /\ ~cmpl
    BY <1>7, <1>4, OthersLeaveFlags DEF FlagsInv
<1> QED
    BY <1>5, <1>6, <1>7

\* A conditional jump goes where the comparison of the last cmpl is judged to say.
LEMMA JumpGoes ==
    ASSUME FlagsInv, Next, NEW opcode \in Conditional, Executes(opcode), imm # 0, compared # <<>>
    PROVE  program_counter' = Unsigned(program_counter + imm + WORD)
             <=> Judged(build, opcode, compared[1], compared[2])
<1>1. PICK a \in INT_MIN .. INT_MAX : \E y \in INT_MIN .. INT_MAX :
          compared = <<a, y>> /\ FlagsOf(build, a, y)
    BY DEF FlagsInv
<1>2. PICK b \in INT_MIN .. INT_MAX : compared = <<a, b>> /\ FlagsOf(build, a, b)
    BY <1>1
<1>3. build \in {"wraps", "exact"}
    BY <1>2 DEF FlagsInv, CpuInv
<1> DEFINE taken == Taken(opcode, Unsigned(registers[EFLAGS]))
<1>4. taken <=> Judged(build, opcode, compared[1], compared[2])
    BY <1>2, <1>3, TakenJudged
<1>5. jcc
    <2>1. instr.opcode \in {"je", "jl", "jle", "jge", "jbe"}
        BY DEF Executes, Conditional
    <2>2. /\ ~subl /\ ~addl_reg_reg /\ ~addl_imm_reg /\ ~imull /\ ~shrl
          /\ ~movl_reg_reg /\ ~movl_imm_reg
        BY <2>1 DEF subl, addl_reg_reg, addl_imm_reg, imull, shrl, movl_reg_reg, movl_imm_reg,
                    Computes, Executes
    <2>3. ~movl_deref_reg /\ ~movl_reg_deref /\ ~cmpl /\ ~jmp
        BY <2>1 DEF movl_deref_reg, movl_reg_deref, cmpl, jmp, Jumps, Executes
    <2>4. ~call /\ ~ret /\ ~pushl /\ ~popl /\ ~printr /\ ~readr
        BY <2>1 DEF call, ret, pushl, popl, printr, readr, Executes
    <2> QED
        BY <2>2, <2>3, <2>4 DEF Next
<1>6. Jumps(opcode, taken)
    <2>1. PICK op \in Conditional : Jumps(op, Taken(op, Unsigned(registers[EFLAGS])))
        BY <1>5 DEF jcc
    <2>2. op = opcode
        BY <2>1 DEF Jumps, Executes
    <2> QED
        BY <2>1, <2>2
<1> HIDE DEF taken
<1> DEFINE x == program_counter + WORD
<1>7. x \in Int /\ imm \in 1 - WordValues .. WordValues - 1 /\ imm \in Int
      /\ program_counter \in Int /\ WORD \in Int
    <2>1. CpuInv /\ status = "running"
        BY DEF FlagsInv, Executes
    <2>2. program_counter \in Nat
        BY <2>1 DEF CpuInv, TypeOK
    <2> QED
        BY <2>1, <2>2, InstrIs, Sizes, Width
<1>8. program_counter' = Unsigned(program_counter + (IF taken THEN imm ELSE 0) + WORD)
    BY <1>6 DEF Jumps, Goto
<1>9. program_counter + imm + WORD = x + imm /\ program_counter + 0 + WORD = x
    BY <1>7
<1>10. Unsigned(x + imm) # Unsigned(x)
    <2> HIDE DEF x
    <2> QED
        BY <1>7, OffsetMoves
<1> HIDE DEF x
<1>11. CASE taken
    BY <1>11, <1>4, <1>8
<1>12. CASE ~taken
    <2>1. program_counter' = Unsigned(x)
        BY <1>12, <1>8, <1>9
    <2> QED
        BY <2>1, <1>12, <1>4, <1>9, <1>10
<1> QED
    BY <1>11, <1>12

\* A conditional jump is taken exactly when the comparison of the last cmpl holds,
\* whatever ran in between, for words of every width, programs that do no more with
\* eflags than print it, and both builds; on 0 and the least integer jl, jle and jge
\* go exactly the wrong way in a build that wraps (simulator.c:237-302).
THEOREM JumpsCompareCorrect ==
    ASSUME FlagsPrivate
    PROVE  Spec => JumpsCompare
<1>1. Init => FlagsInv
    BY FlagsStart
<1>2. FlagsInv /\ [Next]_vars => FlagsInv'
    BY FlagsStep
<1> DEFINE Decides == \A opcode \in Conditional :
          Executes(opcode) /\ imm # 0 /\ compared # <<>>
          => (program_counter' = Unsigned(program_counter + imm + WORD)
                <=> Judged(build, opcode, compared[1], compared[2]))
<1>3. FlagsInv /\ [Next]_vars => [Decides]_vars
    <2> SUFFICES ASSUME FlagsInv, Next PROVE Decides
        OBVIOUS
    <2> SUFFICES ASSUME NEW opcode \in Conditional, Executes(opcode), imm # 0, compared # <<>>
                 PROVE  program_counter' = Unsigned(program_counter + imm + WORD)
                          <=> Judged(build, opcode, compared[1], compared[2])
        OBVIOUS
    <2> QED
        BY JumpGoes
<1> QED
    BY <1>1, <1>2, <1>3, PTL DEF Spec, JumpsCompare
=============================================================================
