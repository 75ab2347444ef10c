--------------------------- MODULE ProgramProofs ---------------------------
(***************************************************************************)
(* What the tests of the CPU simulator do, for every input, in every build *)
(* and for every size of the machine that TestsAssumption allows: a run of *)
(* one of them is at one of its lines, and for each line there is what the *)
(* registers, the stack and the calls under way hold when it is reached.   *)
(***************************************************************************)
EXTENDS CpuProofs, MCCpu, FiniteSetTheorems

-----------------------------------------------------------------------------
(* The machine, and the text of the tests.                                 *)

\* The powers of BYTE that an address of four bytes takes.
LEMMA PowersAre ==
    BYTE ^ 0 = 1 /\ BYTE ^ 1 = BYTE ^ 0 * BYTE /\ BYTE ^ 2 = BYTE ^ 1 * BYTE
    /\ BYTE ^ 3 = BYTE ^ 2 * BYTE /\ BYTE ^ 4 = BYTE ^ 3 * BYTE
<1>1. WORD = 4 /\ BYTE ^ 0 = 1 /\ \A k \in 1 .. WORD : BYTE ^ k = BYTE ^ (k - 1) * BYTE
    BY TestsAssumption, Zenon
<1>2. \A k \in {1, 2, 3, 4} : BYTE ^ k = BYTE ^ (k - 1) * BYTE
    <2>1. \A k \in {1, 2, 3, 4} : k \in 1 .. 4
        OBVIOUS
    <2> QED
        BY <1>1, <2>1, Zenon
<1> QED
    BY <1>1, <1>2

\* The machine the tests were compiled for: words of four bytes, and a stack whose
\* addresses, and those of the longest program, are ints.
LEMMA Machine ==
    /\ WORD = 4 /\ BYTE \in Nat /\ BYTE >= 8 /\ STACK_SIZE \in Nat /\ STACK_SIZE >= 64
    /\ WordValues = BYTE * BYTE * BYTE * BYTE
    /\ WordValues \in Nat /\ WordValues >= 4096 /\ 2 * STACK_SIZE < WordValues
    /\ INT_MIN \in Int /\ INT_MAX \in Int
    /\ WordValues = -2 * INT_MIN /\ INT_MAX = -INT_MIN - 1
<1> DEFINE w == BYTE * BYTE * BYTE * BYTE
<1>1. WORD = 4 /\ BYTE >= 8 /\ STACK_SIZE >= 64
    BY TestsAssumption, Zenon
<1>2. BYTE \in Nat /\ STACK_SIZE \in Nat /\ 2 * STACK_SIZE < WordValues
    BY CpuAssumption DEF WordValues
<1>3. WordValues = BYTE ^ 4
    BY <1>1, Zenon DEF WordValues
<1>4. WordValues = w
    <2>1. BYTE ^ 0 = 1 /\ BYTE ^ 1 = BYTE ^ 0 * BYTE /\ BYTE ^ 2 = BYTE ^ 1 * BYTE
          /\ BYTE ^ 3 = BYTE ^ 2 * BYTE /\ BYTE ^ 4 = BYTE ^ 3 * BYTE
        BY <1>1, PowersAre
    <2> QED
        BY <2>1, <1>3, <1>2
<1>5. BYTE * BYTE >= 64 /\ BYTE * BYTE \in Nat
    BY <1>1, <1>2
<1>6. \A x \in Nat : x >= 64 => x * x >= 4096
    OBVIOUS
<1>7. w = (BYTE * BYTE) * (BYTE * BYTE)
    BY <1>2
<1>8. w >= 4096
    BY <1>5, <1>6, <1>7
<1> QED
    BY <1>1, <1>2, <1>4, <1>8, Width

\* An int is its own value in the registers.
LEMMA SignedSame == ASSUME NEW n \in INT_MIN .. INT_MAX PROVE Signed(n) = n
<1>1. n - INT_MIN \in 0 .. WordValues - 1 /\ WordValues \in Nat \ {0}
    BY Width
<1>2. (n - INT_MIN) % WordValues = n - INT_MIN
    BY <1>1
<1> QED
    BY <1>2, Width DEF Signed

\* A word is its own value as an address.
LEMMA UnsignedSame == ASSUME NEW n \in 0 .. WordValues - 1 PROVE Unsigned(n) = n
<1>1. WordValues \in Nat \ {0}
    BY Width
<1> QED
    BY <1>1 DEF Unsigned

\* A negative int is a large number without its sign.
LEMMA UnsignedOf ==
    ASSUME NEW n \in INT_MIN .. INT_MAX
    PROVE  Unsigned(n) = IF n < 0 THEN n + WordValues ELSE n
<1>1. WordValues \in Nat \ {0} /\ n \in -WordValues .. 2 * WordValues - 1
    BY Width
<1>2. n % WordValues = IF n < 0 THEN n + WordValues ELSE IF n < WordValues THEN n ELSE n - WordValues
    BY <1>1, Remainder
<1> QED
    BY <1>2, Width DEF Unsigned

\* The flags fit into a word.
LEMMA FlagsFit ==
    ASSUME NEW how \in {"wraps", "exact"}, NEW a \in INT_MIN .. INT_MAX, NEW b \in INT_MIN .. INT_MAX
    PROVE  Flags(how, a, b) \in 0 .. WordValues - 1
<1> DEFINE c == Unsigned(a) > Unsigned(b)
           z == a = b
           s == Diff(how, a, b) < 0
           o == Overflows(how, a, b)
<1>1. Flags(how, a, b) = Weighted(c, z, s, o)
    BY DEF Flags, Weighted
<1>2. c \in BOOLEAN /\ z \in BOOLEAN /\ s \in BOOLEAN /\ o \in BOOLEAN
    <2>1. Unsigned(a) \in Int /\ Unsigned(b) \in Int
        BY UnsignedIsWord, Width
    <2>2. Diff(how, a, b) \in Int
        BY SignedIsWord, Width DEF Diff
    <2> QED
        BY <2>1, <2>2 DEF Overflows
<1> HIDE DEF c, z, s, o
<1> QED
    BY <1>1, <1>2, FlagsRead

Decoded(op, a, b, n) ==
    [opcode |-> op, first_register |-> a, second_register |-> b, immediate |-> n]

\* The high half of an instruction, and its parts.
High(n, a, b) == n * 2^11 + a * 2^6 + b * 2

\* decode_instructions finds the opcode and the registers an assembler put together.
LEMMA BitsOf ==
    ASSUME NEW n \in Nat, n < 32, NEW a \in Nat, a < 32, NEW b \in Nat, b < 32
    PROVE  /\ Bits(High(n, a, b), 11, 5) = n
           /\ Bits(High(n, a, b), 6, 5) = a
           /\ Bits(High(n, a, b), 1, 5) = b
<1>1. 2^11 = 2048 /\ 2^6 = 64 /\ 2^5 = 32 /\ 2^1 = 2
    OBVIOUS
<1> DEFINE h == n * 2048 + a * 64 + b * 2
<1>2. h \div 2048 = n /\ n % 32 = n
    OBVIOUS
<1>3. (h \div 64) % 32 = a
    OBVIOUS
<1>4. (h \div 2) % 32 = b
    OBVIOUS
<1>5. High(n, a, b) = h
    BY <1>1 DEF High
<1> HIDE DEF h
<1> QED
    BY <1>1, <1>2, <1>3, <1>4, <1>5 DEF Bits

\* The numbers that fit into the sixteen bits of an immediate.
Immediate(n) == n \in Int /\ -(2^15) <= n /\ n < 2^15

\* The low half of an instruction, and what is read from it.
Low(n) == n % 2^16
Extended(x) == ((x + 2^15) % 2^16) - 2^15

\* Its sign extension undoes the cut to sixteen bits.
LEMMA ImmediateOf ==
    ASSUME NEW n, Immediate(n)
    PROVE  Extended(Low(n)) = n
<1> DEFINE w == 2^16
           h == 2^15
<1>1. w = 2 * h /\ h \in Nat \ {0}
    OBVIOUS
<1>2. n \in Int /\ -h <= n /\ n < h
    BY Zenon DEF Immediate
<1> HIDE DEF w, h
<1>3. n % w = IF n < 0 THEN n + w ELSE n
    <2>0. w \in Nat \ {0} /\ n \in -w .. 2 * w - 1
        BY <1>1, <1>2
    <2>1. n % w = IF n < 0 THEN n + w ELSE IF n < w THEN n ELSE n - w
        BY <2>0, Remainder
    <2> QED
        BY <2>1, <1>1, <1>2
<1> DEFINE m == (n % w) + h
<1>4. w \in Nat \ {0} /\ m \in -w .. 2 * w - 1
    BY <1>1, <1>2, <1>3
<1>5. m % w = n + h
    <2>1. m % w = IF m < 0 THEN m + w ELSE IF m < w THEN m ELSE m - w
        <3> HIDE DEF m
        <3> QED
            BY <1>4, Remainder
    <2> QED
        BY <2>1, <1>1, <1>2, <1>3
<1>6. (m % w) - h = n
    BY <1>1, <1>2, <1>5
<1> QED
    BY <1>6, Zenon DEF m, w, h, Extended, Low

\* Every opcode has one number.
LEMMA NumberOf ==
    ASSUME NEW k \in 1 .. 22, NEW op, op = Opcodes[k]
    PROVE  (CHOOSE n \in DOMAIN Opcodes : Opcodes[n] = op) = k
<1>1. DOMAIN Opcodes = 1 .. 22
    BY DEF Opcodes
<1>2. \A m, n \in 1 .. 22 : Opcodes[m] = Opcodes[n] => m = n
    BY DEF Opcodes
<1> QED
    BY <1>1, <1>2

\* Line i has opcode number k, registers a and b, and n for its number or offset.
Line(l, i, k, a, b, n) ==
    /\ l.op = Opcodes[k] /\ l.r1 = a /\ l.r2 = b
    /\ n = IF l.label = 0 THEN l.imm ELSE WORD * (l.label - i - 1)

\* decode_instructions undoes the assembler, one line ...
LEMMA DecodesLine ==
    ASSUME NEW lines, NEW at \in DOMAIN lines, NEW k \in 1 .. 22,
           NEW a \in Nat, a < 32, NEW b \in Nat, b < 32, NEW n, Immediate(n),
           Line(lines[at], at, k, a, b, n)
    PROVE  decode_instructions(Assemble(lines))[at] = Decoded(Opcodes[k], a, b, n)
<1> DEFINE l == lines[at]
           number == (CHOOSE m \in DOMAIN Opcodes : Opcodes[m] = l.op) - 1
           offset == IF l.label = 0 THEN l.imm ELSE WORD * (l.label - at - 1)
           hi == High(number, a, b)
           lo == Low(n)
<1>1. l.op = Opcodes[k] /\ l.r1 = a /\ l.r2 = b /\ offset = n
    BY Zenon DEF Line
<1>2. number \in Nat /\ number < 32 /\ number + 1 = k
    <2>1. (CHOOSE m \in DOMAIN Opcodes : Opcodes[m] = l.op) = k
        BY <1>1, NumberOf, Zenon
    <2>2. number = k - 1
        BY <2>1, Zenon
    <2> HIDE DEF number
    <2> QED
        BY <2>2
<1>3. DOMAIN Assemble(lines) = DOMAIN lines
    BY DEF Assemble
<1>4. Assemble(lines)[at] = [hi |-> number * 2^11 + l.r1 * 2^6 + l.r2 * 2, lo |-> offset % 2^16]
    BY Zenon DEF Assemble
<1>5. Assemble(lines)[at] = [hi |-> hi, lo |-> lo]
    BY <1>1, <1>4, Zenon DEF High, Low
<1> HIDE DEF number
<1>6. Bits(hi, 11, 5) = number /\ Bits(hi, 6, 5) = a /\ Bits(hi, 1, 5) = b
    BY <1>2, BitsOf
<1>7. Extended(lo) = n
    <2>1. Extended(Low(n)) = n
        BY ImmediateOf
    <2> QED
        BY <2>1
<1> HIDE DEF hi, lo
<1>8. Assemble(lines)[at].hi = hi /\ Assemble(lines)[at].lo = lo
    BY <1>5
<1>9. decode_instructions(Assemble(lines))[at] =
        [opcode |-> Opcodes[Bits(hi, 11, 5) + 1],
         first_register |-> Bits(hi, 6, 5),
         second_register |-> Bits(hi, 1, 5),
         immediate |-> Extended(lo)]
    BY <1>3, <1>8, Zenon DEF decode_instructions, Extended
<1> QED
    BY <1>2, <1>6, <1>7, <1>9, Zenon DEF Decoded

\* ... after another.
LEMMA DecodesAll ==
    ASSUME NEW lines PROVE DOMAIN decode_instructions(Assemble(lines)) = DOMAIN lines
BY DEF decode_instructions, Assemble

\* The opcodes by their names.
IsOpcode(op) == \E k \in 1 .. 22 : op = Opcodes[k]

\* The tests use all of the opcodes of instruction.h.
LEMMA OpcodesAre ==
    /\ IsOpcode("subl") /\ IsOpcode("addl_reg_reg") /\ IsOpcode("addl_imm_reg")
    /\ IsOpcode("imull") /\ IsOpcode("shrl") /\ IsOpcode("movl_reg_reg")
    /\ IsOpcode("movl_deref_reg") /\ IsOpcode("movl_reg_deref") /\ IsOpcode("movl_imm_reg")
    /\ IsOpcode("cmpl") /\ IsOpcode("je") /\ IsOpcode("jl") /\ IsOpcode("jle")
    /\ IsOpcode("jge") /\ IsOpcode("jbe") /\ IsOpcode("jmp") /\ IsOpcode("call")
    /\ IsOpcode("ret") /\ IsOpcode("pushl") /\ IsOpcode("popl") /\ IsOpcode("printr")
    /\ IsOpcode("readr")
<1> DEFINE o == Opcodes
<1>1. /\ o[1] = "subl" /\ o[2] = "addl_reg_reg" /\ o[3] = "addl_imm_reg" /\ o[4] = "imull"
      /\ o[5] = "shrl" /\ o[6] = "movl_reg_reg" /\ o[7] = "movl_deref_reg"
      /\ o[8] = "movl_reg_deref" /\ o[9] = "movl_imm_reg" /\ o[10] = "cmpl" /\ o[11] = "je"
      /\ o[12] = "jl" /\ o[13] = "jle" /\ o[14] = "jge" /\ o[15] = "jbe" /\ o[16] = "jmp"
      /\ o[17] = "call" /\ o[18] = "ret" /\ o[19] = "pushl" /\ o[20] = "popl"
      /\ o[21] = "printr" /\ o[22] = "readr"
    BY DEF Opcodes
<1> HIDE DEF o
<1>2. \A k \in 1 .. 22 : IsOpcode(o[k])
    BY DEF o, IsOpcode
<1> QED
    BY <1>1, <1>2

\* A line of a program of the tests.
Text(op, a, b, n, label) == [op |-> op, r1 |-> a, r2 |-> b, imm |-> n, label |-> label]

\* The abbreviations that the tests are written in.
LEMMA Written ==
    /\ \A op, a, b, n : Op(op, a, b, n) = Text(op, a, b, n, 0)
    /\ \A op, a : One(op, a) = Text(op, a, 0, 0, 0)
    /\ \A op, a, b : Two(op, a, b) = Text(op, a, b, 0, 0)
    /\ \A op, n, a : Imm(op, n, a) = Text(op, a, 0, n, 0)
    /\ Ret = Text("ret", 0, 0, 0, 0)
    /\ \A op, line : To(op, line) = Text(op, 0, 0, 0, line)
<1>1. \A op, a, b, n : Op(op, a, b, n) = Text(op, a, b, n, 0)
    BY DEF Op, Text
<1>2. \A op, line : To(op, line) = Text(op, 0, 0, 0, line)
    BY DEF To, Op, Text
<1> QED
    BY <1>1, <1>2 DEF One, Two, Imm, Ret

\* What a line is assembled to and decoded as.
LEMMA AssembledLine ==
    ASSUME NEW lines, NEW at \in DOMAIN lines, NEW op, IsOpcode(op),
           NEW a \in Nat, a < 32, NEW b \in Nat, b < 32, NEW j, NEW label, NEW n, Immediate(n),
           lines[at] = Text(op, a, b, j, label),
           n = IF label = 0 THEN j ELSE 4 * (label - at - 1)
    PROVE  decode_instructions(Assemble(lines))[at] = Decoded(op, a, b, n)
<1>1. PICK k \in 1 .. 22 : op = Opcodes[k]
    BY DEF IsOpcode
<1>2. Line(lines[at], at, k, a, b, n)
    <2> DEFINE l == lines[at]
    <2>1. l.op = op /\ l.r1 = a /\ l.r2 = b /\ l.imm = j /\ l.label = label
        BY DEF Text
    <2>2. WORD = 4
        BY Machine
    <2> HIDE DEF l
    <2>3. Line(l, at, k, a, b, n)
        BY <1>1, <2>1, <2>2, Zenon DEF Line
    <2> QED
        BY <2>3 DEF l
<1>3. decode_instructions(Assemble(lines))[at] = Decoded(Opcodes[k], a, b, n)
    BY <1>2, DecodesLine, SMTT(30)
<1> QED
    BY <1>1, <1>3

\* A line without a label ...
LEMMA Assembled ==
    ASSUME NEW lines, NEW at \in DOMAIN lines, NEW op, IsOpcode(op),
           NEW a \in Nat, a < 32, NEW b \in Nat, b < 32, NEW n, Immediate(n),
           lines[at] = Text(op, a, b, n, 0)
    PROVE  decode_instructions(Assemble(lines))[at] = Decoded(op, a, b, n)
BY AssembledLine

\* ... and a jump or a call, whose immediate counts from the line behind it.
LEMMA AssembledJump ==
    ASSUME NEW lines, NEW at \in DOMAIN lines, NEW op, IsOpcode(op),
           NEW label \in Nat \ {0}, NEW n, Immediate(n), n = 4 * (label - at - 1),
           lines[at] = Text(op, 0, 0, 0, label)
    PROVE  decode_instructions(Assemble(lines))[at] = Decoded(op, 0, 0, n)
<1>1. n = IF label = 0 THEN 0 ELSE 4 * (label - at - 1)
    OBVIOUS
<1> QED
    BY <1>1, AssembledLine

FactorialCode(code) ==
    /\ DOMAIN code = 1 .. 18
    /\ code[1] = Decoded("subl", 6, 0, 8) /\ code[2] = Decoded("readr", 5, 0, 0)
    /\ code[3] = Decoded("call", 0, 0, 12) /\ code[4] = Decoded("printr", 0, 0, 0)
    /\ code[5] = Decoded("addl_imm_reg", 6, 0, 8) /\ code[6] = Decoded("ret", 0, 0, 0)
    /\ code[7] = Decoded("pushl", 1, 0, 0) /\ code[8] = Decoded("movl_reg_reg", 5, 1, 0)
    /\ code[9] = Decoded("movl_imm_reg", 8, 0, 2) /\ code[10] = Decoded("cmpl", 8, 5, 0)
    /\ code[11] = Decoded("je", 0, 0, 16) /\ code[12] = Decoded("subl", 5, 0, 1)
    /\ code[13] = Decoded("call", 0, 0, -28) /\ code[14] = Decoded("imull", 1, 0, 0)
    /\ code[15] = Decoded("jmp", 0, 0, 4) /\ code[16] = Decoded("movl_imm_reg", 0, 0, 2)
    /\ code[17] = Decoded("popl", 1, 0, 0) /\ code[18] = Decoded("ret", 0, 0, 0)

\* The text of factorial.s, decoded.
LEMMA FactorialDecoded == FactorialCode(decode_instructions(Assemble(factorial)))
<1> DEFINE code == decode_instructions(Assemble(factorial))
<1>1. DOMAIN factorial = 1 .. 18 /\ DOMAIN code = 1 .. 18
    BY DecodesAll DEF factorial
<1>2. /\ Immediate(-28) /\ Immediate(0) /\ Immediate(1) /\ Immediate(2) /\ Immediate(4) /\ Immediate(8)
      /\ Immediate(12) /\ Immediate(16)
    BY DEF Immediate
<1>3. /\ factorial[1] = Text("subl", 6, 0, 8, 0) /\ factorial[2] = Text("readr", 5, 0, 0, 0)
      /\ factorial[3] = Text("call", 0, 0, 0, 7) /\ factorial[4] = Text("printr", 0, 0, 0, 0)
      /\ factorial[5] = Text("addl_imm_reg", 6, 0, 8, 0) /\ factorial[6] = Text("ret", 0, 0, 0, 0)
      /\ factorial[7] = Text("pushl", 1, 0, 0, 0) /\ factorial[8] = Text("movl_reg_reg", 5, 1, 0, 0)
    BY Written DEF factorial, eax, ebx, edi, esp
<1>4. code[1] = Decoded("subl", 6, 0, 8)
    BY <1>1, <1>2, <1>3, OpcodesAre, Assembled DEF code
<1>5. code[2] = Decoded("readr", 5, 0, 0)
    BY <1>1, <1>2, <1>3, OpcodesAre, Assembled DEF code
<1>6. code[3] = Decoded("call", 0, 0, 12)
    <2>1. 12 = 4 * (7 - 3 - 1)
        OBVIOUS
    <2> QED
        BY <1>1, <1>2, <1>3, <2>1, OpcodesAre, AssembledJump DEF code
<1>7. code[4] = Decoded("printr", 0, 0, 0)
    BY <1>1, <1>2, <1>3, OpcodesAre, Assembled DEF code
<1>8. code[5] = Decoded("addl_imm_reg", 6, 0, 8)
    BY <1>1, <1>2, <1>3, OpcodesAre, Assembled DEF code
<1>9. code[6] = Decoded("ret", 0, 0, 0)
    BY <1>1, <1>2, <1>3, OpcodesAre, Assembled DEF code
<1>10. code[7] = Decoded("pushl", 1, 0, 0)
    BY <1>1, <1>2, <1>3, OpcodesAre, Assembled DEF code
<1>11. code[8] = Decoded("movl_reg_reg", 5, 1, 0)
    BY <1>1, <1>2, <1>3, OpcodesAre, Assembled DEF code
<1>12. /\ factorial[9] = Text("movl_imm_reg", 8, 0, 2, 0) /\ factorial[10] = Text("cmpl", 8, 5, 0, 0)
      /\ factorial[11] = Text("je", 0, 0, 0, 16) /\ factorial[12] = Text("subl", 5, 0, 1, 0)
      /\ factorial[13] = Text("call", 0, 0, 0, 7) /\ factorial[14] = Text("imull", 1, 0, 0, 0)
      /\ factorial[15] = Text("jmp", 0, 0, 0, 17) /\ factorial[16] = Text("movl_imm_reg", 0, 0, 2, 0)
    BY Written DEF factorial, eax, ebx, edi, r8d
<1>13. code[9] = Decoded("movl_imm_reg", 8, 0, 2)
    BY <1>1, <1>2, <1>12, OpcodesAre, Assembled DEF code
<1>14. code[10] = Decoded("cmpl", 8, 5, 0)
    BY <1>1, <1>2, <1>12, OpcodesAre, Assembled DEF code
<1>15. code[11] = Decoded("je", 0, 0, 16)
    <2>1. 16 = 4 * (16 - 11 - 1)
        OBVIOUS
    <2> QED
        BY <1>1, <1>2, <1>12, <2>1, OpcodesAre, AssembledJump DEF code
<1>16. code[12] = Decoded("subl", 5, 0, 1)
    BY <1>1, <1>2, <1>12, OpcodesAre, Assembled DEF code
<1>17. code[13] = Decoded("call", 0, 0, -28)
    <2>1. -28 = 4 * (7 - 13 - 1)
        OBVIOUS
    <2> QED
        BY <1>1, <1>2, <1>12, <2>1, OpcodesAre, AssembledJump DEF code
<1>18. code[14] = Decoded("imull", 1, 0, 0)
    BY <1>1, <1>2, <1>12, OpcodesAre, Assembled DEF code
<1>19. code[15] = Decoded("jmp", 0, 0, 4)
    <2>1. 4 = 4 * (17 - 15 - 1)
        OBVIOUS
    <2> QED
        BY <1>1, <1>2, <1>12, <2>1, OpcodesAre, AssembledJump DEF code
<1>20. code[16] = Decoded("movl_imm_reg", 0, 0, 2)
    BY <1>1, <1>2, <1>12, OpcodesAre, Assembled DEF code
<1>21. /\ factorial[17] = Text("popl", 1, 0, 0, 0) /\ factorial[18] = Text("ret", 0, 0, 0, 0)
    BY Written DEF factorial, eax, ebx
<1>22. code[17] = Decoded("popl", 1, 0, 0)
    BY <1>1, <1>2, <1>21, OpcodesAre, Assembled DEF code
<1>23. code[18] = Decoded("ret", 0, 0, 0)
    BY <1>1, <1>2, <1>21, OpcodesAre, Assembled DEF code
<1> QED
    BY <1>1, <1>4, <1>5, <1>6, <1>7, <1>8, <1>9, <1>10, <1>11, <1>13, <1>14, <1>15, <1>16, <1>17,
       <1>18, <1>19,
       <1>20, <1>22, <1>23 DEF code, FactorialCode

Log2Code(code) ==
    /\ DOMAIN code = 1 .. 18
    /\ code[1] = Decoded("subl", 6, 0, 8) /\ code[2] = Decoded("readr", 5, 0, 0)
    /\ code[3] = Decoded("call", 0, 0, 12) /\ code[4] = Decoded("printr", 0, 0, 0)
    /\ code[5] = Decoded("addl_imm_reg", 6, 0, 8) /\ code[6] = Decoded("ret", 0, 0, 0)
    /\ code[7] = Decoded("movl_imm_reg", 8, 0, 2) /\ code[8] = Decoded("cmpl", 8, 5, 0)
    /\ code[9] = Decoded("jbe", 0, 0, 20) /\ code[10] = Decoded("subl", 6, 0, 8)
    /\ code[11] = Decoded("shrl", 5, 0, 0) /\ code[12] = Decoded("call", 0, 0, -24)
    /\ code[13] = Decoded("addl_imm_reg", 0, 0, 1) /\ code[14] = Decoded("jmp", 0, 0, 8)
    /\ code[15] = Decoded("movl_imm_reg", 0, 0, 1) /\ code[16] = Decoded("ret", 0, 0, 0)
    /\ code[17] = Decoded("addl_imm_reg", 6, 0, 8) /\ code[18] = Decoded("ret", 0, 0, 0)

\* The text of log2.s, decoded.
LEMMA Log2Decoded == Log2Code(decode_instructions(Assemble(log2)))
<1> DEFINE code == decode_instructions(Assemble(log2))
<1>1. DOMAIN log2 = 1 .. 18 /\ DOMAIN code = 1 .. 18
    BY DecodesAll DEF log2
<1>2. /\ Immediate(-24) /\ Immediate(0) /\ Immediate(1) /\ Immediate(2) /\ Immediate(8) /\ Immediate(12)
      /\ Immediate(20)
    BY DEF Immediate
<1>3. /\ log2[1] = Text("subl", 6, 0, 8, 0) /\ log2[2] = Text("readr", 5, 0, 0, 0)
      /\ log2[3] = Text("call", 0, 0, 0, 7) /\ log2[4] = Text("printr", 0, 0, 0, 0)
      /\ log2[5] = Text("addl_imm_reg", 6, 0, 8, 0) /\ log2[6] = Text("ret", 0, 0, 0, 0)
      /\ log2[7] = Text("movl_imm_reg", 8, 0, 2, 0) /\ log2[8] = Text("cmpl", 8, 5, 0, 0)
    BY Written DEF log2, eax, edi, esp, r8d
<1>4. code[1] = Decoded("subl", 6, 0, 8)
    BY <1>1, <1>2, <1>3, OpcodesAre, Assembled DEF code
<1>5. code[2] = Decoded("readr", 5, 0, 0)
    BY <1>1, <1>2, <1>3, OpcodesAre, Assembled DEF code
<1>6. code[3] = Decoded("call", 0, 0, 12)
    <2>1. 12 = 4 * (7 - 3 - 1)
        OBVIOUS
    <2> QED
        BY <1>1, <1>2, <1>3, <2>1, OpcodesAre, AssembledJump DEF code
<1>7. code[4] = Decoded("printr", 0, 0, 0)
    BY <1>1, <1>2, <1>3, OpcodesAre, Assembled DEF code
<1>8. code[5] = Decoded("addl_imm_reg", 6, 0, 8)
    BY <1>1, <1>2, <1>3, OpcodesAre, Assembled DEF code
<1>9. code[6] = Decoded("ret", 0, 0, 0)
    BY <1>1, <1>2, <1>3, OpcodesAre, Assembled DEF code
<1>10. code[7] = Decoded("movl_imm_reg", 8, 0, 2)
    BY <1>1, <1>2, <1>3, OpcodesAre, Assembled DEF code
<1>11. code[8] = Decoded("cmpl", 8, 5, 0)
    BY <1>1, <1>2, <1>3, OpcodesAre, Assembled DEF code
<1>12. /\ log2[9] = Text("jbe", 0, 0, 0, 15) /\ log2[10] = Text("subl", 6, 0, 8, 0)
      /\ log2[11] = Text("shrl", 5, 0, 0, 0) /\ log2[12] = Text("call", 0, 0, 0, 7)
      /\ log2[13] = Text("addl_imm_reg", 0, 0, 1, 0) /\ log2[14] = Text("jmp", 0, 0, 0, 17)
      /\ log2[15] = Text("movl_imm_reg", 0, 0, 1, 0) /\ log2[16] = Text("ret", 0, 0, 0, 0)
    BY Written DEF log2, eax, edi, esp
<1>13. code[9] = Decoded("jbe", 0, 0, 20)
    <2>1. 20 = 4 * (15 - 9 - 1)
        OBVIOUS
    <2> QED
        BY <1>1, <1>2, <1>12, <2>1, OpcodesAre, AssembledJump DEF code
<1>14. code[10] = Decoded("subl", 6, 0, 8)
    BY <1>1, <1>2, <1>12, OpcodesAre, Assembled DEF code
<1>15. code[11] = Decoded("shrl", 5, 0, 0)
    BY <1>1, <1>2, <1>12, OpcodesAre, Assembled DEF code
<1>16. code[12] = Decoded("call", 0, 0, -24)
    <2>1. -24 = 4 * (7 - 12 - 1)
        OBVIOUS
    <2> QED
        BY <1>1, <1>2, <1>12, <2>1, OpcodesAre, AssembledJump DEF code
<1>17. code[13] = Decoded("addl_imm_reg", 0, 0, 1)
    BY <1>1, <1>2, <1>12, OpcodesAre, Assembled DEF code
<1>18. code[14] = Decoded("jmp", 0, 0, 8)
    <2>1. 8 = 4 * (17 - 14 - 1)
        OBVIOUS
    <2> QED
        BY <1>1, <1>2, <1>12, <2>1, OpcodesAre, AssembledJump DEF code
<1>19. code[15] = Decoded("movl_imm_reg", 0, 0, 1)
    BY <1>1, <1>2, <1>12, OpcodesAre, Assembled DEF code
<1>20. code[16] = Decoded("ret", 0, 0, 0)
    BY <1>1, <1>2, <1>12, OpcodesAre, Assembled DEF code
<1>21. /\ log2[17] = Text("addl_imm_reg", 6, 0, 8, 0) /\ log2[18] = Text("ret", 0, 0, 0, 0)
    BY Written DEF log2, eax, esp
<1>22. code[17] = Decoded("addl_imm_reg", 6, 0, 8)
    BY <1>1, <1>2, <1>21, OpcodesAre, Assembled DEF code
<1>23. code[18] = Decoded("ret", 0, 0, 0)
    BY <1>1, <1>2, <1>21, OpcodesAre, Assembled DEF code
<1> QED
    BY <1>1, <1>4, <1>5, <1>6, <1>7, <1>8, <1>9, <1>10, <1>11, <1>13, <1>14, <1>15, <1>16, <1>17,
       <1>18, <1>19,
       <1>20, <1>22, <1>23 DEF code, Log2Code

SortCode(code) ==
    /\ DOMAIN code = 1 .. 69
    /\ code[1] = Decoded("subl", 6, 0, 32) /\ code[2] = Decoded("readr", 8, 0, 0)
    /\ code[3] = Decoded("movl_reg_deref", 8, 6, 0) /\ code[4] = Decoded("readr", 8, 0, 0)
    /\ code[5] = Decoded("movl_reg_deref", 8, 6, 4) /\ code[6] = Decoded("readr", 8, 0, 0)
    /\ code[7] = Decoded("movl_reg_deref", 8, 6, 8) /\ code[8] = Decoded("movl_imm_reg", 4, 0, 3)
    /\ code[9] = Decoded("movl_reg_reg", 6, 5, 0) /\ code[10] = Decoded("call", 0, 0, 76)
    /\ code[11] = Decoded("movl_deref_reg", 6, 8, 0) /\ code[12] = Decoded("printr", 8, 0, 0)
    /\ code[13] = Decoded("movl_deref_reg", 6, 8, 4) /\ code[14] = Decoded("printr", 8, 0, 0)
    /\ code[15] = Decoded("movl_deref_reg", 6, 8, 8) /\ code[16] = Decoded("printr", 8, 0, 0)
    /\ code[17] = Decoded("addl_imm_reg", 6, 0, 32) /\ code[18] = Decoded("ret", 0, 0, 0)
    /\ code[19] = Decoded("movl_imm_reg", 2, 0, 4) /\ code[20] = Decoded("imull", 4, 2, 0)
    /\ code[21] = Decoded("addl_reg_reg", 5, 2, 0) /\ code[22] = Decoded("movl_deref_reg", 2, 4, 0)
    /\ code[23] = Decoded("movl_imm_reg", 0, 0, 4) /\ code[24] = Decoded("imull", 3, 0, 0)
    /\ code[25] = Decoded("addl_reg_reg", 5, 0, 0) /\ code[26] = Decoded("movl_deref_reg", 0, 3, 0)
    /\ code[27] = Decoded("movl_reg_deref", 3, 2, 0) /\ code[28] = Decoded("movl_reg_deref", 4, 0, 0)
    /\ code[29] = Decoded("ret", 0, 0, 0) /\ code[30] = Decoded("pushl", 12, 0, 0)
    /\ code[31] = Decoded("pushl", 7, 0, 0) /\ code[32] = Decoded("pushl", 1, 0, 0)
    /\ code[33] = Decoded("movl_reg_reg", 4, 7, 0) /\ code[34] = Decoded("movl_imm_reg", 8, 0, 1)
    /\ code[35] = Decoded("cmpl", 8, 4, 0) /\ code[36] = Decoded("jle", 0, 0, 116)
    /\ code[37] = Decoded("movl_reg_reg", 5, 1, 0) /\ code[38] = Decoded("movl_imm_reg", 4, 0, 0)
    /\ code[39] = Decoded("jmp", 0, 0, 96) /\ code[40] = Decoded("movl_imm_reg", 12, 0, 1)
    /\ code[41] = Decoded("addl_reg_reg", 4, 12, 0) /\ code[42] = Decoded("movl_reg_reg", 4, 3, 0)
    /\ code[43] = Decoded("movl_reg_reg", 12, 0, 0) /\ code[44] = Decoded("jmp", 0, 0, 56)
    /\ code[45] = Decoded("movl_reg_reg", 0, 5, 0) /\ code[46] = Decoded("movl_reg_reg", 3, 2, 0)
    /\ code[47] = Decoded("movl_imm_reg", 8, 0, 4) /\ code[48] = Decoded("imull", 2, 8, 0)
    /\ code[49] = Decoded("addl_reg_reg", 1, 8, 0) /\ code[50] = Decoded("movl_deref_reg", 8, 2, 0)
    /\ code[51] = Decoded("movl_imm_reg", 8, 0, 4) /\ code[52] = Decoded("imull", 5, 8, 0)
    /\ code[53] = Decoded("addl_reg_reg", 1, 8, 0) /\ code[54] = Decoded("movl_deref_reg", 8, 8, 0)
    /\ code[55] = Decoded("cmpl", 2, 8, 0) /\ code[56] = Decoded("jge", 0, 0, 4)
    /\ code[57] = Decoded("movl_reg_reg", 0, 3, 0) /\ code[58] = Decoded("addl_imm_reg", 0, 0, 1)
    /\ code[59] = Decoded("cmpl", 7, 0, 0) /\ code[60] = Decoded("jl", 0, 0, -64)
    /\ code[61] = Decoded("movl_reg_reg", 1, 5, 0) /\ code[62] = Decoded("call", 0, 0, -176)
    /\ code[63] = Decoded("movl_reg_reg", 12, 4, 0) /\ code[64] = Decoded("cmpl", 7, 4, 0)
    /\ code[65] = Decoded("jl", 0, 0, -104) /\ code[66] = Decoded("popl", 1, 0, 0)
    /\ code[67] = Decoded("popl", 7, 0, 0) /\ code[68] = Decoded("popl", 12, 0, 0)
    /\ code[69] = Decoded("ret", 0, 0, 0)

\* The text of sort.s, decoded.
LEMMA SortDecoded == SortCode(decode_instructions(Assemble(sort)))
<1> DEFINE code == decode_instructions(Assemble(sort))
<1>1. DOMAIN sort = 1 .. 69 /\ DOMAIN code = 1 .. 69
    BY DecodesAll DEF sort
<1>2. /\ Immediate(-176) /\ Immediate(-104) /\ Immediate(-64) /\ Immediate(0) /\ Immediate(1)
      /\ Immediate(3) /\ Immediate(4) /\ Immediate(8) /\ Immediate(32) /\ Immediate(56) /\ Immediate(76)
      /\ Immediate(96) /\ Immediate(116)
    BY DEF Immediate
<1>3. /\ sort[1] = Text("subl", 6, 0, 32, 0) /\ sort[2] = Text("readr", 8, 0, 0, 0)
      /\ sort[3] = Text("movl_reg_deref", 8, 6, 0, 0) /\ sort[4] = Text("readr", 8, 0, 0, 0)
      /\ sort[5] = Text("movl_reg_deref", 8, 6, 4, 0) /\ sort[6] = Text("readr", 8, 0, 0, 0)
      /\ sort[7] = Text("movl_reg_deref", 8, 6, 8, 0) /\ sort[8] = Text("movl_imm_reg", 4, 0, 3, 0)
    BY Written DEF sort, eax, esi, esp, r8d
<1>4. code[1] = Decoded("subl", 6, 0, 32)
    BY <1>1, <1>2, <1>3, OpcodesAre, Assembled DEF code
<1>5. code[2] = Decoded("readr", 8, 0, 0)
    BY <1>1, <1>2, <1>3, OpcodesAre, Assembled DEF code
<1>6. code[3] = Decoded("movl_reg_deref", 8, 6, 0)
    BY <1>1, <1>2, <1>3, OpcodesAre, Assembled DEF code
<1>7. code[4] = Decoded("readr", 8, 0, 0)
    BY <1>1, <1>2, <1>3, OpcodesAre, Assembled DEF code
<1>8. code[5] = Decoded("movl_reg_deref", 8, 6, 4)
    BY <1>1, <1>2, <1>3, OpcodesAre, Assembled DEF code
<1>9. code[6] = Decoded("readr", 8, 0, 0)
    BY <1>1, <1>2, <1>3, OpcodesAre, Assembled DEF code
<1>10. code[7] = Decoded("movl_reg_deref", 8, 6, 8)
    BY <1>1, <1>2, <1>3, OpcodesAre, Assembled DEF code
<1>11. code[8] = Decoded("movl_imm_reg", 4, 0, 3)
    BY <1>1, <1>2, <1>3, OpcodesAre, Assembled DEF code
<1>12. /\ sort[9] = Text("movl_reg_reg", 6, 5, 0, 0) /\ sort[10] = Text("call", 0, 0, 0, 30)
      /\ sort[11] = Text("movl_deref_reg", 6, 8, 0, 0) /\ sort[12] = Text("printr", 8, 0, 0, 0)
      /\ sort[13] = Text("movl_deref_reg", 6, 8, 4, 0) /\ sort[14] = Text("printr", 8, 0, 0, 0)
      /\ sort[15] = Text("movl_deref_reg", 6, 8, 8, 0) /\ sort[16] = Text("printr", 8, 0, 0, 0)
    BY Written DEF sort, eax, edi, esp, r8d
<1>13. code[9] = Decoded("movl_reg_reg", 6, 5, 0)
    BY <1>1, <1>2, <1>12, OpcodesAre, Assembled DEF code
<1>14. code[10] = Decoded("call", 0, 0, 76)
    <2>1. 76 = 4 * (30 - 10 - 1)
        OBVIOUS
    <2> QED
        BY <1>1, <1>2, <1>12, <2>1, OpcodesAre, AssembledJump DEF code
<1>15. code[11] = Decoded("movl_deref_reg", 6, 8, 0)
    BY <1>1, <1>2, <1>12, OpcodesAre, Assembled DEF code
<1>16. code[12] = Decoded("printr", 8, 0, 0)
    BY <1>1, <1>2, <1>12, OpcodesAre, Assembled DEF code
<1>17. code[13] = Decoded("movl_deref_reg", 6, 8, 4)
    BY <1>1, <1>2, <1>12, OpcodesAre, Assembled DEF code
<1>18. code[14] = Decoded("printr", 8, 0, 0)
    BY <1>1, <1>2, <1>12, OpcodesAre, Assembled DEF code
<1>19. code[15] = Decoded("movl_deref_reg", 6, 8, 8)
    BY <1>1, <1>2, <1>12, OpcodesAre, Assembled DEF code
<1>20. code[16] = Decoded("printr", 8, 0, 0)
    BY <1>1, <1>2, <1>12, OpcodesAre, Assembled DEF code
<1>21. /\ sort[17] = Text("addl_imm_reg", 6, 0, 32, 0) /\ sort[18] = Text("ret", 0, 0, 0, 0)
      /\ sort[19] = Text("movl_imm_reg", 2, 0, 4, 0) /\ sort[20] = Text("imull", 4, 2, 0, 0)
      /\ sort[21] = Text("addl_reg_reg", 5, 2, 0, 0) /\ sort[22] = Text("movl_deref_reg", 2, 4, 0, 0)
      /\ sort[23] = Text("movl_imm_reg", 0, 0, 4, 0) /\ sort[24] = Text("imull", 3, 0, 0, 0)
    BY Written DEF sort, eax, ecx, edi, edx, esi, esp
<1>22. code[17] = Decoded("addl_imm_reg", 6, 0, 32)
    BY <1>1, <1>2, <1>21, OpcodesAre, Assembled DEF code
<1>23. code[18] = Decoded("ret", 0, 0, 0)
    BY <1>1, <1>2, <1>21, OpcodesAre, Assembled DEF code
<1>24. code[19] = Decoded("movl_imm_reg", 2, 0, 4)
    BY <1>1, <1>2, <1>21, OpcodesAre, Assembled DEF code
<1>25. code[20] = Decoded("imull", 4, 2, 0)
    BY <1>1, <1>2, <1>21, OpcodesAre, Assembled DEF code
<1>26. code[21] = Decoded("addl_reg_reg", 5, 2, 0)
    BY <1>1, <1>2, <1>21, OpcodesAre, Assembled DEF code
<1>27. code[22] = Decoded("movl_deref_reg", 2, 4, 0)
    BY <1>1, <1>2, <1>21, OpcodesAre, Assembled DEF code
<1>28. code[23] = Decoded("movl_imm_reg", 0, 0, 4)
    BY <1>1, <1>2, <1>21, OpcodesAre, Assembled DEF code
<1>29. code[24] = Decoded("imull", 3, 0, 0)
    BY <1>1, <1>2, <1>21, OpcodesAre, Assembled DEF code
<1>30. /\ sort[25] = Text("addl_reg_reg", 5, 0, 0, 0) /\ sort[26] = Text("movl_deref_reg", 0, 3, 0, 0)
      /\ sort[27] = Text("movl_reg_deref", 3, 2, 0, 0) /\ sort[28] = Text("movl_reg_deref", 4, 0, 0, 0)
      /\ sort[29] = Text("ret", 0, 0, 0, 0) /\ sort[30] = Text("pushl", 12, 0, 0, 0)
      /\ sort[31] = Text("pushl", 7, 0, 0, 0) /\ sort[32] = Text("pushl", 1, 0, 0, 0)
    BY Written DEF sort, eax, ebp, ebx, ecx, edi, edx, esi, r12d
<1>31. code[25] = Decoded("addl_reg_reg", 5, 0, 0)
    BY <1>1, <1>2, <1>30, OpcodesAre, Assembled DEF code
<1>32. code[26] = Decoded("movl_deref_reg", 0, 3, 0)
    BY <1>1, <1>2, <1>30, OpcodesAre, Assembled DEF code
<1>33. code[27] = Decoded("movl_reg_deref", 3, 2, 0)
    BY <1>1, <1>2, <1>30, OpcodesAre, Assembled DEF code
<1>34. code[28] = Decoded("movl_reg_deref", 4, 0, 0)
    BY <1>1, <1>2, <1>30, OpcodesAre, Assembled DEF code
<1>35. code[29] = Decoded("ret", 0, 0, 0)
    BY <1>1, <1>2, <1>30, OpcodesAre, Assembled DEF code
<1>36. code[30] = Decoded("pushl", 12, 0, 0)
    BY <1>1, <1>2, <1>30, OpcodesAre, Assembled DEF code
<1>37. code[31] = Decoded("pushl", 7, 0, 0)
    BY <1>1, <1>2, <1>30, OpcodesAre, Assembled DEF code
<1>38. code[32] = Decoded("pushl", 1, 0, 0)
    BY <1>1, <1>2, <1>30, OpcodesAre, Assembled DEF code
<1>39. /\ sort[33] = Text("movl_reg_reg", 4, 7, 0, 0) /\ sort[34] = Text("movl_imm_reg", 8, 0, 1, 0)
      /\ sort[35] = Text("cmpl", 8, 4, 0, 0) /\ sort[36] = Text("jle", 0, 0, 0, 66)
      /\ sort[37] = Text("movl_reg_reg", 5, 1, 0, 0) /\ sort[38] = Text("movl_imm_reg", 4, 0, 0, 0)
      /\ sort[39] = Text("jmp", 0, 0, 0, 64) /\ sort[40] = Text("movl_imm_reg", 12, 0, 1, 0)
    BY Written DEF sort, eax, ebp, ebx, edi, esi, r12d, r8d
<1>40. code[33] = Decoded("movl_reg_reg", 4, 7, 0)
    BY <1>1, <1>2, <1>39, OpcodesAre, Assembled DEF code
<1>41. code[34] = Decoded("movl_imm_reg", 8, 0, 1)
    BY <1>1, <1>2, <1>39, OpcodesAre, Assembled DEF code
<1>42. code[35] = Decoded("cmpl", 8, 4, 0)
    BY <1>1, <1>2, <1>39, OpcodesAre, Assembled DEF code
<1>43. code[36] = Decoded("jle", 0, 0, 116)
    <2>1. 116 = 4 * (66 - 36 - 1)
        OBVIOUS
    <2> QED
        BY <1>1, <1>2, <1>39, <2>1, OpcodesAre, AssembledJump DEF code
<1>44. code[37] = Decoded("movl_reg_reg", 5, 1, 0)
    BY <1>1, <1>2, <1>39, OpcodesAre, Assembled DEF code
<1>45. code[38] = Decoded("movl_imm_reg", 4, 0, 0)
    BY <1>1, <1>2, <1>39, OpcodesAre, Assembled DEF code
<1>46. code[39] = Decoded("jmp", 0, 0, 96)
    <2>1. 96 = 4 * (64 - 39 - 1)
        OBVIOUS
    <2> QED
        BY <1>1, <1>2, <1>39, <2>1, OpcodesAre, AssembledJump DEF code
<1>47. code[40] = Decoded("movl_imm_reg", 12, 0, 1)
    BY <1>1, <1>2, <1>39, OpcodesAre, Assembled DEF code
<1>48. /\ sort[41] = Text("addl_reg_reg", 4, 12, 0, 0) /\ sort[42] = Text("movl_reg_reg", 4, 3, 0, 0)
      /\ sort[43] = Text("movl_reg_reg", 12, 0, 0, 0) /\ sort[44] = Text("jmp", 0, 0, 0, 59)
      /\ sort[45] = Text("movl_reg_reg", 0, 5, 0, 0) /\ sort[46] = Text("movl_reg_reg", 3, 2, 0, 0)
      /\ sort[47] = Text("movl_imm_reg", 8, 0, 4, 0) /\ sort[48] = Text("imull", 2, 8, 0, 0)
    BY Written DEF sort, eax, ecx, edi, edx, esi, r12d, r8d
<1>49. code[41] = Decoded("addl_reg_reg", 4, 12, 0)
    BY <1>1, <1>2, <1>48, OpcodesAre, Assembled DEF code
<1>50. code[42] = Decoded("movl_reg_reg", 4, 3, 0)
    BY <1>1, <1>2, <1>48, OpcodesAre, Assembled DEF code
<1>51. code[43] = Decoded("movl_reg_reg", 12, 0, 0)
    BY <1>1, <1>2, <1>48, OpcodesAre, Assembled DEF code
<1>52. code[44] = Decoded("jmp", 0, 0, 56)
    <2>1. 56 = 4 * (59 - 44 - 1)
        OBVIOUS
    <2> QED
        BY <1>1, <1>2, <1>48, <2>1, OpcodesAre, AssembledJump DEF code
<1>53. code[45] = Decoded("movl_reg_reg", 0, 5, 0)
    BY <1>1, <1>2, <1>48, OpcodesAre, Assembled DEF code
<1>54. code[46] = Decoded("movl_reg_reg", 3, 2, 0)
    BY <1>1, <1>2, <1>48, OpcodesAre, Assembled DEF code
<1>55. code[47] = Decoded("movl_imm_reg", 8, 0, 4)
    BY <1>1, <1>2, <1>48, OpcodesAre, Assembled DEF code
<1>56. code[48] = Decoded("imull", 2, 8, 0)
    BY <1>1, <1>2, <1>48, OpcodesAre, Assembled DEF code
<1>57. /\ sort[49] = Text("addl_reg_reg", 1, 8, 0, 0) /\ sort[50] = Text("movl_deref_reg", 8, 2, 0, 0)
      /\ sort[51] = Text("movl_imm_reg", 8, 0, 4, 0) /\ sort[52] = Text("imull", 5, 8, 0, 0)
      /\ sort[53] = Text("addl_reg_reg", 1, 8, 0, 0) /\ sort[54] = Text("movl_deref_reg", 8, 8, 0, 0)
      /\ sort[55] = Text("cmpl", 2, 8, 0, 0) /\ sort[56] = Text("jge", 0, 0, 0, 58)
    BY Written DEF sort, eax, ebx, ecx, edi, r8d
<1>58. code[49] = Decoded("addl_reg_reg", 1, 8, 0)
    BY <1>1, <1>2, <1>57, OpcodesAre, Assembled DEF code
<1>59. code[50] = Decoded("movl_deref_reg", 8, 2, 0)
    BY <1>1, <1>2, <1>57, OpcodesAre, Assembled DEF code
<1>60. code[51] = Decoded("movl_imm_reg", 8, 0, 4)
    BY <1>1, <1>2, <1>57, OpcodesAre, Assembled DEF code
<1>61. code[52] = Decoded("imull", 5, 8, 0)
    BY <1>1, <1>2, <1>57, OpcodesAre, Assembled DEF code
<1>62. code[53] = Decoded("addl_reg_reg", 1, 8, 0)
    BY <1>1, <1>2, <1>57, OpcodesAre, Assembled DEF code
<1>63. code[54] = Decoded("movl_deref_reg", 8, 8, 0)
    BY <1>1, <1>2, <1>57, OpcodesAre, Assembled DEF code
<1>64. code[55] = Decoded("cmpl", 2, 8, 0)
    BY <1>1, <1>2, <1>57, OpcodesAre, Assembled DEF code
<1>65. code[56] = Decoded("jge", 0, 0, 4)
    <2>1. 4 = 4 * (58 - 56 - 1)
        OBVIOUS
    <2> QED
        BY <1>1, <1>2, <1>57, <2>1, OpcodesAre, AssembledJump DEF code
<1>66. /\ sort[57] = Text("movl_reg_reg", 0, 3, 0, 0) /\ sort[58] = Text("addl_imm_reg", 0, 0, 1, 0)
      /\ sort[59] = Text("cmpl", 7, 0, 0, 0) /\ sort[60] = Text("jl", 0, 0, 0, 45)
      /\ sort[61] = Text("movl_reg_reg", 1, 5, 0, 0) /\ sort[62] = Text("call", 0, 0, 0, 19)
      /\ sort[63] = Text("movl_reg_reg", 12, 4, 0, 0) /\ sort[64] = Text("cmpl", 7, 4, 0, 0)
    BY Written DEF sort, eax, ebp, ebx, edi, edx, esi, r12d
<1>67. code[57] = Decoded("movl_reg_reg", 0, 3, 0)
    BY <1>1, <1>2, <1>66, OpcodesAre, Assembled DEF code
<1>68. code[58] = Decoded("addl_imm_reg", 0, 0, 1)
    BY <1>1, <1>2, <1>66, OpcodesAre, Assembled DEF code
<1>69. code[59] = Decoded("cmpl", 7, 0, 0)
    BY <1>1, <1>2, <1>66, OpcodesAre, Assembled DEF code
<1>70. code[60] = Decoded("jl", 0, 0, -64)
    <2>1. -64 = 4 * (45 - 60 - 1)
        OBVIOUS
    <2> QED
        BY <1>1, <1>2, <1>66, <2>1, OpcodesAre, AssembledJump DEF code
<1>71. code[61] = Decoded("movl_reg_reg", 1, 5, 0)
    BY <1>1, <1>2, <1>66, OpcodesAre, Assembled DEF code
<1>72. code[62] = Decoded("call", 0, 0, -176)
    <2>1. -176 = 4 * (19 - 62 - 1)
        OBVIOUS
    <2> QED
        BY <1>1, <1>2, <1>66, <2>1, OpcodesAre, AssembledJump DEF code
<1>73. code[63] = Decoded("movl_reg_reg", 12, 4, 0)
    BY <1>1, <1>2, <1>66, OpcodesAre, Assembled DEF code
<1>74. code[64] = Decoded("cmpl", 7, 4, 0)
    BY <1>1, <1>2, <1>66, OpcodesAre, Assembled DEF code
<1>75. /\ sort[65] = Text("jl", 0, 0, 0, 40) /\ sort[66] = Text("popl", 1, 0, 0, 0)
      /\ sort[67] = Text("popl", 7, 0, 0, 0) /\ sort[68] = Text("popl", 12, 0, 0, 0)
      /\ sort[69] = Text("ret", 0, 0, 0, 0)
    BY Written DEF sort, eax, ebp, ebx, r12d
<1>76. code[65] = Decoded("jl", 0, 0, -104)
    <2>1. -104 = 4 * (40 - 65 - 1)
        OBVIOUS
    <2> QED
        BY <1>1, <1>2, <1>75, <2>1, OpcodesAre, AssembledJump DEF code
<1>77. code[66] = Decoded("popl", 1, 0, 0)
    BY <1>1, <1>2, <1>75, OpcodesAre, Assembled DEF code
<1>78. code[67] = Decoded("popl", 7, 0, 0)
    BY <1>1, <1>2, <1>75, OpcodesAre, Assembled DEF code
<1>79. code[68] = Decoded("popl", 12, 0, 0)
    BY <1>1, <1>2, <1>75, OpcodesAre, Assembled DEF code
<1>80. code[69] = Decoded("ret", 0, 0, 0)
    BY <1>1, <1>2, <1>75, OpcodesAre, Assembled DEF code
<1> QED
    BY <1>1, <1>4, <1>5, <1>6, <1>7, <1>8, <1>9, <1>10, <1>11, <1>13, <1>14, <1>15, <1>16, <1>17,
       <1>18, <1>19,
       <1>20, <1>22, <1>23, <1>24, <1>25, <1>26, <1>27, <1>28, <1>29, <1>31, <1>32, <1>33, <1>34, <1>35,
       <1>36, <1>37, <1>38, <1>40, <1>41, <1>42, <1>43, <1>44, <1>45, <1>46, <1>47, <1>49, <1>50, <1>51,
       <1>52, <1>53, <1>54, <1>55, <1>56, <1>58, <1>59, <1>60, <1>61, <1>62, <1>63, <1>64, <1>65, <1>67,
       <1>68, <1>69, <1>70, <1>71, <1>72, <1>73, <1>74, <1>76, <1>77, <1>78, <1>79, <1>80 DEF code, SortCode

ComparisonsCode(code) ==
    /\ DOMAIN code = 1 .. 13
    /\ code[1] = Decoded("readr", 0, 0, 0) /\ code[2] = Decoded("readr", 1, 0, 0)
    /\ code[3] = Decoded("cmpl", 0, 1, 0) /\ code[4] = Decoded("je", 0, 0, 4)
    /\ code[5] = Decoded("printr", 0, 0, 0) /\ code[6] = Decoded("jl", 0, 0, 4)
    /\ code[7] = Decoded("printr", 0, 0, 0) /\ code[8] = Decoded("jle", 0, 0, 4)
    /\ code[9] = Decoded("printr", 0, 0, 0) /\ code[10] = Decoded("jge", 0, 0, 4)
    /\ code[11] = Decoded("printr", 0, 0, 0) /\ code[12] = Decoded("jbe", 0, 0, 4)
    /\ code[13] = Decoded("printr", 0, 0, 0)

\* The text of the comparisons, decoded.
LEMMA ComparisonsDecoded == ComparisonsCode(decode_instructions(Assemble(comparisons)))
<1> DEFINE code == decode_instructions(Assemble(comparisons))
<1>1. DOMAIN comparisons = 1 .. 13 /\ DOMAIN code = 1 .. 13
    BY DecodesAll DEF comparisons
<1>2. /\ Immediate(0) /\ Immediate(4)
    BY DEF Immediate
<1>3. /\ comparisons[1] = Text("readr", 0, 0, 0, 0) /\ comparisons[2] = Text("readr", 1, 0, 0, 0)
      /\ comparisons[3] = Text("cmpl", 0, 1, 0, 0) /\ comparisons[4] = Text("je", 0, 0, 0, 6)
      /\ comparisons[5] = Text("printr", 0, 0, 0, 0) /\ comparisons[6] = Text("jl", 0, 0, 0, 8)
      /\ comparisons[7] = Text("printr", 0, 0, 0, 0) /\ comparisons[8] = Text("jle", 0, 0, 0, 10)
    BY Written DEF comparisons, eax, ebx
<1>4. code[1] = Decoded("readr", 0, 0, 0)
    BY <1>1, <1>2, <1>3, OpcodesAre, Assembled DEF code
<1>5. code[2] = Decoded("readr", 1, 0, 0)
    BY <1>1, <1>2, <1>3, OpcodesAre, Assembled DEF code
<1>6. code[3] = Decoded("cmpl", 0, 1, 0)
    BY <1>1, <1>2, <1>3, OpcodesAre, Assembled DEF code
<1>7. code[4] = Decoded("je", 0, 0, 4)
    <2>1. 4 = 4 * (6 - 4 - 1)
        OBVIOUS
    <2> QED
        BY <1>1, <1>2, <1>3, <2>1, OpcodesAre, AssembledJump DEF code
<1>8. code[5] = Decoded("printr", 0, 0, 0)
    BY <1>1, <1>2, <1>3, OpcodesAre, Assembled DEF code
<1>9. code[6] = Decoded("jl", 0, 0, 4)
    <2>1. 4 = 4 * (8 - 6 - 1)
        OBVIOUS
    <2> QED
        BY <1>1, <1>2, <1>3, <2>1, OpcodesAre, AssembledJump DEF code
<1>10. code[7] = Decoded("printr", 0, 0, 0)
    BY <1>1, <1>2, <1>3, OpcodesAre, Assembled DEF code
<1>11. code[8] = Decoded("jle", 0, 0, 4)
    <2>1. 4 = 4 * (10 - 8 - 1)
        OBVIOUS
    <2> QED
        BY <1>1, <1>2, <1>3, <2>1, OpcodesAre, AssembledJump DEF code
<1>12. /\ comparisons[9] = Text("printr", 0, 0, 0, 0) /\ comparisons[10] = Text("jge", 0, 0, 0, 12)
      /\ comparisons[11] = Text("printr", 0, 0, 0, 0) /\ comparisons[12] = Text("jbe", 0, 0, 0, 14)
      /\ comparisons[13] = Text("printr", 0, 0, 0, 0)
    BY Written DEF comparisons, eax
<1>13. code[9] = Decoded("printr", 0, 0, 0)
    BY <1>1, <1>2, <1>12, OpcodesAre, Assembled DEF code
<1>14. code[10] = Decoded("jge", 0, 0, 4)
    <2>1. 4 = 4 * (12 - 10 - 1)
        OBVIOUS
    <2> QED
        BY <1>1, <1>2, <1>12, <2>1, OpcodesAre, AssembledJump DEF code
<1>15. code[11] = Decoded("printr", 0, 0, 0)
    BY <1>1, <1>2, <1>12, OpcodesAre, Assembled DEF code
<1>16. code[12] = Decoded("jbe", 0, 0, 4)
    <2>1. 4 = 4 * (14 - 12 - 1)
        OBVIOUS
    <2> QED
        BY <1>1, <1>2, <1>12, <2>1, OpcodesAre, AssembledJump DEF code
<1>17. code[13] = Decoded("printr", 0, 0, 0)
    BY <1>1, <1>2, <1>12, OpcodesAre, Assembled DEF code
<1> QED
    BY <1>1, <1>4, <1>5, <1>6, <1>7, <1>8, <1>9, <1>10, <1>11, <1>13, <1>14, <1>15, <1>16,
       <1>17 DEF code, ComparisonsCode

CmplCode(code) ==
    /\ DOMAIN code = 1 .. 28
    /\ code[1] = Decoded("movl_imm_reg", 0, 0, 1) /\ code[2] = Decoded("movl_imm_reg", 1, 0, 2)
    /\ code[3] = Decoded("movl_imm_reg", 2, 0, -1) /\ code[4] = Decoded("movl_imm_reg", 3, 0, -2)
    /\ code[5] = Decoded("cmpl", 0, 0, 0) /\ code[6] = Decoded("printr", 16, 0, 0)
    /\ code[7] = Decoded("cmpl", 2, 2, 0) /\ code[8] = Decoded("printr", 16, 0, 0)
    /\ code[9] = Decoded("cmpl", 0, 1, 0) /\ code[10] = Decoded("printr", 16, 0, 0)
    /\ code[11] = Decoded("cmpl", 1, 0, 0) /\ code[12] = Decoded("printr", 16, 0, 0)
    /\ code[13] = Decoded("cmpl", 0, 2, 0) /\ code[14] = Decoded("printr", 16, 0, 0)
    /\ code[15] = Decoded("cmpl", 2, 0, 0) /\ code[16] = Decoded("printr", 16, 0, 0)
    /\ code[17] = Decoded("cmpl", 2, 3, 0) /\ code[18] = Decoded("printr", 16, 0, 0)
    /\ code[19] = Decoded("cmpl", 3, 2, 0) /\ code[20] = Decoded("printr", 16, 0, 0)
    /\ code[21] = Decoded("movl_imm_reg", 4, 0, -1) /\ code[22] = Decoded("shrl", 4, 0, 0)
    /\ code[23] = Decoded("cmpl", 3, 4, 0) /\ code[24] = Decoded("printr", 16, 0, 0)
    /\ code[25] = Decoded("subl", 4, 0, -1) /\ code[26] = Decoded("cmpl", 0, 4, 0)
    /\ code[27] = Decoded("printr", 16, 0, 0) /\ code[28] = Decoded("ret", 0, 0, 0)

\* The text of cmpl.s, decoded.
LEMMA CmplDecoded == CmplCode(decode_instructions(Assemble(flags)))
<1> DEFINE code == decode_instructions(Assemble(flags))
<1>1. DOMAIN flags = 1 .. 28 /\ DOMAIN code = 1 .. 28
    BY DecodesAll DEF flags
<1>2. /\ Immediate(0) /\ Immediate(1) /\ Immediate(2) /\ Immediate(-1) /\ Immediate(-2)
    BY DEF Immediate
<1>3. /\ flags[1] = Text("movl_imm_reg", 0, 0, 1, 0)
      /\ flags[2] = Text("movl_imm_reg", 1, 0, 2, 0)
      /\ flags[3] = Text("movl_imm_reg", 2, 0, -1, 0)
      /\ flags[4] = Text("movl_imm_reg", 3, 0, -2, 0)
      /\ flags[5] = Text("cmpl", 0, 0, 0, 0)
      /\ flags[6] = Text("printr", 16, 0, 0, 0)
      /\ flags[7] = Text("cmpl", 2, 2, 0, 0)
    BY Written DEF flags, eax, ebx, ecx, edx, esi, eflags
<1>4. /\ flags[8] = Text("printr", 16, 0, 0, 0)
      /\ flags[9] = Text("cmpl", 0, 1, 0, 0)
      /\ flags[10] = Text("printr", 16, 0, 0, 0)
      /\ flags[11] = Text("cmpl", 1, 0, 0, 0)
      /\ flags[12] = Text("printr", 16, 0, 0, 0)
      /\ flags[13] = Text("cmpl", 0, 2, 0, 0)
      /\ flags[14] = Text("printr", 16, 0, 0, 0)
    BY Written DEF flags, eax, ebx, ecx, edx, esi, eflags
<1>5. /\ flags[15] = Text("cmpl", 2, 0, 0, 0)
      /\ flags[16] = Text("printr", 16, 0, 0, 0)
      /\ flags[17] = Text("cmpl", 2, 3, 0, 0)
      /\ flags[18] = Text("printr", 16, 0, 0, 0)
      /\ flags[19] = Text("cmpl", 3, 2, 0, 0)
      /\ flags[20] = Text("printr", 16, 0, 0, 0)
      /\ flags[21] = Text("movl_imm_reg", 4, 0, -1, 0)
    BY Written DEF flags, eax, ebx, ecx, edx, esi, eflags
<1>6. /\ flags[22] = Text("shrl", 4, 0, 0, 0)
      /\ flags[23] = Text("cmpl", 3, 4, 0, 0)
      /\ flags[24] = Text("printr", 16, 0, 0, 0)
      /\ flags[25] = Text("subl", 4, 0, -1, 0)
      /\ flags[26] = Text("cmpl", 0, 4, 0, 0)
      /\ flags[27] = Text("printr", 16, 0, 0, 0)
      /\ flags[28] = Text("ret", 0, 0, 0, 0)
    BY Written DEF flags, eax, ebx, ecx, edx, esi, eflags
<1>7. code[1] = Decoded("movl_imm_reg", 0, 0, 1)
    BY <1>1, <1>2, <1>3, OpcodesAre, Assembled DEF code
<1>8. code[2] = Decoded("movl_imm_reg", 1, 0, 2)
    BY <1>1, <1>2, <1>3, OpcodesAre, Assembled DEF code
<1>9. code[3] = Decoded("movl_imm_reg", 2, 0, -1)
    BY <1>1, <1>2, <1>3, OpcodesAre, Assembled DEF code
<1>10. code[4] = Decoded("movl_imm_reg", 3, 0, -2)
    BY <1>1, <1>2, <1>3, OpcodesAre, Assembled DEF code
<1>11. code[5] = Decoded("cmpl", 0, 0, 0)
    BY <1>1, <1>2, <1>3, OpcodesAre, Assembled DEF code
<1>12. code[6] = Decoded("printr", 16, 0, 0)
    BY <1>1, <1>2, <1>3, OpcodesAre, Assembled DEF code
<1>13. code[7] = Decoded("cmpl", 2, 2, 0)
    BY <1>1, <1>2, <1>3, OpcodesAre, Assembled DEF code
<1>14. code[8] = Decoded("printr", 16, 0, 0)
    BY <1>1, <1>2, <1>4, OpcodesAre, Assembled DEF code
<1>15. code[9] = Decoded("cmpl", 0, 1, 0)
    BY <1>1, <1>2, <1>4, OpcodesAre, Assembled DEF code
<1>16. code[10] = Decoded("printr", 16, 0, 0)
    BY <1>1, <1>2, <1>4, OpcodesAre, Assembled DEF code
<1>17. code[11] = Decoded("cmpl", 1, 0, 0)
    BY <1>1, <1>2, <1>4, OpcodesAre, Assembled DEF code
<1>18. code[12] = Decoded("printr", 16, 0, 0)
    BY <1>1, <1>2, <1>4, OpcodesAre, Assembled DEF code
<1>19. code[13] = Decoded("cmpl", 0, 2, 0)
    BY <1>1, <1>2, <1>4, OpcodesAre, Assembled DEF code
<1>20. code[14] = Decoded("printr", 16, 0, 0)
    BY <1>1, <1>2, <1>4, OpcodesAre, Assembled DEF code
<1>21. code[15] = Decoded("cmpl", 2, 0, 0)
    BY <1>1, <1>2, <1>5, OpcodesAre, Assembled DEF code
<1>22. code[16] = Decoded("printr", 16, 0, 0)
    BY <1>1, <1>2, <1>5, OpcodesAre, Assembled DEF code
<1>23. code[17] = Decoded("cmpl", 2, 3, 0)
    BY <1>1, <1>2, <1>5, OpcodesAre, Assembled DEF code
<1>24. code[18] = Decoded("printr", 16, 0, 0)
    BY <1>1, <1>2, <1>5, OpcodesAre, Assembled DEF code
<1>25. code[19] = Decoded("cmpl", 3, 2, 0)
    BY <1>1, <1>2, <1>5, OpcodesAre, Assembled DEF code
<1>26. code[20] = Decoded("printr", 16, 0, 0)
    BY <1>1, <1>2, <1>5, OpcodesAre, Assembled DEF code
<1>27. code[21] = Decoded("movl_imm_reg", 4, 0, -1)
    BY <1>1, <1>2, <1>5, OpcodesAre, Assembled DEF code
<1>28. code[22] = Decoded("shrl", 4, 0, 0)
    BY <1>1, <1>2, <1>6, OpcodesAre, Assembled DEF code
<1>29. code[23] = Decoded("cmpl", 3, 4, 0)
    BY <1>1, <1>2, <1>6, OpcodesAre, Assembled DEF code
<1>30. code[24] = Decoded("printr", 16, 0, 0)
    BY <1>1, <1>2, <1>6, OpcodesAre, Assembled DEF code
<1>31. code[25] = Decoded("subl", 4, 0, -1)
    BY <1>1, <1>2, <1>6, OpcodesAre, Assembled DEF code
<1>32. code[26] = Decoded("cmpl", 0, 4, 0)
    BY <1>1, <1>2, <1>6, OpcodesAre, Assembled DEF code
<1>33. code[27] = Decoded("printr", 16, 0, 0)
    BY <1>1, <1>2, <1>6, OpcodesAre, Assembled DEF code
<1>34. code[28] = Decoded("ret", 0, 0, 0)
    BY <1>1, <1>2, <1>6, OpcodesAre, Assembled DEF code
<1> QED
    BY <1>1, <1>7, <1>8, <1>9, <1>10, <1>11, <1>12, <1>13, <1>14, <1>15, <1>16, <1>17, <1>18,
       <1>19, <1>20, <1>21, <1>22, <1>23, <1>24, <1>25, <1>26, <1>27, <1>28, <1>29, <1>30, <1>31, <1>32,
       <1>33, <1>34 DEF code, CmplCode

Unaligned1Code(code) ==
    /\ DOMAIN code = 1 .. 5
    /\ code[1] = Decoded("readr", 1, 0, 0) /\ code[2] = Decoded("printr", 1, 0, 0)
    /\ code[3] = Decoded("movl_reg_deref", 1, 0, 0) /\ code[4] = Decoded("movl_deref_reg", 0, 0, 1)
    /\ code[5] = Decoded("printr", 0, 0, 0)

\* The text of unaligned1.s, decoded.
LEMMA Unaligned1Decoded == Unaligned1Code(decode_instructions(Assemble(unaligned1)))
<1> DEFINE code == decode_instructions(Assemble(unaligned1))
<1>1. DOMAIN unaligned1 = 1 .. 5 /\ DOMAIN code = 1 .. 5
    BY DecodesAll DEF unaligned1
<1>2. /\ Immediate(0) /\ Immediate(1)
    BY DEF Immediate
<1>3. /\ unaligned1[1] = Text("readr", 1, 0, 0, 0) /\ unaligned1[2] = Text("printr", 1, 0, 0, 0)
      /\ unaligned1[3] = Text("movl_reg_deref", 1, 0, 0, 0)
      /\ unaligned1[4] = Text("movl_deref_reg", 0, 0, 1, 0) /\ unaligned1[5] = Text("printr", 0, 0, 0, 0)
    BY Written DEF unaligned1, eax, ebx
<1>4. code[1] = Decoded("readr", 1, 0, 0)
    BY <1>1, <1>2, <1>3, OpcodesAre, Assembled DEF code
<1>5. code[2] = Decoded("printr", 1, 0, 0)
    BY <1>1, <1>2, <1>3, OpcodesAre, Assembled DEF code
<1>6. code[3] = Decoded("movl_reg_deref", 1, 0, 0)
    BY <1>1, <1>2, <1>3, OpcodesAre, Assembled DEF code
<1>7. code[4] = Decoded("movl_deref_reg", 0, 0, 1)
    BY <1>1, <1>2, <1>3, OpcodesAre, Assembled DEF code
<1>8. code[5] = Decoded("printr", 0, 0, 0)
    BY <1>1, <1>2, <1>3, OpcodesAre, Assembled DEF code
<1> QED
    BY <1>1, <1>4, <1>5, <1>6, <1>7, <1>8 DEF code, Unaligned1Code

Unaligned2Code(code) ==
    /\ DOMAIN code = 1 .. 5
    /\ code[1] = Decoded("readr", 1, 0, 0) /\ code[2] = Decoded("printr", 1, 0, 0)
    /\ code[3] = Decoded("movl_reg_deref", 1, 0, 1) /\ code[4] = Decoded("movl_deref_reg", 0, 0, 0)
    /\ code[5] = Decoded("printr", 0, 0, 0)

\* The text of unaligned2.s, decoded.
LEMMA Unaligned2Decoded == Unaligned2Code(decode_instructions(Assemble(unaligned2)))
<1> DEFINE code == decode_instructions(Assemble(unaligned2))
<1>1. DOMAIN unaligned2 = 1 .. 5 /\ DOMAIN code = 1 .. 5
    BY DecodesAll DEF unaligned2
<1>2. /\ Immediate(0) /\ Immediate(1)
    BY DEF Immediate
<1>3. /\ unaligned2[1] = Text("readr", 1, 0, 0, 0) /\ unaligned2[2] = Text("printr", 1, 0, 0, 0)
      /\ unaligned2[3] = Text("movl_reg_deref", 1, 0, 1, 0)
      /\ unaligned2[4] = Text("movl_deref_reg", 0, 0, 0, 0) /\ unaligned2[5] = Text("printr", 0, 0, 0, 0)
    BY Written DEF unaligned2, eax, ebx
<1>4. code[1] = Decoded("readr", 1, 0, 0)
    BY <1>1, <1>2, <1>3, OpcodesAre, Assembled DEF code
<1>5. code[2] = Decoded("printr", 1, 0, 0)
    BY <1>1, <1>2, <1>3, OpcodesAre, Assembled DEF code
<1>6. code[3] = Decoded("movl_reg_deref", 1, 0, 1)
    BY <1>1, <1>2, <1>3, OpcodesAre, Assembled DEF code
<1>7. code[4] = Decoded("movl_deref_reg", 0, 0, 0)
    BY <1>1, <1>2, <1>3, OpcodesAre, Assembled DEF code
<1>8. code[5] = Decoded("printr", 0, 0, 0)
    BY <1>1, <1>2, <1>3, OpcodesAre, Assembled DEF code
<1> QED
    BY <1>1, <1>4, <1>5, <1>6, <1>7, <1>8 DEF code, Unaligned2Code

WildPointerCode(code) ==
    /\ DOMAIN code = 1 .. 4
    /\ code[1] = Decoded("readr", 1, 0, 0) /\ code[2] = Decoded("movl_reg_deref", 1, 1, 0)
    /\ code[3] = Decoded("movl_deref_reg", 1, 0, 1) /\ code[4] = Decoded("popl", 0, 0, 0)

\* The text of wild_pointer, decoded.
LEMMA WildPointerDecoded == WildPointerCode(decode_instructions(Assemble(wild_pointer)))
<1> DEFINE code == decode_instructions(Assemble(wild_pointer))
<1>1. DOMAIN wild_pointer = 1 .. 4 /\ DOMAIN code = 1 .. 4
    BY DecodesAll DEF wild_pointer
<1>2. /\ Immediate(0) /\ Immediate(1)
    BY DEF Immediate
<1>3. /\ wild_pointer[1] = Text("readr", 1, 0, 0, 0)
      /\ wild_pointer[2] = Text("movl_reg_deref", 1, 1, 0, 0)
      /\ wild_pointer[3] = Text("movl_deref_reg", 1, 0, 1, 0) /\ wild_pointer[4] = Text("popl", 0, 0, 0, 0)
    BY Written DEF wild_pointer, eax, ebx
<1>4. code[1] = Decoded("readr", 1, 0, 0)
    BY <1>1, <1>2, <1>3, OpcodesAre, Assembled DEF code
<1>5. code[2] = Decoded("movl_reg_deref", 1, 1, 0)
    BY <1>1, <1>2, <1>3, OpcodesAre, Assembled DEF code
<1>6. code[3] = Decoded("movl_deref_reg", 1, 0, 1)
    BY <1>1, <1>2, <1>3, OpcodesAre, Assembled DEF code
<1>7. code[4] = Decoded("popl", 0, 0, 0)
    BY <1>1, <1>2, <1>3, OpcodesAre, Assembled DEF code
<1> QED
    BY <1>1, <1>4, <1>5, <1>6, <1>7 DEF code, WildPointerCode

WildStackCode(code) ==
    /\ DOMAIN code = 1 .. 4
    /\ code[1] = Decoded("readr", 6, 0, 0) /\ code[2] = Decoded("pushl", 0, 0, 0)
    /\ code[3] = Decoded("popl", 0, 0, 0) /\ code[4] = Decoded("ret", 0, 0, 0)

\* The text of wild_stack, decoded.
LEMMA WildStackDecoded == WildStackCode(decode_instructions(Assemble(wild_stack)))
<1> DEFINE code == decode_instructions(Assemble(wild_stack))
<1>1. DOMAIN wild_stack = 1 .. 4 /\ DOMAIN code = 1 .. 4
    BY DecodesAll DEF wild_stack
<1>2. /\ Immediate(0)
    BY DEF Immediate
<1>3. /\ wild_stack[1] = Text("readr", 6, 0, 0, 0) /\ wild_stack[2] = Text("pushl", 0, 0, 0, 0)
      /\ wild_stack[3] = Text("popl", 0, 0, 0, 0) /\ wild_stack[4] = Text("ret", 0, 0, 0, 0)
    BY Written DEF wild_stack, eax, esp
<1>4. code[1] = Decoded("readr", 6, 0, 0)
    BY <1>1, <1>2, <1>3, OpcodesAre, Assembled DEF code
<1>5. code[2] = Decoded("pushl", 0, 0, 0)
    BY <1>1, <1>2, <1>3, OpcodesAre, Assembled DEF code
<1>6. code[3] = Decoded("popl", 0, 0, 0)
    BY <1>1, <1>2, <1>3, OpcodesAre, Assembled DEF code
<1>7. code[4] = Decoded("ret", 0, 0, 0)
    BY <1>1, <1>2, <1>3, OpcodesAre, Assembled DEF code
<1> QED
    BY <1>1, <1>4, <1>5, <1>6, <1>7 DEF code, WildStackCode

WildJumpCode(code) ==
    /\ DOMAIN code = 1 .. 1
    /\ code[1] = Decoded("jmp", 0, 0, 4)

\* The text of wild_jump, decoded.
LEMMA WildJumpDecoded == WildJumpCode(decode_instructions(Assemble(wild_jump)))
<1> DEFINE code == decode_instructions(Assemble(wild_jump))
<1>1. DOMAIN wild_jump = 1 .. 1 /\ DOMAIN code = 1 .. 1
    BY DecodesAll DEF wild_jump
<1>2. /\ Immediate(4)
    BY DEF Immediate
<1>3. /\ wild_jump[1] = Text("jmp", 0, 0, 0, 3)
    BY Written DEF wild_jump
<1>4. code[1] = Decoded("jmp", 0, 0, 4)
    <2>1. 4 = 4 * (3 - 1 - 1)
        OBVIOUS
    <2> QED
        BY <1>1, <1>2, <1>3, <2>1, OpcodesAre, AssembledJump DEF code
<1> QED
    BY <1>1, <1>4 DEF code, WildJumpCode

-----------------------------------------------------------------------------
(* One line of a program.                                                  *)

\* Every step executes the instruction at the program counter.
Does(op) ==
    /\ op = "subl" => subl
    /\ op = "addl_reg_reg" => addl_reg_reg
    /\ op = "addl_imm_reg" => addl_imm_reg
    /\ op = "imull" => imull
    /\ op = "shrl" => shrl
    /\ op = "movl_reg_reg" => movl_reg_reg
    /\ op = "movl_imm_reg" => movl_imm_reg
    /\ op = "movl_deref_reg" => movl_deref_reg
    /\ op = "movl_reg_deref" => movl_reg_deref
    /\ op = "cmpl" => cmpl
    /\ op \in Conditional => jcc
    /\ op = "jmp" => jmp
    /\ op = "call" => call
    /\ op = "ret" => ret
    /\ op = "pushl" => pushl
    /\ op = "popl" => popl
    /\ op = "printr" => printr
    /\ op = "readr" => readr

\* An iteration of run_program is the case of execute_instruction of its opcode.
LEMMA NextDoes == Next => status = "running" /\ Executes(instr.opcode) /\ Does(instr.opcode)
<1> DEFINE op == instr.opcode
           E == status = "running" /\ Executes(op)
<1>1. subl => E /\ op = "subl"
    BY DEF subl, Computes, Executes
<1>2. addl_reg_reg => E /\ op = "addl_reg_reg"
    BY DEF addl_reg_reg, Computes, Executes
<1>3. addl_imm_reg => E /\ op = "addl_imm_reg"
    BY DEF addl_imm_reg, Computes, Executes
<1>4. imull => E /\ op = "imull"
    BY DEF imull, Computes, Executes
<1>5. shrl => E /\ op = "shrl"
    BY DEF shrl, Computes, Executes
<1>6. movl_reg_reg => E /\ op = "movl_reg_reg"
    BY DEF movl_reg_reg, Computes, Executes
<1>7. movl_imm_reg => E /\ op = "movl_imm_reg"
    BY DEF movl_imm_reg, Computes, Executes
<1>8. movl_deref_reg => E /\ op = "movl_deref_reg"
    BY DEF movl_deref_reg, Executes
<1>9. movl_reg_deref => E /\ op = "movl_reg_deref"
    BY DEF movl_reg_deref, Executes
<1>10. cmpl => E /\ op = "cmpl"
    BY DEF cmpl, Executes
<1>11. jcc => E /\ op \in Conditional
    BY DEF jcc, Jumps, Executes
<1>12. jmp => E /\ op = "jmp"
    BY DEF jmp, Jumps, Executes
<1>13. call => E /\ op = "call"
    BY DEF call, Executes
<1>14. ret => E /\ op = "ret"
    BY DEF ret, Executes
<1>15. pushl => E /\ op = "pushl"
    BY DEF pushl, Executes
<1>16. popl => E /\ op = "popl"
    BY DEF popl, Executes
<1>17. printr => E /\ op = "printr"
    BY DEF printr, Executes
<1>18. readr => E /\ op = "readr"
    BY DEF readr, Executes
<1> HIDE DEF op, E
<1>19. Next => E /\ Does(op)
    <2>1. Conditional = {"je", "jl", "jle", "jge", "jbe"}
        BY DEF Conditional
    <2> QED
        BY <1>1, <1>2, <1>3, <1>4, <1>5, <1>6, <1>7, <1>8, <1>9, <1>10, <1>11, <1>12, <1>13, <1>14,
           <1>15, <1>16, <1>17, <1>18, <2>1 DEF Next, Does
<1> QED
    BY <1>19 DEF E, op

\* The program is at line k, which is this instruction.
At(k, op, a, b, n) ==
    /\ status = "running" /\ program_counter = 4 * (k - 1)
    /\ k \in Nat \ {0} /\ k <= Len(instructions)
    /\ instr = Decoded(op, a, b, n)

\* The program has few lines, as those of the tests.
Short == CpuInv /\ Len(instructions) \in Nat /\ Len(instructions) < 100

\* The step leads to line k, the program ending behind its last line.
Goes(k) ==
    /\ program_counter' = 4 * (k - 1)
    /\ status' = IF k = Len(instructions) + 1 THEN "done" ELSE "running"
    /\ UNCHANGED <<program, build, instructions>>

\* A program counter within the program is at a line of it.
LEMMA GotoGoes ==
    ASSUME Short, NEW k \in Nat \ {0}, k <= Len(instructions) + 1, NEW pc, pc = 4 * (k - 1),
           Goto(pc), UNCHANGED <<program, build, instructions>>
    PROVE  Goes(k)
<1> DEFINE len == Len(instructions)
<1>1. len \in Nat /\ len < 100
    BY DEF Short
<1>2. WORD = 4 /\ pc \in 0 .. WordValues - 1 /\ Unsigned(pc) = pc
    <2>1. WordValues \in Nat /\ WordValues > 400 /\ WORD = 4
        BY Machine
    <2>2. pc \in 0 .. WordValues - 1
        BY <1>1, <2>1
    <2> QED
        BY <2>1, <2>2, UnsignedSame
<1>3. program_counter' = pc
    BY <1>2 DEF Goto
<1>4. status' = CASE pc = 4 * len -> "done"
                  [] pc \div 4 < len -> "running"
                  [] OTHER -> "stray"
    BY <1>2, <1>3, Zenon DEF Goto
<1>5. (pc = 4 * len <=> k = len + 1) /\ pc \div 4 = k - 1
    BY <1>1
<1>6. k # len + 1 <=> k - 1 < len
    BY <1>1
<1> DEFINE at == pc \div 4
           end == 4 * len
<1>7. status' = CASE pc = end -> "done" [] at < len -> "running" [] OTHER -> "stray"
    BY <1>4
<1>8. (pc = end <=> k = len + 1) /\ (k # len + 1 <=> at < len)
    BY <1>5, <1>6
<1> HIDE DEF len, at, end
<1>9. CASE k = len + 1
    <2>1. pc = end /\ ~(at < len)
        BY <1>8, <1>9
    <2>2. status' = "done"
        BY <1>7, <2>1
    <2>3. program_counter' = 4 * (k - 1)
        BY <1>3
    <2> QED
        BY <1>9, <2>2, <2>3 DEF Goes, len
<1>10. CASE k # len + 1
    <2>1. pc # end /\ at < len
        BY <1>8, <1>10
    <2>2. status' = "running"
        BY <1>7, <2>1
    <2>3. program_counter' = 4 * (k - 1)
        BY <1>3
    <2> QED
        BY <1>10, <2>2, <2>3 DEF Goes, len
<1> QED
    BY <1>9, <1>10

\* The step leads to line k, and writes to the registers only.
Registers(k, regs) ==
    /\ Goes(k) /\ registers' = regs
    /\ UNCHANGED <<memory, scanned, printed, compared, calls>>

\* The instruction at the program counter is the one of line k.
LEMMA AtIs ==
    ASSUME NEW k, NEW op, NEW a, NEW b, NEW n, At(k, op, a, b, n)
    PROVE  /\ instr.opcode = op /\ r1 = a /\ r2 = b /\ imm = n
           /\ k \in Nat \ {0} /\ program_counter = 4 * (k - 1) /\ k + 1 <= Len(instructions) + 1
           /\ k <= Len(instructions)
<1>1. instr = [opcode |-> op, first_register |-> a, second_register |-> b, immediate |-> n]
    BY DEF At, Decoded
<1>2. instr.opcode = op /\ r1 = a /\ r2 = b /\ imm = n
    BY <1>1 DEF r1, r2, imm
<1> QED
    BY <1>2 DEF At

\* The program counter moves to the following line ...
LEMMA FollowingLine ==
    ASSUME Short, NEW k \in Nat \ {0}, k <= Len(instructions), program_counter = 4 * (k - 1),
           NextInstruction, UNCHANGED <<program, build, instructions>>
    PROVE  Goes(k + 1)
<1>1. program_counter + WORD = 4 * ((k + 1) - 1) /\ k + 1 \in Nat \ {0} /\ k + 1 <= Len(instructions) + 1
    BY Machine DEF Short
<1>2. Goto(program_counter + WORD)
    BY DEF NextInstruction
<1> DEFINE j == k + 1
<1> HIDE DEF j
<1>3. j \in Nat \ {0} /\ j <= Len(instructions) + 1 /\ program_counter + WORD = 4 * (j - 1)
    BY <1>1 DEF j
<1>4. Goes(j)
    BY <1>2, <1>3, GotoGoes
<1> QED
    BY <1>4 DEF j

\* ... where an instruction sets a register ...
LEMMA ComputesGoes ==
    ASSUME Short, NEW k \in Nat \ {0}, k <= Len(instructions), program_counter = 4 * (k - 1),
           NEW op, NEW r, NEW val, Computes(op, r, val)
    PROVE  Registers(k + 1, Set(registers, r, val))
<1>1. NextInstruction /\ UNCHANGED <<program, build, instructions>>
    BY DEF Computes, Executes
<1>2. Goes(k + 1)
    BY <1>1, FollowingLine
<1> QED
    BY <1>2 DEF Computes, Registers, io, history

\* The step leads to line k, and writes v to register r only.
Writes(r, v) == registers'[r] = v /\ \A s \in Nat : s # r /\ s <= 16 => registers'[s] = registers[s]
Sets(k, r, v) ==
    /\ Goes(k) /\ Writes(r, v)
    /\ UNCHANGED <<memory, scanned, printed, compared, calls>>

\* ... and only that one.
LEMMA SetWrites ==
    ASSUME CpuInv, NEW r \in 0 .. NUM_REGS - 1, NEW val, registers' = Set(registers, r, val)
    PROVE  Writes(r, Signed(val))
<1>1. DOMAIN registers = 0 .. NUM_REGS - 1 /\ NUM_REGS = 17
    BY DEF CpuInv, TypeOK, NUM_REGS
<1>2. registers' = [registers EXCEPT ![r] = Signed(val)]
    BY Zenon DEF Set
<1>3. \A s \in Nat : s <= 16 => s \in DOMAIN registers
    BY <1>1
<1> QED
    BY <1>1, <1>2, <1>3 DEF Writes

\* Registers and immediates are numbers that fit.
Word == INT_MIN .. INT_MAX

\* The operands of a line are registers, which hold ints.
LEMMA AtTypes ==
    ASSUME Short, NEW k, NEW op, NEW a, NEW b, NEW n, At(k, op, a, b, n)
    PROVE  /\ a \in 0 .. NUM_REGS - 1 /\ b \in 0 .. NUM_REGS - 1 /\ n \in Int
           /\ registers[a] \in Word /\ registers[b] \in Word /\ registers[a] \in Int /\ registers[b] \in Int
<1>1. status = "running" /\ CpuInv
    BY DEF At, Short
<1>2. a \in 0 .. NUM_REGS - 1 /\ b \in 0 .. NUM_REGS - 1 /\ n \in 1 - WordValues .. WordValues - 1
    BY <1>1, InstrIs, AtIs
<1>3. registers \in [0 .. NUM_REGS - 1 -> Word] /\ Word \subseteq Int
    BY <1>1, Width DEF CpuInv, TypeOK, Word
<1>4. n \in Int
    BY <1>2, Width
<1>5. registers[a] \in Word /\ registers[b] \in Word
    BY <1>2, <1>3
<1> QED
    BY <1>2, <1>3, <1>4, <1>5

\* The lines that compute a register.
LEMMA ComputesLine ==
    ASSUME Short, NEW k, NEW op, NEW a, NEW b, NEW n, At(k, op, a, b, n),
           NEW r \in 0 .. NUM_REGS - 1, NEW val, Computes(op, r, val)
    PROVE  Sets(k + 1, r, Signed(val))
<1>1. NextInstruction /\ UNCHANGED <<program, build, instructions>>
    BY DEF Computes, Executes
<1>2. Goes(k + 1)
    BY <1>1, AtIs, FollowingLine
<1>3. registers' = Set(registers, r, val)
    BY DEF Computes
<1>4. Writes(r, Signed(val))
    BY <1>3, SetWrites DEF Short
<1> QED
    BY <1>2, <1>4 DEF Computes, Sets, io, history

\* The cases of execute_instruction that set a register: subl ...
LEMMA SublLine ==
    ASSUME Short, Next, NEW k, NEW a, NEW b, NEW n, At(k, "subl", a, b, n)
    PROVE  Sets(k + 1, a, Signed(registers[a] - n))
<1>1. subl
    BY NextDoes, AtIs DEF Does
<1>2. Computes("subl", a, registers[a] - n)
    BY <1>1, AtIs DEF subl
<1> QED
    BY <1>2, AtTypes, ComputesLine

\* ... addl with an immediate ...
LEMMA AddlImmLine ==
    ASSUME Short, Next, NEW k, NEW a, NEW b, NEW n, At(k, "addl_imm_reg", a, b, n)
    PROVE  Sets(k + 1, a, Signed(registers[a] + n))
<1>1. addl_imm_reg
    BY NextDoes, AtIs DEF Does
<1>2. Computes("addl_imm_reg", a, registers[a] + n)
    BY <1>1, AtIs DEF addl_imm_reg
<1> QED
    BY <1>2, AtTypes, ComputesLine

\* ... and with a register ...
LEMMA AddlRegLine ==
    ASSUME Short, Next, NEW k, NEW a, NEW b, NEW n, At(k, "addl_reg_reg", a, b, n)
    PROVE  Sets(k + 1, b, Signed(registers[a] + registers[b]))
<1>1. addl_reg_reg
    BY NextDoes, AtIs DEF Does
<1>2. Computes("addl_reg_reg", b, registers[a] + registers[b])
    BY <1>1, AtIs DEF addl_reg_reg
<1> QED
    BY <1>2, AtTypes, ComputesLine

\* ... imull ...
LEMMA ImullLine ==
    ASSUME Short, Next, NEW k, NEW a, NEW b, NEW n, At(k, "imull", a, b, n)
    PROVE  Sets(k + 1, b, Signed(registers[a] * registers[b]))
<1>1. imull
    BY NextDoes, AtIs DEF Does
<1>2. Computes("imull", b, registers[a] * registers[b])
    BY <1>1, AtIs DEF imull
<1> QED
    BY <1>2, AtTypes, ComputesLine

\* ... shrl, which shifts the unsigned word ...
LEMMA ShrlLine ==
    ASSUME Short, Next, NEW k, NEW a, NEW b, NEW n, At(k, "shrl", a, b, n)
    PROVE  Sets(k + 1, a, Unsigned(registers[a]) \div 2)
<1>1. shrl
    BY NextDoes, AtIs DEF Does
<1> DEFINE u == Unsigned(registers[a])
<1>2. Computes("shrl", a, u \div 2)
    BY <1>1, AtIs DEF shrl
<1>3. u \in 0 .. WordValues - 1
    BY AtTypes, UnsignedIsWord
<1> HIDE DEF u
<1>4. u \div 2 \in INT_MIN .. INT_MAX
    BY <1>3, Width
<1>5. Signed(u \div 2) = u \div 2
    BY <1>4, SignedSame
<1>6. Sets(k + 1, a, Signed(u \div 2))
    BY <1>2, AtTypes, ComputesLine
<1> QED
    BY <1>5, <1>6 DEF u

\* ... movl from a register ...
LEMMA MovlRegLine ==
    ASSUME Short, Next, NEW k, NEW a, NEW b, NEW n, At(k, "movl_reg_reg", a, b, n)
    PROVE  Sets(k + 1, b, registers[a])
<1>1. movl_reg_reg
    BY NextDoes, AtIs DEF Does
<1>2. Computes("movl_reg_reg", b, registers[a])
    BY <1>1, AtIs DEF movl_reg_reg
<1>3. Signed(registers[a]) = registers[a]
    BY AtTypes, SignedSame DEF Word
<1>4. Sets(k + 1, b, Signed(registers[a]))
    BY <1>2, AtTypes, ComputesLine
<1> QED
    BY <1>3, <1>4

\* ... and of an immediate, which the tests keep small.
LEMMA MovlImmLine ==
    ASSUME Short, Next, NEW k, NEW a, NEW b, NEW n, At(k, "movl_imm_reg", a, b, n), n > -99, n < 99
    PROVE  Sets(k + 1, a, n)
<1>1. movl_imm_reg
    BY NextDoes, AtIs DEF Does
<1>2. Computes("movl_imm_reg", a, n)
    BY <1>1, AtIs DEF movl_imm_reg
<1>3. n \in INT_MIN .. INT_MAX
    BY AtTypes, Machine
<1>4. Signed(n) = n
    BY <1>3, SignedSame
<1>5. Sets(k + 1, a, Signed(n))
    BY <1>2, AtTypes, ComputesLine
<1> QED
    BY <1>4, <1>5

\* Lines that go elsewhere.
LEMMA JumpsLine ==
    ASSUME Short, NEW k, NEW op, NEW op2, NEW n, At(k, op, 0, 0, n), NEW cond, Jumps(op2, cond),
           NEW j \in Nat \ {0}, j <= Len(instructions), n = 4 * (j - k - 1)
    PROVE  IF cond THEN Registers(j, registers) ELSE Registers(k + 1, registers)
<1>1. UNCHANGED <<program, build, instructions>>
      /\ UNCHANGED <<registers, memory, scanned, printed, compared, calls>>
    BY DEF Jumps, Executes, io, history
<1>2. Goto(program_counter + (IF cond THEN n ELSE 0) + WORD)
    BY AtIs DEF Jumps
<1>3. k \in Nat \ {0} /\ program_counter = 4 * (k - 1) /\ k + 1 <= Len(instructions) + 1
      /\ Len(instructions) \in Nat
    BY AtIs DEF Short
<1>4. CASE cond
    <2>1. program_counter + n + WORD = 4 * (j - 1)
        BY <1>3, Machine
    <2>2. Goto(program_counter + n + WORD)
        BY <1>2, <1>4
    <2>3. j <= Len(instructions) + 1
        BY <1>3
    <2>4. Goes(j)
        BY <1>1, <2>1, <2>2, <2>3, GotoGoes
    <2> QED
        BY <1>1, <1>4, <2>4 DEF Registers
<1>5. CASE ~cond
    <2> DEFINE i == k + 1
    <2>1. program_counter + 0 + WORD = 4 * (i - 1) /\ i \in Nat \ {0} /\ i <= Len(instructions) + 1
        BY <1>3, Machine
    <2>2. Goto(program_counter + 0 + WORD)
        BY <1>2, <1>5
    <2> HIDE DEF i
    <2>3. Goes(i)
        BY <1>1, <2>1, <2>2, GotoGoes
    <2> QED
        BY <1>1, <1>5, <2>3 DEF Registers, i
<1> QED
    BY <1>4, <1>5

\* A jump goes to the line of its label ...
LEMMA JmpLine ==
    ASSUME Short, Next, NEW k \in Nat, NEW n \in Int, At(k, "jmp", 0, 0, n),
           NEW j \in Nat \ {0}, j <= Len(instructions), n = 4 * (j - k - 1)
    PROVE  Registers(j, registers)
<1>1. jmp
    BY NextDoes, AtIs DEF Does
<1>2. Jumps("jmp", TRUE)
    BY <1>1 DEF jmp
<1> QED
    BY <1>2, JumpsLine

\* ... and a conditional one there or on.
LEMMA JccLine ==
    ASSUME Short, Next, NEW k \in Nat, NEW op \in Conditional, NEW n \in Int, At(k, op, 0, 0, n),
           NEW j \in Nat \ {0}, j <= Len(instructions), n = 4 * (j - k - 1)
    PROVE  Registers(j, registers) \/ Registers(k + 1, registers)
<1>1. jcc
    BY NextDoes, AtIs DEF Does
<1>2. PICK op2 \in Conditional : Jumps(op2, Taken(op2, Unsigned(registers[EFLAGS])))
    BY <1>1 DEF jcc
<1> DEFINE cond == Taken(op2, Unsigned(registers[EFLAGS]))
<1> HIDE DEF cond
<1>3. Jumps(op2, cond)
    BY <1>2 DEF cond
<1> QED
    BY <1>3, JumpsLine

\* A conditional jump goes where the comparison of the last cmpl says.
LEMMA DecidedLine ==
    ASSUME Short, FlagsInv, Next, NEW k, NEW op \in Conditional, NEW n, At(k, op, 0, 0, n),
           NEW j \in Nat \ {0}, j <= Len(instructions), n = 4 * (j - k - 1),
           NEW x, NEW y, compared = <<x, y>>, ~Misjudged(build, x, y)
    PROVE  IF Holds(op, x, y) THEN Registers(j, registers) ELSE Registers(k + 1, registers)
<1>1. jcc
    BY NextDoes, AtIs DEF Does
<1>2. PICK op2 \in Conditional : Jumps(op2, Taken(op2, Unsigned(registers[EFLAGS])))
    BY <1>1 DEF jcc
<1>3. op2 = op
    BY <1>2, AtIs DEF Jumps, Executes
<1>4. PICK a \in INT_MIN .. INT_MAX : \E b \in INT_MIN .. INT_MAX :
          compared = <<a, b>> /\ FlagsOf(build, a, b)
    BY DEF FlagsInv
<1>5. PICK b \in INT_MIN .. INT_MAX : compared = <<a, b>> /\ FlagsOf(build, a, b)
    BY <1>4
<1>6. x = a /\ y = b
    BY <1>5
<1>7. build \in {"wraps", "exact"} /\ ~Misjudged(build, a, b)
    BY <1>6 DEF FlagsInv, CpuInv
<1> DEFINE cond == Taken(op, Unsigned(registers[EFLAGS]))
<1>8. cond <=> Holds(op, x, y)
    BY <1>5, <1>6, <1>7, TakenHolds
<1>9. Jumps(op, cond)
    BY <1>2, <1>3
<1> HIDE DEF cond
<1>10. IF cond THEN Registers(j, registers) ELSE Registers(k + 1, registers)
    BY <1>9, JumpsLine
<1> QED
    BY <1>8, <1>10

\* A comparison leaves its operands in compared.
LEMMA CmplLine ==
    ASSUME Short, EflagsHidden(instructions), Next, NEW k, NEW a, NEW b, NEW n, At(k, "cmpl", a, b, n)
    PROVE  /\ Goes(k + 1)
           /\ \A s \in Nat : s < 16 => registers'[s] = registers[s]
           /\ compared' = <<registers[a], registers[b]>>
           /\ UNCHANGED <<memory, scanned, printed, calls>>
<1>1. cmpl
    BY NextDoes, AtIs DEF Does
<1> DEFINE cleared == Set(registers, EFLAGS, 0)
<1>2. DOMAIN registers = 0 .. NUM_REGS - 1 /\ NUM_REGS = 17 /\ EFLAGS = 16
    BY DEF CpuInv, TypeOK, NUM_REGS, EFLAGS, Short
<1>3. a # EFLAGS /\ b # EFLAGS
    <2>1. program_counter \div WORD + 1 \in DOMAIN instructions
        <3>1. CpuInv /\ status = "running"
            BY DEF At, Short
        <3>2. program_counter \in Nat /\ program_counter \div WORD < Len(instructions)
            BY <3>1 DEF CpuInv, TypeOK
        <3>3. program_counter \div WORD \in Nat /\ instructions \in Seq(Instruction)
            BY <3>1, <3>2, Sizes DEF CpuInv
        <3> QED
            BY <3>2, <3>3
    <2> QED
        BY <2>1, AtIs DEF EflagsHidden, instr, r1, r2
<1>4. cleared[a] = registers[a] /\ cleared[b] = registers[b] /\ DOMAIN cleared = DOMAIN registers
      /\ \A s \in Nat : s < 16 => cleared[s] = registers[s]
    BY <1>2, <1>3, AtTypes DEF Set
<1>5. registers' = Set(cleared, EFLAGS, Flags(build, registers[a], registers[b]))
      /\ compared' = <<registers[a], registers[b]>>
    BY <1>1, <1>4, AtIs DEF cmpl
<1>6. NextInstruction /\ UNCHANGED <<program, build, instructions>>
      /\ UNCHANGED <<memory, scanned, printed, calls>>
    BY <1>1 DEF cmpl, Executes, io
<1>7. Goes(k + 1)
    BY <1>6, AtIs, FollowingLine
<1> HIDE DEF cleared
<1>8. \A s \in Nat : s < 16 => registers'[s] = cleared[s]
    BY <1>2, <1>4, <1>5 DEF Set
<1> QED
    BY <1>4, <1>5, <1>6, <1>7, <1>8

\* Input and output.
LEMMA PrintrLine ==
    ASSUME Short, Next, NEW k, NEW a, NEW b, NEW n, At(k, "printr", a, b, n)
    PROVE  /\ Goes(k + 1) /\ printed' = Append(printed, registers[a])
           /\ UNCHANGED <<registers, memory, scanned, compared, calls>>
<1>1. printr
    BY NextDoes, AtIs DEF Does
<1>2. NextInstruction /\ UNCHANGED <<program, build, instructions>>
    BY <1>1 DEF printr, Executes
<1>3. Goes(k + 1)
    BY <1>2, AtIs, FollowingLine
<1> QED
    BY <1>1, <1>3, AtIs DEF printr, history

\* readr leaves the register when scanf finds no number.
LEMMA ReadrLine ==
    ASSUME Short, Next, NEW k, NEW a, NEW b, NEW n, At(k, "readr", a, b, n)
    PROVE  /\ Goes(k + 1)
           /\ \E v \in Programs[program].inputs \cup {registers[a]} :
                 v \in Word /\ Writes(a, v) /\ scanned' = Append(scanned, v)
           /\ UNCHANGED <<memory, printed, compared, calls>>
<1>1. readr
    BY NextDoes, AtIs DEF Does
<1>2. NextInstruction /\ UNCHANGED <<program, build, instructions>>
    BY <1>1 DEF readr, Executes
<1>3. Goes(k + 1)
    BY <1>2, AtIs, FollowingLine
<1>4. PICK v \in Programs[program].inputs \cup {registers[a]} :
          registers' = Set(registers, a, v) /\ scanned' = Append(scanned, v)
    BY <1>1, AtIs DEF readr
<1>5. v \in Word
    <2>1. program \in DOMAIN Programs
        BY DEF Short, CpuInv
    <2>2. Programs[program].inputs \subseteq Word
        BY <2>1, ProgramsAssumption DEF Word
    <2> QED
        BY <2>2, <1>4, AtTypes
<1>6. Writes(a, Signed(v))
    BY <1>4, AtTypes, SetWrites DEF Short
<1>7. Signed(v) = v
    BY <1>5, SignedSame DEF Word
<1> QED
    BY <1>1, <1>3, <1>4, <1>5, <1>6, <1>7 DEF readr, history

-----------------------------------------------------------------------------
(* Words of the memory.                                                    *)

\* The word at address a, as Load finds it there.
WordAt(m, a) ==
    Signed(m[a] + m[a + 1] * BYTE + m[a + 2] * (BYTE * BYTE) + m[a + 3] * (BYTE * BYTE * BYTE))

\* The weights of the four bytes of a word.
LEMMA PowersOfByte ==
    BYTE ^ 0 = 1 /\ BYTE ^ 1 = BYTE /\ BYTE ^ 2 = BYTE * BYTE /\ BYTE ^ 3 = BYTE * BYTE * BYTE
BY PowersAre, Machine

\* What an instruction loads is the word at the address.
LEMMA LoadIsWordAt ==
    ASSUME NEW a \in Int, OnStack(a), memory \in Bytes
    PROVE  Load(a) = WordAt(memory, a)
<1> DEFINE t == [i \in 1 .. WORD |-> memory[a + i - 1] * BYTE ^ (i - 1)]
           F(f) == [i \in 0 .. WORD |-> IF i = 0 THEN 0 ELSE f[i-1] + t[i]]
           G(f) == [i \in 0 .. WORD |-> IF i = 0 THEN 0
                                        ELSE f[i-1] + memory[a + i - 1] * BYTE ^ (i-1)]
           s == CHOOSE f : f = G(f)
<1>0. WORD = 4 /\ BYTE \in Nat /\ STACK_SIZE \in Nat
    BY Machine
<1>1. \A f : F(f) = G(f)
    <2> TAKE f
    <2>1. \A i \in 0 .. WORD : i # 0 => i \in 1 .. WORD
        BY <1>0
    <2> QED
        BY <2>1
<1>2. \E f : f = F(f)
    <2> HIDE DEF t
    <2>1. WORD \in Nat
        BY <1>0
    <2> QED
        BY <2>1, SumsExist
<1>3. \E f : f = G(f)
    <2> HIDE DEF F, G
    <2> QED
        BY <1>1, <1>2
<1>4. s = G(s)
    <2> HIDE DEF G
    <2> QED
        BY <1>3, Zenon
<1>5. Load(a) = Signed(s[4])
    BY <1>0 DEF Load
<1> HIDE DEF t, F, s
<1>6. \A i \in 0 .. WORD : s[i] = IF i = 0 THEN 0
                                  ELSE s[i-1] + memory[a + i - 1] * BYTE ^ (i-1)
    <2>1. \A i \in 0 .. WORD : G(s)[i] = IF i = 0 THEN 0
                                   ELSE s[i-1] + memory[a + i - 1] * BYTE ^ (i-1)
        OBVIOUS
    <2> HIDE DEF G
    <2> QED
        BY <2>1, <1>4
<1> HIDE DEF G
<1>7. /\ s[0] = 0
      /\ s[1] = s[0] + memory[a] * BYTE ^ 0
      /\ s[2] = s[1] + memory[a + 1] * BYTE ^ 1
      /\ s[3] = s[2] + memory[a + 2] * BYTE ^ 2
      /\ s[4] = s[3] + memory[a + 3] * BYTE ^ 3
    <2>1. a + 1 - 1 = a /\ a + 2 - 1 = a + 1 /\ a + 3 - 1 = a + 2 /\ a + 4 - 1 = a + 3
        OBVIOUS
    <2>2. 0 \in 0 .. WORD /\ 1 \in 0 .. WORD /\ 2 \in 0 .. WORD /\ 3 \in 0 .. WORD /\ 4 \in 0 .. WORD
        BY <1>0
    <2> QED
        BY <1>6, <2>1, <2>2
<1>8. memory[a] \in Nat /\ memory[a + 1] \in Nat /\ memory[a + 2] \in Nat /\ memory[a + 3] \in Nat
    BY <1>0 DEF OnStack, Bytes
<1>9. BYTE ^ 0 = 1 /\ BYTE ^ 1 = BYTE /\ BYTE ^ 2 = BYTE * BYTE /\ BYTE ^ 3 = BYTE * BYTE * BYTE
    BY PowersOfByte
<1>10. s[4] = memory[a] + memory[a + 1] * BYTE + memory[a + 2] * (BYTE * BYTE)
              + memory[a + 3] * (BYTE * BYTE * BYTE)
    <2> DEFINE b1 == BYTE
               b2 == BYTE * BYTE
               b3 == BYTE * BYTE * BYTE
    <2>1. b1 \in Nat /\ b2 \in Nat /\ b3 \in Nat
        BY <1>0
    <2>2. s[4] = (((0 + memory[a] * 1) + memory[a + 1] * b1) + memory[a + 2] * b2) + memory[a + 3] * b3
        BY <1>7, <1>9, Zenon
    <2> HIDE DEF b1, b2, b3
    <2> DEFINE p1 == memory[a + 1] * b1
               p2 == memory[a + 2] * b2
               p3 == memory[a + 3] * b3
    <2>3. p1 \in Nat /\ p2 \in Nat /\ p3 \in Nat
        BY <2>1, <1>8
    <2>4. s[4] = (((0 + memory[a] * 1) + p1) + p2) + p3
        BY <2>2
    <2> HIDE DEF p1, p2, p3
    <2>5. s[4] = memory[a] + p1 + p2 + p3
        BY <2>3, <2>4, <1>8
    <2> QED
        BY <2>5, Zenon DEF p1, p2, p3, b1, b2, b3
<1> QED
    BY <1>5, <1>10 DEF WordAt

\* Dividing twice is dividing by the product.
LEMMA DivDiv ==
    ASSUME NEW n \in Nat, NEW b \in Nat \ {0}, NEW c \in Nat \ {0}
    PROVE  n \div (b * c) = (n \div b) \div c
<1> DEFINE q == n \div b
           r == n % b
           d == q \div c
           e == q % c
<1>1. n = b * q + r /\ q \in Nat /\ r \in 0 .. b - 1
    OBVIOUS
<1> HIDE DEF q, r
<1>2. q = c * d + e /\ d \in Nat /\ e \in 0 .. c - 1
    BY <1>1
<1> HIDE DEF d, e
<1> DEFINE w == b * c
           x == b * e + r
<1>3. n = w * d + x
    <2>1. b * (c * d + e) = (b * c) * d + b * e
        BY <1>2
    <2> QED
        BY <1>1, <1>2, <2>1
<1>4. x \in Nat /\ x < w /\ w \in Nat \ {0}
    <2>1. b * e <= b * (c - 1)
        BY <1>2
    <2>2. b * (c - 1) = b * c - b
        OBVIOUS
    <2>3. b * e \in Nat /\ b * c \in Nat
        BY <1>2
    <2>4. b * c > 0
        OBVIOUS
    <2> QED
        BY <1>1, <2>1, <2>2, <2>3, <2>4
<1> HIDE DEF w, x
<1>5. n \div w = d
    BY <1>2, <1>3, <1>4
<1> QED
    BY <1>5 DEF w, d, q

\* A number below BYTE ^ 4 is put together again from its bytes.
LEMMA BytesOf ==
    ASSUME NEW b \in Nat \ {0}, NEW u \in Nat, u < b * b * b * b
    PROVE  u = (u % b) + ((u \div b) % b) * b + ((u \div (b * b)) % b) * (b * b)
               + ((u \div (b * b * b)) % b) * (b * b * b)
<1> DEFINE q1 == u \div b
           q2 == q1 \div b
           q3 == q2 \div b
           s0 == u % b
           s1 == q1 % b
           s2 == q2 % b
<1>1. u = b * q1 + s0 /\ q1 \in Nat /\ s0 \in 0 .. b - 1
    OBVIOUS
<1> HIDE DEF q1, s0
<1>2. q1 = b * q2 + s1 /\ q2 \in Nat /\ s1 \in 0 .. b - 1
    BY <1>1
<1> HIDE DEF q2, s1
<1>3. q2 = b * q3 + s2 /\ q3 \in Nat /\ s2 \in 0 .. b - 1
    BY <1>2
<1> HIDE DEF q3, s2
<1>4. u = s0 + s1 * b + s2 * (b * b) + q3 * (b * b * b)
    <2>1. q1 = b * (b * q3 + s2) + s1
        BY <1>2, <1>3
    <2>2. b * (b * q3 + s2) = (b * b) * q3 + b * s2
        BY <1>3
    <2>3. u = b * ((b * b) * q3 + b * s2 + s1) + s0
        BY <1>1, <2>1, <2>2
    <2>4. b * ((b * b) * q3 + b * s2 + s1) = (b * b * b) * q3 + (b * b) * s2 + b * s1
        BY <1>2, <1>3
    <2>5. (b * b * b) * q3 = q3 * (b * b * b) /\ (b * b) * s2 = s2 * (b * b) /\ b * s1 = s1 * b
          /\ (b * b * b) * q3 \in Int /\ (b * b) * s2 \in Int /\ b * s1 \in Int
        BY <1>2, <1>3
    <2> QED
        BY <2>3, <2>4, <2>5, <1>1
<1>5. q3 < b
    <2> SUFFICES ASSUME q3 >= b PROVE FALSE
        BY <1>3
    <2> DEFINE c == b * b * b
    <2>0. c \in Nat /\ b * c = b * b * b * b
        OBVIOUS
    <2> HIDE DEF c
    <2>1. q3 * c >= b * c
        BY <1>3, <2>0
    <2>2. s1 * b \in Nat /\ s2 * (b * b) \in Nat /\ s0 \in Nat
        BY <1>1, <1>2, <1>3
    <2> QED
        BY <1>3, <1>4, <2>0, <2>1, <2>2 DEF c
<1>6. q3 % b = q3
    BY <1>3, <1>5
<1>7. u \div (b * b) = q2
    BY DivDiv DEF q1, q2
<1>8. u \div (b * b * b) = q3
    <2> DEFINE c == b * b
    <2>1. c \in Nat \ {0}
        OBVIOUS
    <2> HIDE DEF c
    <2>2. u \div (c * b) = (u \div c) \div b
        BY <2>1, DivDiv
    <2> QED
        BY <2>2, <1>7 DEF c, q3
<1> QED
    BY <1>4, <1>6, <1>7, <1>8 DEF q1, s0, s1, s2

\* Reading a word as unsigned and as signed again gives it back.
LEMMA SignedUnsigned == ASSUME NEW v \in INT_MIN .. INT_MAX PROVE Signed(Unsigned(v)) = v
<1>1. WordValues \in Nat \ {0} /\ v \in -WordValues .. 2 * WordValues - 1
    BY Width
<1>2. Unsigned(v) = IF v < 0 THEN v + WordValues ELSE v
    <2>1. v % WordValues = IF v < 0 THEN v + WordValues ELSE IF v < WordValues THEN v ELSE v - WordValues
        BY <1>1, Remainder
    <2> QED
        BY <2>1, Width DEF Unsigned
<1>3. CASE v >= 0
    BY <1>2, <1>3, SignedSame
<1>4. CASE v < 0
    <2> DEFINE x == Unsigned(v) - INT_MIN
    <2>1. x \in -WordValues .. 2 * WordValues - 1 /\ x >= WordValues /\ x = v + WordValues - INT_MIN
        BY <1>2, <1>4, Width
    <2> HIDE DEF x
    <2>2. x % WordValues = x - WordValues
        BY <1>1, <2>1, Remainder
    <2> QED
        BY <2>1, <2>2, Width DEF Signed, x
<1> QED
    BY <1>3, <1>4

\* The bytes that Store leaves: those of the value at a, and the others as they were.
LEMMA StoreBytes ==
    ASSUME memory \in Bytes, NEW a \in Int, OnStack(a), NEW v \in INT_MIN .. INT_MAX,
           NEW m, m = Store(a, v)
    PROVE  /\ m[a] = Unsigned(v) % BYTE /\ m[a + 1] = (Unsigned(v) \div BYTE) % BYTE
           /\ m[a + 2] = (Unsigned(v) \div (BYTE * BYTE)) % BYTE
           /\ m[a + 3] = (Unsigned(v) \div (BYTE * BYTE * BYTE)) % BYTE
           /\ \A c \in Nat : c < STACK_SIZE /\ (c < a \/ a + 4 <= c) => m[c] = memory[c]
<1> DEFINE u == Unsigned(v)
<1>0. WORD = 4 /\ BYTE \in Nat \ {0} /\ STACK_SIZE \in Nat
    BY Machine
<1>1. a \in Nat /\ a + 4 <= STACK_SIZE
    BY <1>0 DEF OnStack
<1>2. \A c \in 0 .. STACK_SIZE - 1 :
         m[c] = IF c \in a .. a + 3 THEN (u \div BYTE ^ (c - a)) % BYTE ELSE memory[c]
    <2>1. DOMAIN memory = 0 .. STACK_SIZE - 1
        BY DEF Bytes
    <2> HIDE DEF u
    <2>2. m = [c \in DOMAIN memory |-> IF c \in a .. a + WORD - 1 THEN (u \div BYTE ^ (c - a)) % BYTE
                                      ELSE memory[c]]
        BY DEF Store, u
    <2>3. a + WORD - 1 = a + 3
        BY <1>0
    <2> QED
        BY <2>1, <2>2, <2>3
<1>3. u \in Nat /\ u < BYTE * BYTE * BYTE * BYTE
    BY UnsignedIsWord, Machine
<1> HIDE DEF u
<1>4. /\ m[a] = (u \div BYTE ^ 0) % BYTE /\ m[a + 1] = (u \div BYTE ^ 1) % BYTE
      /\ m[a + 2] = (u \div BYTE ^ 2) % BYTE /\ m[a + 3] = (u \div BYTE ^ 3) % BYTE
    <2>1. a - a = 0 /\ (a + 1) - a = 1 /\ (a + 2) - a = 2 /\ (a + 3) - a = 3
        BY <1>1
    <2> DEFINE a1 == a + 1
               a2 == a + 2
               a3 == a + 3
    <2>2. /\ a \in 0 .. STACK_SIZE - 1 /\ a1 \in 0 .. STACK_SIZE - 1
          /\ a2 \in 0 .. STACK_SIZE - 1 /\ a3 \in 0 .. STACK_SIZE - 1
          /\ a \in a .. a + 3 /\ a1 \in a .. a + 3 /\ a2 \in a .. a + 3 /\ a3 \in a .. a + 3
        BY <1>0, <1>1
    <2>3. a - a = 0 /\ a1 - a = 1 /\ a2 - a = 2 /\ a3 - a = 3
        BY <2>1
    <2> HIDE DEF a1, a2, a3
    <2>4. /\ m[a] = (u \div BYTE ^ 0) % BYTE /\ m[a1] = (u \div BYTE ^ 1) % BYTE
          /\ m[a2] = (u \div BYTE ^ 2) % BYTE /\ m[a3] = (u \div BYTE ^ 3) % BYTE
        BY <1>2, <2>2, <2>3
    <2> QED
        BY <2>4 DEF a1, a2, a3
<1>5. /\ m[a] = u % BYTE /\ m[a + 1] = (u \div BYTE) % BYTE
      /\ m[a + 2] = (u \div (BYTE * BYTE)) % BYTE /\ m[a + 3] = (u \div (BYTE * BYTE * BYTE)) % BYTE
    BY <1>3, <1>4, PowersOfByte
<1>6. \A c \in Nat : c < STACK_SIZE /\ (c < a \/ a + 4 <= c) => m[c] = memory[c]
    BY <1>0, <1>1, <1>2
<1> QED
    BY <1>5, <1>6 DEF u

\* The words that Store leaves: the one at a, and what is not there as it was.
LEMMA StoreWord ==
    ASSUME memory \in Bytes, NEW a \in Int, OnStack(a), NEW v \in INT_MIN .. INT_MAX,
           NEW m, m = Store(a, v)
    PROVE  /\ WordAt(m, a) = v
           /\ \A b \in Nat : b + 4 <= STACK_SIZE /\ (b + 4 <= a \/ a + 4 <= b)
                 => WordAt(m, b) = WordAt(memory, b)
<1> DEFINE u == Unsigned(v)
<1>0. BYTE \in Nat \ {0} /\ STACK_SIZE \in Nat /\ a \in Nat /\ a + 4 <= STACK_SIZE
    BY Machine DEF OnStack
<1>1. u \in Nat /\ u < BYTE * BYTE * BYTE * BYTE
    BY UnsignedIsWord, Machine
<1>2. /\ m[a] = u % BYTE /\ m[a + 1] = (u \div BYTE) % BYTE
      /\ m[a + 2] = (u \div (BYTE * BYTE)) % BYTE /\ m[a + 3] = (u \div (BYTE * BYTE * BYTE)) % BYTE
    BY StoreBytes
<1>3. m[a] + m[a + 1] * BYTE + m[a + 2] * (BYTE * BYTE) + m[a + 3] * (BYTE * BYTE * BYTE) = u
    BY <1>0, <1>1, <1>2, BytesOf
<1>4. WordAt(m, a) = v
    BY <1>3, SignedUnsigned DEF WordAt, u
<1>5. ASSUME NEW b \in Nat, b + 4 <= STACK_SIZE, b + 4 <= a \/ a + 4 <= b
      PROVE  WordAt(m, b) = WordAt(memory, b)
    <2>1. \A c \in Nat : c < STACK_SIZE /\ (c < a \/ a + 4 <= c) => m[c] = memory[c]
        BY StoreBytes
    <2> DEFINE b1 == b + 1
               b2 == b + 2
               b3 == b + 3
    <2>2. \A c \in {b, b1, b2, b3} : c \in Nat /\ c < STACK_SIZE /\ (c < a \/ a + 4 <= c)
        BY <1>0, <1>5
    <2> HIDE DEF b1, b2, b3
    <2>3. m[b] = memory[b] /\ m[b1] = memory[b1] /\ m[b2] = memory[b2] /\ m[b3] = memory[b3]
        BY <2>1, <2>2
    <2> QED
        BY <2>3 DEF WordAt, b1, b2, b3
<1> QED
    BY <1>4, <1>5

-----------------------------------------------------------------------------
(* The lines that use the memory.                                          *)

\* The step leaves v in the word at address a, and every other word as it was.
Stores(a, v) ==
    /\ WordAt(memory', a) = v
    /\ \A b \in Nat : b + 4 <= STACK_SIZE /\ (b + 4 <= a \/ a + 4 <= b)
          => WordAt(memory', b) = WordAt(memory, b)

\* The step leaves the memory of the stack.
Strays ==
    /\ status' = "stray"
    /\ UNCHANGED <<program, build, instructions, program_counter, registers, memory, scanned, printed,
                   compared, calls>>

\* A store is a word at its address, and leaves the words beside it alone.
LEMMA StoreStores ==
    ASSUME Short, NEW a \in Int, OnStack(a), NEW v \in Word, memory' = Store(a, v)
    PROVE  Stores(a, v)
<1>1. memory \in Bytes
    BY DEF Short, CpuInv, TypeOK, Bytes
<1>2. v \in INT_MIN .. INT_MAX
    BY DEF Word
<1> QED
    BY <1>1, <1>2, StoreWord DEF Stores

\* A load from the stack is an int.
LEMMA LoadIs ==
    ASSUME Short, NEW a \in Int, OnStack(a)
    PROVE  Load(a) = WordAt(memory, a) /\ Load(a) \in Word
<1>1. memory \in Bytes
    BY DEF Short, CpuInv, TypeOK, Bytes
<1> QED
    BY <1>1, LoadIsWordAt, LoadIsWord DEF Bytes, Word

\* The cases of execute_instruction that use the memory: movl from it ...
LEMMA LoadLine ==
    ASSUME Short, Next, NEW k, NEW a, NEW b, NEW n, At(k, "movl_deref_reg", a, b, n)
    PROVE  IF OnStack(registers[a] + n) THEN Sets(k + 1, b, WordAt(memory, registers[a] + n)) ELSE Strays
<1>1. movl_deref_reg
    BY NextDoes, AtIs DEF Does
<1> DEFINE x == registers[a] + n
<1>2. x \in Int
    BY AtTypes
<1>3. Access(x, Computes("movl_deref_reg", b, Load(x))) /\ UNCHANGED <<program, build, instructions>>
    BY <1>1, AtIs DEF movl_deref_reg, Executes
<1> HIDE DEF x
<1>4. CASE OnStack(x)
    <2>1. Computes("movl_deref_reg", b, Load(x))
        BY <1>3, <1>4 DEF Access
    <2>2. Sets(k + 1, b, Signed(Load(x)))
        BY <2>1, AtTypes, ComputesLine
    <2>3. Load(x) = WordAt(memory, x) /\ Load(x) \in INT_MIN .. INT_MAX
        BY <1>2, <1>4, LoadIs DEF Word
    <2>4. Signed(Load(x)) = Load(x)
        BY <2>3, SignedSame
    <2> QED
        BY <1>4, <2>2, <2>3, <2>4 DEF x
<1>5. CASE ~OnStack(x)
    <2>1. Strays
        BY <1>3, <1>5 DEF Access, Strays, io, history
    <2> QED
        BY <1>5, <2>1 DEF x
<1> QED
    BY <1>4, <1>5

\* ... and to it ...
LEMMA StoreLine ==
    ASSUME Short, Next, NEW k, NEW a, NEW b, NEW n, At(k, "movl_reg_deref", a, b, n)
    PROVE  IF OnStack(registers[b] + n)
           THEN /\ Goes(k + 1) /\ Stores(registers[b] + n, registers[a])
                /\ UNCHANGED <<registers, scanned, printed, compared, calls>>
                /\ memory' = Store(registers[b] + n, registers[a])
           ELSE Strays
<1>1. movl_reg_deref
    BY NextDoes, AtIs DEF Does
<1> DEFINE x == registers[b] + n
           v == registers[a]
<1>2. x \in Int /\ v \in Word
    BY AtTypes
<1>3. UNCHANGED <<program, build, instructions>>
    BY <1>1, AtIs DEF movl_reg_deref, Executes
<1>4. Access(x, memory' = Store(x, v) /\ NextInstruction /\ UNCHANGED <<registers, io, history>>)
    BY <1>1, AtIs DEF movl_reg_deref, Access
<1> HIDE DEF x, v
<1>5. CASE OnStack(x)
    <2>1. memory' = Store(x, v) /\ NextInstruction
          /\ UNCHANGED <<registers, scanned, printed, compared, calls>>
        BY <1>4, <1>5 DEF Access, io, history
    <2>2. Goes(k + 1)
        BY <1>3, <2>1, AtIs, FollowingLine
    <2>3. Stores(x, v)
        BY <1>2, <1>5, <2>1, StoreStores
    <2> QED
        BY <1>5, <2>1, <2>2, <2>3 DEF x, v
<1>6. CASE ~OnStack(x)
    <2>1. Strays
        BY <1>3, <1>4, <1>6 DEF Access, Strays, io, history
    <2> QED
        BY <1>6, <2>1 DEF x
<1> QED
    BY <1>5, <1>6

\* Addresses of the stack are words, and so are the stack pointers around it.
LEMMA StackPointer ==
    ASSUME NEW e \in Int, e >= -4, e <= STACK_SIZE
    PROVE  e \in Word /\ Signed(e) = e
<1>1. e \in INT_MIN .. INT_MAX
    BY Machine
<1> QED
    BY <1>1, SignedSame DEF Word

\* ... the registers, esp among them, hold ints ...
LEMMA EspType ==
    ASSUME Short
    PROVE  /\ ESP = 6 /\ 6 \in 0 .. NUM_REGS - 1 /\ NUM_REGS = 17
           /\ DOMAIN registers = 0 .. NUM_REGS - 1
           /\ \A r \in 0 .. NUM_REGS - 1 : registers[r] \in Word
<1>1. registers \in [0 .. NUM_REGS - 1 -> INT_MIN .. INT_MAX]
    BY DEF Short, CpuInv, TypeOK
<1> QED
    BY <1>1 DEF ESP, NUM_REGS, Word

\* ... pushl, which runs off the memory below its first word ...
LEMMA PushLine ==
    ASSUME Short, Next, NEW k, NEW a, NEW b, NEW n, At(k, "pushl", a, b, n), a # 6,
           registers[6] >= 0, registers[6] <= STACK_SIZE
    PROVE  IF registers[6] >= 4
           THEN /\ Goes(k + 1) /\ Writes(6, registers[6] - 4) /\ Stores(registers[6] - 4, registers[a])
                /\ UNCHANGED <<scanned, printed, compared, calls>>
           ELSE Strays
<1>1. pushl
    BY NextDoes, AtIs DEF Does
<1> DEFINE e == registers[6] - 4
           moved == Set(registers, 6, e)
<1>2. WORD = 4 /\ STACK_SIZE \in Nat /\ registers[6] \in Int /\ registers[a] \in Word
    BY Machine, EspType, AtTypes, Width DEF Word
<1>3. e \in Int /\ e >= -4 /\ e <= STACK_SIZE
    BY <1>2
<1>4. Signed(e) = e
    BY <1>2, <1>3, StackPointer
<1>5. moved[6] = e /\ moved[a] = registers[a]
    BY <1>4, EspType, AtTypes DEF Set
<1>6. UNCHANGED <<program, build, instructions>>
    BY <1>1 DEF pushl, Executes
<1>7. Access(e, /\ registers' = moved /\ memory' = Store(e, registers[a])
                /\ NextInstruction /\ UNCHANGED <<io, history>>)
    BY <1>1, <1>2, <1>5, EspType, AtIs DEF pushl
<1>8. OnStack(e) <=> registers[6] >= 4
    BY <1>2, <1>3 DEF OnStack
<1> HIDE DEF e
<1>9. CASE registers[6] >= 4
    <2>1. registers' = moved /\ memory' = Store(e, registers[a]) /\ NextInstruction
          /\ UNCHANGED <<scanned, printed, compared, calls>>
        BY <1>7, <1>8, <1>9 DEF Access, io, history
    <2>2. Goes(k + 1)
        BY <1>6, <2>1, AtIs, FollowingLine
    <2>3. Stores(e, registers[a])
        BY <1>2, <1>3, <1>8, <1>9, <2>1, StoreStores
    <2>4. Writes(6, Signed(e))
        BY <1>3, <2>1, EspType, SetWrites DEF Short
    <2> QED
        BY <1>4, <1>9, <2>1, <2>2, <2>3, <2>4 DEF e
<1>10. CASE ~(registers[6] >= 4)
    <2>1. Strays
        BY <1>6, <1>7, <1>8, <1>10 DEF Access, Strays, io, history
    <2> QED
        BY <1>10, <2>1
<1> QED
    BY <1>9, <1>10

\* ... popl ...
LEMMA PopLine ==
    ASSUME Short, Next, NEW k, NEW a, NEW b, NEW n, At(k, "popl", a, b, n), a # 6,
           registers[6] >= 0, registers[6] + 4 <= STACK_SIZE
    PROVE  /\ Goes(k + 1)
           /\ registers'[a] = WordAt(memory, registers[6]) /\ registers'[6] = registers[6] + 4
           /\ \A s \in Nat : s # a /\ s # 6 /\ s <= 16 => registers'[s] = registers[s]
           /\ UNCHANGED <<memory, scanned, printed, compared, calls>>
<1>1. popl
    BY NextDoes, AtIs DEF Does
<1> DEFINE e == registers[6]
           f == e + 4
           loaded == Set(registers, a, Load(e))
<1>2. WORD = 4 /\ STACK_SIZE \in Nat /\ e \in Int /\ f \in Int
    BY Machine, EspType, Width DEF Word
<1>3. OnStack(e)
    BY <1>2 DEF OnStack
<1>4. Load(e) = WordAt(memory, e) /\ Load(e) \in INT_MIN .. INT_MAX
    BY <1>2, <1>3, LoadIs DEF Word
<1>5. Signed(Load(e)) = Load(e)
    BY <1>4, SignedSame
<1>6. Signed(f) = f
    BY <1>2, StackPointer
<1> HIDE DEF e, f
<1>7. DOMAIN loaded = 0 .. NUM_REGS - 1 /\ loaded[6] = e /\ loaded[a] = WordAt(memory, e)
      /\ \A s \in 0 .. NUM_REGS - 1 : s # a => loaded[s] = registers[s]
    BY <1>4, <1>5, EspType, AtTypes DEF Set, e
<1>8. /\ registers' = Set(loaded, 6, f) /\ NextInstruction
      /\ UNCHANGED <<memory, scanned, printed, compared, calls>>
      /\ UNCHANGED <<program, build, instructions>>
    BY <1>1, <1>2, <1>3, <1>7, EspType, AtIs DEF popl, Access, Executes, io, history, e, f
<1>9. Goes(k + 1)
    BY <1>8, AtIs, FollowingLine
<1> HIDE DEF loaded
<1>10. registers'[6] = f /\ \A s \in 0 .. NUM_REGS - 1 : s # 6 => registers'[s] = loaded[s]
    BY <1>6, <1>7, <1>8, EspType DEF Set
<1>11. a \in 0 .. NUM_REGS - 1 /\ \A s \in Nat : s <= 16 => s \in 0 .. NUM_REGS - 1
    BY EspType, AtTypes
<1>12. registers'[a] = WordAt(memory, e)
    BY <1>7, <1>10, <1>11
<1>13. \A s \in Nat : s # a /\ s # 6 /\ s <= 16 => registers'[s] = registers[s]
    BY <1>7, <1>10, <1>11
<1> QED
    BY <1>8, <1>9, <1>10, <1>12, <1>13 DEF e, f

\* Line k calls line j; the line behind it is at the address pc.
CallsFrom(k, j, pc) ==
    /\ pc = 4 * k /\ j \in Nat \ {0} /\ j <= Len(instructions)
    /\ \E n \in Int : n = 4 * (j - k - 1) /\ At(k, "call", 0, 0, n)

\* ... call, which pushes the address of the line behind it ...
LEMMA CallLine ==
    ASSUME Short, Next, NEW k, NEW j, NEW behind, CallsFrom(k, j, behind),
           registers[6] >= 0, registers[6] <= STACK_SIZE
    PROVE  IF registers[6] >= 4
           THEN /\ Goes(j) /\ Writes(6, registers[6] - 4) /\ Stores(registers[6] - 4, behind)
                /\ calls' = Append(calls, [pc |-> behind, kept |-> Kept(registers)])
                /\ UNCHANGED <<scanned, printed, compared>>
           ELSE Strays
<1>0. PICK n \in Int : n = 4 * (j - k - 1) /\ At(k, "call", 0, 0, n)
    BY DEF CallsFrom
<1>1. call
    BY <1>0, NextDoes, AtIs DEF Does
<1> DEFINE e == registers[6] - 4
           pc == program_counter + WORD
<1>2. WORD = 4 /\ STACK_SIZE \in Nat /\ registers[6] \in Int /\ ESP = 6 /\ 6 \in 0 .. NUM_REGS - 1
    BY Machine, EspType, Width DEF Word
<1>3. e \in Int /\ e >= -4 /\ e <= STACK_SIZE
    BY <1>2
<1>4. Signed(e) = e
    BY <1>2, <1>3, StackPointer
<1>5. k \in Nat \ {0} /\ program_counter = 4 * (k - 1) /\ k + 1 <= Len(instructions) + 1
      /\ Len(instructions) \in Nat /\ Len(instructions) < 100
      /\ j \in Nat \ {0} /\ j <= Len(instructions) /\ behind = 4 * k
    BY <1>0, AtIs DEF Short, CallsFrom
<1>6. pc = 4 * k /\ program_counter + n + WORD = 4 * (j - 1) /\ pc \in Word
    BY <1>0, <1>2, <1>5, Machine DEF Word
<1>7. UNCHANGED <<program, build, instructions>>
    BY <1>1 DEF call, Executes
<1>8. Access(e, /\ registers' = Set(registers, 6, e) /\ memory' = Store(e, pc)
                /\ calls' = Append(calls, [pc |-> pc, kept |-> Kept(registers)])
                /\ Goto(program_counter + n + WORD) /\ UNCHANGED <<io, compared>>)
    BY <1>0, <1>1, <1>2, <1>4, AtIs DEF call
<1>9. OnStack(e) <=> registers[6] >= 4
    BY <1>2, <1>3 DEF OnStack
<1> HIDE DEF e, pc
<1>10. CASE registers[6] >= 4
    <2>1. registers' = Set(registers, 6, e) /\ memory' = Store(e, pc)
          /\ calls' = Append(calls, [pc |-> pc, kept |-> Kept(registers)])
          /\ Goto(program_counter + n + WORD) /\ UNCHANGED <<scanned, printed, compared>>
        BY <1>8, <1>9, <1>10 DEF Access, io
    <2>2. Goes(j)
        <3>1. j <= Len(instructions) + 1
            BY <1>5
        <3> QED
            BY <1>5, <1>6, <1>7, <2>1, <3>1, GotoGoes
    <2>3. Stores(e, pc)
        BY <1>3, <1>6, <1>9, <1>10, <2>1, StoreStores
    <2>4. Writes(6, Signed(e))
        BY <1>2, <1>3, <2>1, SetWrites DEF Short
    <2>5. pc = behind
        BY <1>5, <1>6
    <2> QED
        BY <1>4, <1>10, <2>1, <2>2, <2>3, <2>4, <2>5 DEF e
<1>11. CASE ~(registers[6] >= 4)
    <2>1. Strays
        BY <1>7, <1>8, <1>9, <1>11 DEF Access, Strays, io, history
    <2> QED
        BY <1>11, <2>1
<1> QED
    BY <1>10, <1>11

\* At the bottom of the stack the program ends, elsewhere it goes on behind the call.
LEMMA EndLine ==
    ASSUME Short, Next, NEW k, At(k, "ret", 0, 0, 0), registers[6] = STACK_SIZE
    PROVE  /\ status' = "done" /\ UNCHANGED <<program, build, instructions>>
           /\ UNCHANGED <<registers, memory, scanned, printed, compared, calls>>
<1>1. ret
    BY NextDoes, AtIs DEF Does
<1>2. UNCHANGED <<program, build, instructions>>
    BY <1>1 DEF ret, Executes
<1>3. registers[ESP] = STACK_SIZE
    BY EspType
<1> QED
    BY <1>1, <1>2, <1>3 DEF ret, io, history

\* ... and ret, which pops it.
LEMMA RetLine ==
    ASSUME Short, Next, NEW k, At(k, "ret", 0, 0, 0), registers[6] >= 0, registers[6] + 4 <= STACK_SIZE,
           NEW j \in Nat \ {0}, j <= Len(instructions), WordAt(memory, registers[6]) = 4 * (j - 1)
    PROVE  /\ Goes(j) /\ Writes(6, registers[6] + 4)
           /\ calls' = IF calls = <<>> THEN <<>> ELSE SubSeq(calls, 1, Len(calls) - 1)
           /\ UNCHANGED <<memory, scanned, printed, compared>>
<1>1. ret
    BY NextDoes, AtIs DEF Does
<1> DEFINE e == registers[6]
           f == e + 4
<1>2. WORD = 4 /\ STACK_SIZE \in Nat /\ e \in Int /\ f \in Int /\ ESP = 6 /\ 6 \in 0 .. NUM_REGS - 1
    BY Machine, EspType, Width DEF Word
<1>3. OnStack(e) /\ e # STACK_SIZE
    BY <1>2 DEF OnStack
<1>4. Load(e) = 4 * (j - 1)
    BY <1>2, <1>3, LoadIs
<1>5. Signed(f) = f
    BY <1>2, StackPointer
<1>6. UNCHANGED <<program, build, instructions>>
    BY <1>1 DEF ret, Executes
<1>7. /\ registers' = Set(registers, 6, f)
      /\ calls' = IF calls = <<>> THEN <<>> ELSE SubSeq(calls, 1, Len(calls) - 1)
      /\ Goto(Load(e)) /\ UNCHANGED <<memory, scanned, printed, compared>>
    BY <1>1, <1>2, <1>3 DEF ret, Access, io
<1>8. j <= Len(instructions) + 1
    BY DEF Short
<1>9. Goes(j)
    BY <1>4, <1>6, <1>7, <1>8, GotoGoes
<1> HIDE DEF f, e
<1>10. Writes(6, Signed(f))
    BY <1>2, <1>7, SetWrites DEF Short
<1> QED
    BY <1>5, <1>7, <1>9, <1>10 DEF e, f

-----------------------------------------------------------------------------
(* The programs of the tests.                                              *)

\* The program is one of the tests, and flags are what the last cmpl made them.
TestsInv == FlagsInv /\ instructions = decode_instructions(Programs[program].bytes)

\* The tests.
LEMMA TestNames == DOMAIN SmallPrograms =
    {"factorial", "log2", "sort", "comparisons", "cmpl", "unaligned1", "unaligned2",
     "wild_pointer", "wild_stack", "wild_jump"}
BY DEF SmallPrograms

\* Each loads the bytes of its program.
LEMMA TestBytes ==
    ASSUME NEW name \in DOMAIN Programs
    PROVE  Programs[name].bytes = SmallPrograms[name].bytes /\ name \in DOMAIN SmallPrograms
           /\ (name \in Wild => Programs[name].inputs \subseteq SmallPrograms[name].inputs)
BY TestsAssumption, Zenon

\* A run of factorial.s executes it.
LEMMA FactorialIs ==
    /\ "factorial" \in DOMAIN Programs =>
          FactorialCode(decode_instructions(Programs["factorial"].bytes))
    /\ TestsInv /\ program = "factorial" =>
          FactorialCode(instructions) /\ Len(instructions) = 18 /\ Short
<1>1. SmallPrograms["factorial"].bytes = Assemble(factorial)
    BY DEF SmallPrograms, Run
<1>2. "factorial" \in DOMAIN Programs => FactorialCode(decode_instructions(Programs["factorial"].bytes))
    BY <1>1, TestBytes, FactorialDecoded
<1>3. ASSUME TestsInv, program = "factorial"
      PROVE  FactorialCode(instructions) /\ Len(instructions) = 18 /\ Short
    <2>1. CpuInv /\ program \in DOMAIN Programs /\ instructions \in Seq(Instruction)
        BY <1>3 DEF TestsInv, FlagsInv, CpuInv
    <2>2. FactorialCode(instructions)
        BY <1>2, <1>3, <2>1 DEF TestsInv
    <2>3. Len(instructions) = 18
        BY <2>1, <2>2 DEF FactorialCode
    <2> QED
        BY <2>1, <2>2, <2>3 DEF Short
<1> QED
    BY <1>2, <1>3

\* A run of log2.s executes it.
LEMMA Log2Is ==
    /\ "log2" \in DOMAIN Programs =>
          Log2Code(decode_instructions(Programs["log2"].bytes))
    /\ TestsInv /\ program = "log2" =>
          Log2Code(instructions) /\ Len(instructions) = 18 /\ Short
<1>1. SmallPrograms["log2"].bytes = Assemble(log2)
    BY DEF SmallPrograms, Run
<1>2. "log2" \in DOMAIN Programs => Log2Code(decode_instructions(Programs["log2"].bytes))
    BY <1>1, TestBytes, Log2Decoded
<1>3. ASSUME TestsInv, program = "log2"
      PROVE  Log2Code(instructions) /\ Len(instructions) = 18 /\ Short
    <2>1. CpuInv /\ program \in DOMAIN Programs /\ instructions \in Seq(Instruction)
        BY <1>3 DEF TestsInv, FlagsInv, CpuInv
    <2>2. Log2Code(instructions)
        BY <1>2, <1>3, <2>1 DEF TestsInv
    <2>3. Len(instructions) = 18
        BY <2>1, <2>2 DEF Log2Code
    <2> QED
        BY <2>1, <2>2, <2>3 DEF Short
<1> QED
    BY <1>2, <1>3

\* A run of sort.s executes it.
LEMMA SortIs ==
    /\ "sort" \in DOMAIN Programs =>
          SortCode(decode_instructions(Programs["sort"].bytes))
    /\ TestsInv /\ program = "sort" =>
          SortCode(instructions) /\ Len(instructions) = 69 /\ Short
<1>1. SmallPrograms["sort"].bytes = Assemble(sort)
    BY DEF SmallPrograms, Run
<1>2. "sort" \in DOMAIN Programs => SortCode(decode_instructions(Programs["sort"].bytes))
    BY <1>1, TestBytes, SortDecoded
<1>3. ASSUME TestsInv, program = "sort"
      PROVE  SortCode(instructions) /\ Len(instructions) = 69 /\ Short
    <2>1. CpuInv /\ program \in DOMAIN Programs /\ instructions \in Seq(Instruction)
        BY <1>3 DEF TestsInv, FlagsInv, CpuInv
    <2>2. SortCode(instructions)
        BY <1>2, <1>3, <2>1 DEF TestsInv
    <2>3. Len(instructions) = 69
        BY <2>1, <2>2 DEF SortCode
    <2> QED
        BY <2>1, <2>2, <2>3 DEF Short
<1> QED
    BY <1>2, <1>3

\* A run of the comparisons executes it.
LEMMA ComparisonsIs ==
    /\ "comparisons" \in DOMAIN Programs =>
          ComparisonsCode(decode_instructions(Programs["comparisons"].bytes))
    /\ TestsInv /\ program = "comparisons" =>
          ComparisonsCode(instructions) /\ Len(instructions) = 13 /\ Short
<1>1. SmallPrograms["comparisons"].bytes = Assemble(comparisons)
    BY DEF SmallPrograms, Run
<1>2. "comparisons" \in DOMAIN Programs => ComparisonsCode(decode_instructions(Programs["comparisons"].bytes))
    BY <1>1, TestBytes, ComparisonsDecoded
<1>3. ASSUME TestsInv, program = "comparisons"
      PROVE  ComparisonsCode(instructions) /\ Len(instructions) = 13 /\ Short
    <2>1. CpuInv /\ program \in DOMAIN Programs /\ instructions \in Seq(Instruction)
        BY <1>3 DEF TestsInv, FlagsInv, CpuInv
    <2>2. ComparisonsCode(instructions)
        BY <1>2, <1>3, <2>1 DEF TestsInv
    <2>3. Len(instructions) = 13
        BY <2>1, <2>2 DEF ComparisonsCode
    <2> QED
        BY <2>1, <2>2, <2>3 DEF Short
<1> QED
    BY <1>2, <1>3

\* A run of cmpl.s executes it.
LEMMA CmplIs ==
    /\ "cmpl" \in DOMAIN Programs =>
          CmplCode(decode_instructions(Programs["cmpl"].bytes))
    /\ TestsInv /\ program = "cmpl" =>
          CmplCode(instructions) /\ Len(instructions) = 28 /\ Short
<1>1. SmallPrograms["cmpl"].bytes = Assemble(flags)
    BY DEF SmallPrograms, Run
<1>2. "cmpl" \in DOMAIN Programs => CmplCode(decode_instructions(Programs["cmpl"].bytes))
    BY <1>1, TestBytes, CmplDecoded
<1>3. ASSUME TestsInv, program = "cmpl"
      PROVE  CmplCode(instructions) /\ Len(instructions) = 28 /\ Short
    <2>1. CpuInv /\ program \in DOMAIN Programs /\ instructions \in Seq(Instruction)
        BY <1>3 DEF TestsInv, FlagsInv, CpuInv
    <2>2. CmplCode(instructions)
        BY <1>2, <1>3, <2>1 DEF TestsInv
    <2>3. Len(instructions) = 28
        BY <2>1, <2>2 DEF CmplCode
    <2> QED
        BY <2>1, <2>2, <2>3 DEF Short
<1> QED
    BY <1>2, <1>3

\* A run of unaligned1.s executes it.
LEMMA Unaligned1Is ==
    /\ "unaligned1" \in DOMAIN Programs =>
          Unaligned1Code(decode_instructions(Programs["unaligned1"].bytes))
    /\ TestsInv /\ program = "unaligned1" =>
          Unaligned1Code(instructions) /\ Len(instructions) = 5 /\ Short
<1>1. SmallPrograms["unaligned1"].bytes = Assemble(unaligned1)
    BY DEF SmallPrograms, Run
<1>2. "unaligned1" \in DOMAIN Programs => Unaligned1Code(decode_instructions(Programs["unaligned1"].bytes))
    BY <1>1, TestBytes, Unaligned1Decoded
<1>3. ASSUME TestsInv, program = "unaligned1"
      PROVE  Unaligned1Code(instructions) /\ Len(instructions) = 5 /\ Short
    <2>1. CpuInv /\ program \in DOMAIN Programs /\ instructions \in Seq(Instruction)
        BY <1>3 DEF TestsInv, FlagsInv, CpuInv
    <2>2. Unaligned1Code(instructions)
        BY <1>2, <1>3, <2>1 DEF TestsInv
    <2>3. Len(instructions) = 5
        BY <2>1, <2>2 DEF Unaligned1Code
    <2> QED
        BY <2>1, <2>2, <2>3 DEF Short
<1> QED
    BY <1>2, <1>3

\* A run of unaligned2.s executes it.
LEMMA Unaligned2Is ==
    /\ "unaligned2" \in DOMAIN Programs =>
          Unaligned2Code(decode_instructions(Programs["unaligned2"].bytes))
    /\ TestsInv /\ program = "unaligned2" =>
          Unaligned2Code(instructions) /\ Len(instructions) = 5 /\ Short
<1>1. SmallPrograms["unaligned2"].bytes = Assemble(unaligned2)
    BY DEF SmallPrograms, Run
<1>2. "unaligned2" \in DOMAIN Programs => Unaligned2Code(decode_instructions(Programs["unaligned2"].bytes))
    BY <1>1, TestBytes, Unaligned2Decoded
<1>3. ASSUME TestsInv, program = "unaligned2"
      PROVE  Unaligned2Code(instructions) /\ Len(instructions) = 5 /\ Short
    <2>1. CpuInv /\ program \in DOMAIN Programs /\ instructions \in Seq(Instruction)
        BY <1>3 DEF TestsInv, FlagsInv, CpuInv
    <2>2. Unaligned2Code(instructions)
        BY <1>2, <1>3, <2>1 DEF TestsInv
    <2>3. Len(instructions) = 5
        BY <2>1, <2>2 DEF Unaligned2Code
    <2> QED
        BY <2>1, <2>2, <2>3 DEF Short
<1> QED
    BY <1>2, <1>3

\* A run of wild_pointer executes it.
LEMMA WildPointerIs ==
    /\ "wild_pointer" \in DOMAIN Programs =>
          WildPointerCode(decode_instructions(Programs["wild_pointer"].bytes))
    /\ TestsInv /\ program = "wild_pointer" =>
          WildPointerCode(instructions) /\ Len(instructions) = 4 /\ Short
<1>1. SmallPrograms["wild_pointer"].bytes = Assemble(wild_pointer)
    BY DEF SmallPrograms, Run
<1>2. "wild_pointer" \in DOMAIN Programs => WildPointerCode(decode_instructions(Programs["wild_pointer"].bytes))
    BY <1>1, TestBytes, WildPointerDecoded
<1>3. ASSUME TestsInv, program = "wild_pointer"
      PROVE  WildPointerCode(instructions) /\ Len(instructions) = 4 /\ Short
    <2>1. CpuInv /\ program \in DOMAIN Programs /\ instructions \in Seq(Instruction)
        BY <1>3 DEF TestsInv, FlagsInv, CpuInv
    <2>2. WildPointerCode(instructions)
        BY <1>2, <1>3, <2>1 DEF TestsInv
    <2>3. Len(instructions) = 4
        BY <2>1, <2>2 DEF WildPointerCode
    <2> QED
        BY <2>1, <2>2, <2>3 DEF Short
<1> QED
    BY <1>2, <1>3

\* A run of wild_stack executes it.
LEMMA WildStackIs ==
    /\ "wild_stack" \in DOMAIN Programs =>
          WildStackCode(decode_instructions(Programs["wild_stack"].bytes))
    /\ TestsInv /\ program = "wild_stack" =>
          WildStackCode(instructions) /\ Len(instructions) = 4 /\ Short
<1>1. SmallPrograms["wild_stack"].bytes = Assemble(wild_stack)
    BY DEF SmallPrograms, Run
<1>2. "wild_stack" \in DOMAIN Programs => WildStackCode(decode_instructions(Programs["wild_stack"].bytes))
    BY <1>1, TestBytes, WildStackDecoded
<1>3. ASSUME TestsInv, program = "wild_stack"
      PROVE  WildStackCode(instructions) /\ Len(instructions) = 4 /\ Short
    <2>1. CpuInv /\ program \in DOMAIN Programs /\ instructions \in Seq(Instruction)
        BY <1>3 DEF TestsInv, FlagsInv, CpuInv
    <2>2. WildStackCode(instructions)
        BY <1>2, <1>3, <2>1 DEF TestsInv
    <2>3. Len(instructions) = 4
        BY <2>1, <2>2 DEF WildStackCode
    <2> QED
        BY <2>1, <2>2, <2>3 DEF Short
<1> QED
    BY <1>2, <1>3

\* A run of wild_jump executes it.
LEMMA WildJumpIs ==
    /\ "wild_jump" \in DOMAIN Programs =>
          WildJumpCode(decode_instructions(Programs["wild_jump"].bytes))
    /\ TestsInv /\ program = "wild_jump" =>
          WildJumpCode(instructions) /\ Len(instructions) = 1 /\ Short
<1>1. SmallPrograms["wild_jump"].bytes = Assemble(wild_jump)
    BY DEF SmallPrograms, Run
<1>2. "wild_jump" \in DOMAIN Programs => WildJumpCode(decode_instructions(Programs["wild_jump"].bytes))
    BY <1>1, TestBytes, WildJumpDecoded
<1>3. ASSUME TestsInv, program = "wild_jump"
      PROVE  WildJumpCode(instructions) /\ Len(instructions) = 1 /\ Short
    <2>1. CpuInv /\ program \in DOMAIN Programs /\ instructions \in Seq(Instruction)
        BY <1>3 DEF TestsInv, FlagsInv, CpuInv
    <2>2. WildJumpCode(instructions)
        BY <1>2, <1>3, <2>1 DEF TestsInv
    <2>3. Len(instructions) = 1
        BY <2>1, <2>2 DEF WildJumpCode
    <2> QED
        BY <2>1, <2>2, <2>3 DEF Short
<1> QED
    BY <1>2, <1>3

\* No test does more with eflags than print it.
LEMMA TestsPrivate == FlagsPrivate
<1> DEFINE Hides(d) == d.opcode # "printr" => d.first_register # EFLAGS /\ d.second_register # EFLAGS
<1>1. /\ \A op, n : \A a, b \in Nat : a < 16 /\ b < 16 => Hides(Decoded(op, a, b, n))
      /\ \A a, b, n : Hides(Decoded("printr", a, b, n))
    BY DEF Decoded, EFLAGS
<1> HIDE DEF Hides
<1> DEFINE code(name) == decode_instructions(Programs[name].bytes)
           Hidden(name) == \A n \in DOMAIN code(name) : Hides(code(name)[n])
<1>2. "factorial" \in DOMAIN Programs => Hidden("factorial")
    BY <1>1, FactorialIs DEF FactorialCode
<1>3. "log2" \in DOMAIN Programs => Hidden("log2")
    BY <1>1, Log2Is DEF Log2Code
<1>4. "sort" \in DOMAIN Programs => Hidden("sort")
    BY <1>1, SortIs DEF SortCode
<1>5. "comparisons" \in DOMAIN Programs => Hidden("comparisons")
    BY <1>1, ComparisonsIs DEF ComparisonsCode
<1>11. "cmpl" \in DOMAIN Programs => Hidden("cmpl")
    BY <1>1, CmplIs DEF CmplCode
<1>6. "unaligned1" \in DOMAIN Programs => Hidden("unaligned1")
    BY <1>1, Unaligned1Is DEF Unaligned1Code
<1>7. "unaligned2" \in DOMAIN Programs => Hidden("unaligned2")
    BY <1>1, Unaligned2Is DEF Unaligned2Code
<1>8. "wild_pointer" \in DOMAIN Programs => Hidden("wild_pointer")
    BY <1>1, WildPointerIs DEF WildPointerCode
<1>9. "wild_stack" \in DOMAIN Programs => Hidden("wild_stack")
    BY <1>1, WildStackIs DEF WildStackCode
<1>10. "wild_jump" \in DOMAIN Programs => Hidden("wild_jump")
    BY <1>1, WildJumpIs DEF WildJumpCode
<1>20. \A name \in DOMAIN Programs : Hidden(name)
    BY <1>2, <1>3, <1>4, <1>5, <1>6, <1>7, <1>8, <1>9, <1>10, <1>11, TestBytes,
       TestNames
<1> QED
    BY <1>20 DEF FlagsPrivate, EflagsHidden, Hides

\* run_program loads one of the tests ...
LEMMA TestsStart == Init => TestsInv
BY TestsPrivate, FlagsStart DEF TestsInv, Init

\* ... and none writes into its own text.
LEMMA TestsStep == ASSUME TestsInv, [Next]_vars PROVE TestsInv' /\ UNCHANGED <<program, build, instructions>>
<1>1. UNCHANGED <<program, build, instructions>>
    BY DEF Next, vars, subl, addl_reg_reg, addl_imm_reg, imull, shrl, movl_reg_reg, movl_imm_reg,
           movl_deref_reg, movl_reg_deref, cmpl, jcc, jmp, call, ret, pushl, popl, printr, readr,
           Computes, Jumps, Executes
<1> QED
    BY <1>1, FlagsStep DEF TestsInv

\* The program is at line k.
On(k) == status = "running" /\ program_counter = 4 * (k - 1) /\ k \in Nat \ {0} /\ k <= Len(instructions)

\* The program is at the instruction of its line.
LEMMA OnIs ==
    ASSUME NEW k, On(k), NEW op, NEW a, NEW b, NEW n, instructions[k] = Decoded(op, a, b, n)
    PROVE  At(k, op, a, b, n)
<1>1. program_counter \div WORD + 1 = k
    BY Machine DEF On
<1> QED
    BY <1>1 DEF On, At, instr

\* It stays in its program.
LEMMA GoesOn ==
    ASSUME NEW k \in Nat \ {0}, Goes(k), k <= Len(instructions), Short
    PROVE  On(k)'
BY DEF Goes, On, Short

\* A run begins at line 1 of its program.
LEMMA StartsOn ==
    ASSUME Init, NEW n \in Nat \ {0}, Len(instructions) = n
    PROVE  On(1) /\ status = "running"
<1>1. instructions # <<>>
    <2>1. Len(<<>>) = 0
        OBVIOUS
    <2> QED
        BY <2>1
<1>2. status = "running" /\ program_counter = 0
    BY <1>1 DEF Init
<1>3. 0 = 4 * (1 - 1)
    OBVIOUS
<1> QED
    BY <1>2, <1>3 DEF On

\* What ReturnsToCaller says of a step.
Returns ==
    Executes("ret") /\ status' # "stray" =>
          IF registers[ESP] = STACK_SIZE THEN calls = <<>>
          ELSE /\ calls # <<>>
               /\ program_counter' = calls[Len(calls)].pc
               /\ Kept(registers') = calls[Len(calls)].kept

\* Another instruction returns nowhere.
LEMMA NoRet ==
    ASSUME NEW k, NEW op, NEW a, NEW b, NEW n, At(k, op, a, b, n), op # "ret"
    PROVE  Returns
BY AtIs DEF Returns, Executes

\* A program without a ret cannot return wrongly.
LEMMA WildWithoutRet ==
    ASSUME TestsInv, Next, program \in {"wild_pointer", "wild_jump"}
    PROVE  Returns
<1> DEFINE i == program_counter \div WORD + 1
<1>1. CpuInv /\ status = "running"
    BY NextDoes DEF TestsInv, FlagsInv
<1>2. i \in DOMAIN instructions
    <2>1. program_counter \in Nat /\ program_counter \div WORD < Len(instructions)
        BY <1>1 DEF CpuInv, TypeOK
    <2>2. program_counter \div WORD \in Nat /\ instructions \in Seq(Instruction)
        BY <1>1, <2>1, Sizes DEF CpuInv
    <2> QED
        BY <2>1, <2>2
<1> HIDE DEF i
<1>3. \A op, a, b, n : op # "ret" => Decoded(op, a, b, n).opcode # "ret"
    BY DEF Decoded
<1>4. instructions[i].opcode # "ret"
    <2>1. CASE program = "wild_pointer"
        BY <2>1, <1>2, <1>3, WildPointerIs DEF WildPointerCode
    <2>2. CASE program = "wild_jump"
        BY <2>2, <1>2, <1>3, WildJumpIs DEF WildJumpCode
    <2> QED
        BY <2>1, <2>2
<1> QED
    BY <1>4 DEF Returns, Executes, instr, i

-----------------------------------------------------------------------------
(* wild_stack.s: a push and a pop below a stack pointer that is read.      *)

WildStackAt(k) ==
    /\ On(k) /\ calls = <<>>
    /\ k = 1 => registers[6] = STACK_SIZE
    /\ k = 2 => registers[6] \in {2, STACK_SIZE - 2, STACK_SIZE}
    /\ k = 3 => registers[6] \in {STACK_SIZE - 6, STACK_SIZE - 4}
    /\ k = 4 => registers[6] \in {STACK_SIZE - 2, STACK_SIZE}

WildStackInv == status = "running" => \E k \in 1 .. 4 : WildStackAt(k)

\* The run begins at line 1 ...
LEMMA WildStackStart == ASSUME Init, TestsInv, program = "wild_stack" PROVE WildStackInv
<1>1. Len(instructions) = 4
    BY WildStackIs
<1>2. On(1) /\ status = "running"
    BY <1>1, StartsOn
<1>3. registers[6] = STACK_SIZE /\ calls = <<>>
    BY DEF Init, ESP, NUM_REGS
<1>4. status = "running" => WildStackAt(1)
    BY <1>2, <1>3 DEF WildStackAt
<1> QED
    BY <1>4 DEF WildStackInv

\* ... and goes down the four lines, if it stays in the memory.
LEMMA WildStackStep ==
    ASSUME TestsInv, WildStackInv, Next, program = "wild_stack"
    PROVE  WildStackInv' /\ Returns
<1>1. WildStackCode(instructions) /\ Len(instructions) = 4 /\ Short
    BY WildStackIs
<1>2. PICK k \in 1 .. 4 : WildStackAt(k)
    BY NextDoes DEF WildStackInv
<1>3. On(k) /\ k \in Nat /\ STACK_SIZE \in Nat /\ STACK_SIZE >= 64
    BY <1>2, Machine DEF WildStackAt
<1>4. ASSUME NEW j \in 2 .. 4, Goes(j) PROVE On(j)'
    BY <1>1, <1>4, GoesOn
<1>5. CASE k = 1
    <2>1. At(1, "readr", 6, 0, 0)
        BY <1>1, <1>3, <1>5, OnIs DEF WildStackCode
    <2>2. /\ Goes(2) /\ UNCHANGED calls
          /\ \E v \in Programs[program].inputs \cup {registers[6]} : Writes(6, v)
        <3>1. Goes(1 + 1) /\ UNCHANGED calls
              /\ \E v \in Programs[program].inputs \cup {registers[6]} : Writes(6, v)
            BY <1>1, <2>1, ReadrLine
        <3> QED
            BY <3>1
    <2>3. Programs[program].inputs \subseteq {2, STACK_SIZE - 2, STACK_SIZE}
        <3>1. program \in DOMAIN Programs /\ program \in Wild
            BY DEF TestsInv, FlagsInv, CpuInv, Wild
        <3>2. SmallPrograms["wild_stack"].inputs = {2, STACK_SIZE - 2, STACK_SIZE}
            BY DEF SmallPrograms, Run
        <3> QED
            BY <3>1, <3>2, TestBytes
    <2>4. registers'[6] \in {2, STACK_SIZE - 2, STACK_SIZE}
        BY <1>2, <1>5, <2>2, <2>3 DEF Writes, WildStackAt
    <2>5. WildStackAt(2)'
        BY <1>2, <1>4, <2>2, <2>4 DEF WildStackAt
    <2> QED
        BY <2>1, <2>5, NoRet DEF WildStackInv
<1>6. CASE k = 2
    <2>1. At(2, "pushl", 0, 0, 0)
        BY <1>1, <1>3, <1>6, OnIs DEF WildStackCode
    <2>2. registers[6] \in {2, STACK_SIZE - 2, STACK_SIZE} /\ calls = <<>>
        BY <1>2, <1>6 DEF WildStackAt
    <2>3. IF registers[6] >= 4
          THEN Goes(2 + 1) /\ Writes(6, registers[6] - 4) /\ UNCHANGED calls
          ELSE Strays
        BY <1>1, <1>3, <2>1, <2>2, PushLine
    <2>4. CASE registers[6] >= 4
        <3>1. Goes(3) /\ registers'[6] = registers[6] - 4 /\ UNCHANGED calls
            BY <2>3, <2>4 DEF Writes
        <3>2. registers'[6] \in {STACK_SIZE - 6, STACK_SIZE - 4}
            BY <1>3, <2>2, <2>4, <3>1
        <3>3. WildStackAt(3)'
            BY <1>4, <2>2, <3>1, <3>2 DEF WildStackAt
        <3> QED
            BY <2>1, <3>3, NoRet DEF WildStackInv
    <2>5. CASE ~(registers[6] >= 4)
        BY <2>1, <2>3, <2>5, NoRet DEF WildStackInv, Strays
    <2> QED
        BY <2>4, <2>5
<1>7. CASE k = 3
    <2>1. At(3, "popl", 0, 0, 0)
        BY <1>1, <1>3, <1>7, OnIs DEF WildStackCode
    <2>2. registers[6] \in {STACK_SIZE - 6, STACK_SIZE - 4} /\ calls = <<>>
        BY <1>2, <1>7 DEF WildStackAt
    <2>3. Goes(3 + 1) /\ registers'[6] = registers[6] + 4 /\ UNCHANGED calls
        BY <1>1, <1>3, <2>1, <2>2, PopLine
    <2>4. registers'[6] \in {STACK_SIZE - 2, STACK_SIZE} /\ Goes(4)
        BY <1>3, <2>2, <2>3
    <2>5. WildStackAt(4)'
        BY <1>4, <2>2, <2>3, <2>4 DEF WildStackAt
    <2> QED
        BY <2>1, <2>5, NoRet DEF WildStackInv
<1>8. CASE k = 4
    <2>1. At(4, "ret", 0, 0, 0)
        BY <1>1, <1>3, <1>8, OnIs DEF WildStackCode
    <2>2. registers[6] \in {STACK_SIZE - 2, STACK_SIZE} /\ calls = <<>> /\ ESP = 6 /\ WORD = 4
        BY <1>2, <1>8, Machine DEF WildStackAt, ESP
    <2>3. ret
        BY NextDoes, <2>1, AtIs DEF Does
    <2>4. CASE registers[6] = STACK_SIZE
        BY <1>1, <2>1, <2>2, <2>4, EndLine DEF WildStackInv, Returns
    <2>5. CASE registers[6] # STACK_SIZE
        <3>1. ~OnStack(registers[6])
            BY <1>3, <2>2, <2>5 DEF OnStack
        <3>2. status' = "stray"
            BY <2>2, <2>3, <2>5, <3>1 DEF ret, Access
        <3> QED
            BY <3>2 DEF WildStackInv, Returns
    <2> QED
        BY <2>4, <2>5
<1> QED
    BY <1>5, <1>6, <1>7, <1>8

-----------------------------------------------------------------------------
(* The comparisons of je.s to jle.s: no line leaves the program.           *)

ComparisonsInv == status # "stray" /\ (status = "running" => \E k \in 1 .. 13 : On(k))

\* The run begins at line 1 ...
LEMMA ComparisonsStart == ASSUME Init, TestsInv, program = "comparisons" PROVE ComparisonsInv
<1>1. Len(instructions) = 13
    BY ComparisonsIs
<1>2. On(1) /\ status = "running"
    BY <1>1, StartsOn
<1> QED
    BY <1>2 DEF Init, ComparisonsInv

\* ... and either way of every jump is a line of the program.
LEMMA ComparisonsStep ==
    ASSUME TestsInv, ComparisonsInv, Next, program = "comparisons"
    PROVE  ComparisonsInv' /\ Returns
<1>1. ComparisonsCode(instructions) /\ Len(instructions) = 13 /\ Short
    BY ComparisonsIs
<1>2. PICK k \in 1 .. 13 : On(k)
    BY NextDoes DEF ComparisonsInv
<1>3. ASSUME NEW j \in 1 .. 14, Goes(j) PROVE ComparisonsInv'
    <2>1. CASE j = 14
        BY <1>1, <1>3, <2>1 DEF Goes, ComparisonsInv
    <2>2. CASE j # 14
        <3>1. j \in Nat \ {0} /\ j <= Len(instructions) /\ j \in 1 .. 13
            BY <1>1, <2>2
        <3>2. On(j)' /\ status' = "running"
            BY <1>1, <1>3, <3>1, GoesOn DEF Goes
        <3> QED
            BY <3>1, <3>2 DEF ComparisonsInv
    <2> QED
        BY <2>1, <2>2
<1>4. CASE k \in {1, 2}
    <2>1. PICK r : At(k, "readr", r, 0, 0)
        BY <1>1, <1>2, <1>4, OnIs DEF ComparisonsCode
    <2>2. Goes(k + 1)
        BY <1>1, <2>1, ReadrLine
    <2> QED
        BY <1>3, <1>4, <2>1, <2>2, NoRet
<1>5. CASE k = 3
    <2>1. At(3, "cmpl", 0, 1, 0)
        BY <1>1, <1>2, <1>5, OnIs DEF ComparisonsCode
    <2>2. Goes(3 + 1)
        BY <1>1, <2>1, CmplLine DEF TestsInv, FlagsInv
    <2> QED
        BY <1>3, <2>1, <2>2, NoRet
<1>6. CASE k \in {4, 6, 8, 10}
    <2>1. PICK op \in Conditional : At(k, op, 0, 0, 4)
        BY <1>1, <1>2, <1>6, OnIs DEF ComparisonsCode, Conditional
    <2>2. k + 2 \in Nat \ {0} /\ k + 2 <= Len(instructions) /\ 4 = 4 * ((k + 2) - k - 1)
        BY <1>1, <1>6
    <2>3. Goes(k + 2) \/ Goes(k + 1)
        BY <1>1, <2>1, <2>2, JccLine DEF Registers
    <2>4. op # "ret"
        BY <2>1 DEF Conditional
    <2> QED
        BY <1>3, <1>6, <2>1, <2>3, <2>4, NoRet
<1>7. CASE k = 12
    <2>1. At(12, "jbe", 0, 0, 4)
        BY <1>1, <1>2, <1>7, OnIs DEF ComparisonsCode
    <2>2. jcc
        BY <2>1, NextDoes, AtIs DEF Does, Conditional
    <2>3. PICK op \in Conditional : Jumps(op, Taken(op, Unsigned(registers[EFLAGS])))
        BY <2>2 DEF jcc
    <2>4. /\ program_counter = 44 /\ imm = 4 /\ WORD = 4
          /\ UNCHANGED <<program, build, instructions>>
        BY <2>1, <2>3, AtIs, Machine DEF Jumps, Executes
    <2>5. Goto(52) \/ Goto(48)
        BY <2>3, <2>4 DEF Jumps
    <2>6. Goes(14) \/ Goes(13)
        BY <1>1, <2>4, <2>5, GotoGoes
    <2> QED
        BY <1>3, <2>1, <2>6, NoRet
<1>8. CASE k \in {5, 7, 9, 11, 13}
    <2>1. At(k, "printr", 0, 0, 0)
        BY <1>1, <1>2, <1>8, OnIs DEF ComparisonsCode
    <2>2. Goes(k + 1)
        BY <1>1, <2>1, PrintrLine
    <2> QED
        BY <1>3, <1>8, <2>1, <2>2, NoRet
<1> QED
    BY <1>4, <1>5, <1>6, <1>7, <1>8

-----------------------------------------------------------------------------
(* cmpl.s, which prints the flags of ten comparisons.                      *)

\* What it compares ...
CmplFirst == <<1, -1, 1, 2, 1, -1, -1, -2, -2, 1>>
CmplSecond == <<1, -1, 2, 1, -1, 1, -2, -1, INT_MAX, INT_MIN>>

\* ... and the flags it has printed of the first m of them, m before each line.
FlagsShown(m) ==
    /\ printed \in Seq(Int) /\ Len(printed) = m
    /\ \A n \in 1 .. m : printed[n] = Signed(Flags(build, CmplFirst[n], CmplSecond[n]))

Shown == <<0, 0, 0, 0, 0, 0, 1, 1, 2, 2, 3, 3, 4, 4, 5, 5, 6, 6, 7, 7, 8, 8, 8, 8, 9, 9, 9, 10>>

CmplLines == {5, 7, 9, 11, 13, 15, 17, 19, 23, 26}
PrintLines == {6, 8, 10, 12, 14, 16, 18, 20, 24, 27}

\* What the registers hold before line k.
CmplHolds(k) ==
    /\ registers[6] = STACK_SIZE
    /\ k > 1 => registers[0] = 1
    /\ k > 2 => registers[1] = 2
    /\ k > 3 => registers[2] = -1
    /\ k > 4 => registers[3] = -2
    /\ k = 22 => registers[4] = -1
    /\ k \in 23 .. 25 => registers[4] = INT_MAX
    /\ k \in 26 .. 28 => registers[4] = INT_MIN

CmplAt(k) ==
    /\ On(k) /\ calls = <<>> /\ CmplHolds(k) /\ FlagsShown(Shown[k])
    /\ k \in PrintLines => compared = <<CmplFirst[Shown[k] + 1], CmplSecond[Shown[k] + 1]>>

CmplInv ==
    /\ status # "stray"
    /\ status = "running" => \E k \in 1 .. 28 : CmplAt(k)
    /\ status = "done" => FlagsShown(10)

\* The run begins at line 1 ...
LEMMA CmplStart == ASSUME Init, TestsInv, program = "cmpl" PROVE CmplInv
<1>1. Len(instructions) = 28
    BY CmplIs
<1>2. On(1) /\ status = "running"
    BY <1>1, StartsOn
<1>3. calls = <<>> /\ printed = <<>> /\ registers[6] = STACK_SIZE
    BY DEF Init, ESP, NUM_REGS
<1>4. FlagsShown(0)
    BY <1>3 DEF FlagsShown
<1>5. CmplAt(1)
    BY <1>2, <1>3, <1>4 DEF CmplAt, CmplHolds, Shown, PrintLines
<1> QED
    BY <1>2, <1>5 DEF CmplInv

\* ... compares what the lists say ...
LEMMA CmplCompares ==
    ASSUME TestsInv, Next, program = "cmpl", NEW k \in CmplLines, CmplAt(k)
    PROVE  CmplAt(k + 1)' /\ status' = "running" /\ Returns
<1>1. CmplCode(instructions) /\ Len(instructions) = 28 /\ Short /\ On(k)
    BY CmplIs DEF CmplAt
<1> DEFINE m == Shown[k] + 1
<1>2. PICK a \in 0 .. 4 : \E b \in 0 .. 4 : /\ At(k, "cmpl", a, b, 0)
                                            /\ registers[a] = CmplFirst[m]
                                            /\ registers[b] = CmplSecond[m]
    <2>1. CASE k = 5
        <3>1. At(k, "cmpl", 0, 0, 0)
            BY <1>1, <2>1, OnIs DEF CmplCode
        <3> QED
            BY <2>1, <3>1 DEF CmplAt, CmplHolds, CmplFirst, CmplSecond, Shown
    <2>2. CASE k = 7
        <3>1. At(k, "cmpl", 2, 2, 0)
            BY <1>1, <2>2, OnIs DEF CmplCode
        <3> QED
            BY <2>2, <3>1 DEF CmplAt, CmplHolds, CmplFirst, CmplSecond, Shown
    <2>3. CASE k = 9
        <3>1. At(k, "cmpl", 0, 1, 0)
            BY <1>1, <2>3, OnIs DEF CmplCode
        <3> QED
            BY <2>3, <3>1 DEF CmplAt, CmplHolds, CmplFirst, CmplSecond, Shown
    <2>4. CASE k = 11
        <3>1. At(k, "cmpl", 1, 0, 0)
            BY <1>1, <2>4, OnIs DEF CmplCode
        <3> QED
            BY <2>4, <3>1 DEF CmplAt, CmplHolds, CmplFirst, CmplSecond, Shown
    <2>5. CASE k = 13
        <3>1. At(k, "cmpl", 0, 2, 0)
            BY <1>1, <2>5, OnIs DEF CmplCode
        <3> QED
            BY <2>5, <3>1 DEF CmplAt, CmplHolds, CmplFirst, CmplSecond, Shown
    <2>6. CASE k = 15
        <3>1. At(k, "cmpl", 2, 0, 0)
            BY <1>1, <2>6, OnIs DEF CmplCode
        <3> QED
            BY <2>6, <3>1 DEF CmplAt, CmplHolds, CmplFirst, CmplSecond, Shown
    <2>7. CASE k = 17
        <3>1. At(k, "cmpl", 2, 3, 0)
            BY <1>1, <2>7, OnIs DEF CmplCode
        <3> QED
            BY <2>7, <3>1 DEF CmplAt, CmplHolds, CmplFirst, CmplSecond, Shown
    <2>8. CASE k = 19
        <3>1. At(k, "cmpl", 3, 2, 0)
            BY <1>1, <2>8, OnIs DEF CmplCode
        <3> QED
            BY <2>8, <3>1 DEF CmplAt, CmplHolds, CmplFirst, CmplSecond, Shown
    <2>9. CASE k = 23
        <3>1. At(k, "cmpl", 3, 4, 0)
            BY <1>1, <2>9, OnIs DEF CmplCode
        <3> QED
            BY <2>9, <3>1 DEF CmplAt, CmplHolds, CmplFirst, CmplSecond, Shown
    <2>10. CASE k = 26
        <3>1. At(k, "cmpl", 0, 4, 0)
            BY <1>1, <2>10, OnIs DEF CmplCode
        <3> QED
            BY <2>10, <3>1 DEF CmplAt, CmplHolds, CmplFirst, CmplSecond, Shown
    <2> QED
        BY <2>1, <2>2, <2>3, <2>4, <2>5, <2>6, <2>7, <2>8, <2>9, <2>10 DEF CmplLines
<1>3. PICK b \in 0 .. 4 : At(k, "cmpl", a, b, 0) /\ registers[a] = CmplFirst[m] /\ registers[b] = CmplSecond[m]
    BY <1>2
<1>4. /\ Goes(k + 1) /\ compared' = <<CmplFirst[m], CmplSecond[m]>>
      /\ \A s \in Nat : s < 16 => registers'[s] = registers[s]
      /\ UNCHANGED <<printed, calls>>
    BY <1>1, <1>3, CmplLine DEF TestsInv, FlagsInv
<1>5. On(k + 1)' /\ status' = "running" /\ build' = build /\ instructions' = instructions
    BY <1>1, <1>4, GoesOn DEF Goes, CmplLines
<1>6. Shown[k + 1] = Shown[k] /\ k + 1 \in 6 .. 27 /\ (k + 1 = 22 => k = 21)
      /\ (k + 1 \in 23 .. 25 => k \in 23 .. 25) /\ (k + 1 \in 26 .. 28 => k \in 26 .. 28)
    BY DEF Shown, CmplLines
<1>7. FlagsShown(Shown[k + 1])'
    BY <1>4, <1>5, <1>6 DEF FlagsShown, CmplAt
<1>8. CmplHolds(k + 1)'
    BY <1>4, <1>6 DEF CmplHolds, CmplAt, CmplLines
<1>9. CmplAt(k + 1)'
    BY <1>4, <1>5, <1>6, <1>7, <1>8 DEF CmplAt
<1> QED
    BY <1>3, <1>5, <1>9, NoRet

\* ... and prints the flags of it.
LEMMA CmplPrints ==
    ASSUME TestsInv, Next, program = "cmpl", NEW k \in PrintLines, CmplAt(k)
    PROVE  CmplAt(k + 1)' /\ status' = "running" /\ Returns
<1>1. CmplCode(instructions) /\ Len(instructions) = 28 /\ Short /\ On(k)
    BY CmplIs DEF CmplAt
<1> DEFINE m == Shown[k]
           f(n) == Signed(Flags(build, CmplFirst[n], CmplSecond[n]))
<1>2. At(k, "printr", 16, 0, 0)
    <2>1. instructions[k] = Decoded("printr", 16, 0, 0)
        BY <1>1 DEF CmplCode, PrintLines
    <2> QED
        BY <1>1, <2>1, OnIs
<1>3. compared = <<CmplFirst[m + 1], CmplSecond[m + 1]>>
    BY DEF CmplAt
<1>4. registers[16] = f(m + 1) /\ registers[16] \in Int
    <2>1. PICK x, y \in INT_MIN .. INT_MAX : compared = <<x, y>> /\ FlagsOf(build, x, y)
        BY <1>3 DEF TestsInv, FlagsInv
    <2>2. x = CmplFirst[m + 1] /\ y = CmplSecond[m + 1]
        BY <1>3, <2>1
    <2> QED
        BY <1>1, <1>2, <2>1, <2>2, AtTypes DEF FlagsOf, EFLAGS
<1>5. Goes(k + 1) /\ printed' = Append(printed, registers[16]) /\ UNCHANGED <<registers, calls>>
    BY <1>1, <1>2, PrintrLine
<1>6. On(k + 1)' /\ status' = "running" /\ build' = build /\ instructions' = instructions
    BY <1>1, <1>5, GoesOn DEF Goes, PrintLines
<1>7. /\ Shown[k + 1] = m + 1 /\ m \in Nat /\ k + 1 \notin PrintLines /\ k + 1 \in 7 .. 28
      /\ (k + 1 # 22) /\ (k + 1 \in 23 .. 25 => k \in 23 .. 25) /\ (k + 1 \in 26 .. 28 => k \in 26 .. 28)
    BY DEF Shown, PrintLines
<1>8. FlagsShown(m + 1)'
    <2>1. FlagsShown(m)
        BY DEF CmplAt
    <2> HIDE DEF m
    <2>2. printed' \in Seq(Int) /\ Len(printed') = m + 1
          /\ \A n \in 1 .. m + 1 : printed'[n] = IF n = m + 1 THEN registers[16] ELSE printed[n]
        BY <1>4, <1>5, <1>7, <2>1 DEF FlagsShown
    <2>3. \A n \in 1 .. m + 1 : printed'[n] = f(n)
        <3>1. \A n \in 1 .. m : printed[n] = f(n)
            BY <2>1 DEF FlagsShown
        <3> HIDE DEF f
        <3> QED
            BY <1>4, <1>7, <2>2, <3>1
    <2> QED
        BY <1>6, <2>2, <2>3 DEF FlagsShown
<1>9. CmplHolds(k + 1)'
    BY <1>5, <1>7 DEF CmplHolds, CmplAt, PrintLines
<1>10. CmplAt(k + 1)'
    BY <1>5, <1>6, <1>7, <1>8, <1>9 DEF CmplAt
<1> QED
    BY <1>2, <1>6, <1>10, NoRet

\* The other lines set a register, or end the run.
LEMMA CmplStep ==
    ASSUME TestsInv, CmplInv, Next, program = "cmpl"
    PROVE  CmplInv' /\ Returns
<1>1. CmplCode(instructions) /\ Len(instructions) = 28 /\ Short
    BY CmplIs
<1>2. PICK k \in 1 .. 28 : CmplAt(k)
    BY NextDoes DEF CmplInv
<1>3. On(k) /\ calls = <<>> /\ CmplHolds(k) /\ FlagsShown(Shown[k])
    BY <1>2 DEF CmplAt
<1>4. CASE k \in CmplLines
    <2>1. CmplAt(k + 1)' /\ status' = "running" /\ Returns /\ k + 1 \in 1 .. 28
        BY <1>2, <1>4, CmplCompares DEF CmplLines
    <2> QED
        BY <2>1 DEF CmplInv
<1>5. CASE k \in PrintLines
    <2>1. CmplAt(k + 1)' /\ status' = "running" /\ Returns /\ k + 1 \in 1 .. 28
        BY <1>2, <1>5, CmplPrints DEF PrintLines
    <2> QED
        BY <2>1 DEF CmplInv
<1>6. ASSUME NEW r \in 0 .. 4, NEW v, Sets(k + 1, r, v), k \in {1, 2, 3, 4, 21, 22, 25},
             CmplHolds(k + 1)'
      PROVE  CmplInv'
    <2>1. Shown[k + 1] = Shown[k] /\ k + 1 \notin PrintLines /\ k + 1 \in 1 .. 28
        BY <1>6 DEF Shown, PrintLines
    <2>2. Goes(k + 1) /\ UNCHANGED <<printed, calls>>
        BY <1>6 DEF Sets
    <2>3. On(k + 1)' /\ status' = "running" /\ build' = build
        BY <1>1, <2>1, <2>2, GoesOn DEF Goes
    <2>4. FlagsShown(Shown[k + 1])'
        BY <1>3, <2>1, <2>2, <2>3 DEF FlagsShown
    <2>5. CmplAt(k + 1)'
        BY <1>3, <1>6, <2>1, <2>2, <2>3, <2>4 DEF CmplAt
    <2> QED
        BY <2>1, <2>3, <2>5 DEF CmplInv
<1>7. CASE k = 1
    <2>1. At(1, "movl_imm_reg", 0, 0, 1)
        BY <1>1, <1>3, <1>7, OnIs DEF CmplCode
    <2>2. Sets(1 + 1, 0, 1)
        BY <1>1, <2>1, MovlImmLine
    <2>3. CmplHolds(1 + 1)'
        BY <1>3, <1>7, <2>2 DEF CmplHolds, Sets, Writes
    <2> QED
        BY <1>6, <1>7, <2>1, <2>2, <2>3, NoRet
<1>8. CASE k = 2
    <2>1. At(2, "movl_imm_reg", 1, 0, 2)
        BY <1>1, <1>3, <1>8, OnIs DEF CmplCode
    <2>2. Sets(2 + 1, 1, 2)
        BY <1>1, <2>1, MovlImmLine
    <2>3. CmplHolds(2 + 1)'
        BY <1>3, <1>8, <2>2 DEF CmplHolds, Sets, Writes
    <2> QED
        BY <1>6, <1>8, <2>1, <2>2, <2>3, NoRet
<1>9. CASE k = 3
    <2>1. At(3, "movl_imm_reg", 2, 0, -1)
        BY <1>1, <1>3, <1>9, OnIs DEF CmplCode
    <2>2. Sets(3 + 1, 2, -1)
        BY <1>1, <2>1, MovlImmLine
    <2>3. CmplHolds(3 + 1)'
        BY <1>3, <1>9, <2>2 DEF CmplHolds, Sets, Writes
    <2> QED
        BY <1>6, <1>9, <2>1, <2>2, <2>3, NoRet
<1>10. CASE k = 4
    <2>1. At(4, "movl_imm_reg", 3, 0, -2)
        BY <1>1, <1>3, <1>10, OnIs DEF CmplCode
    <2>2. Sets(4 + 1, 3, -2)
        BY <1>1, <2>1, MovlImmLine
    <2>3. CmplHolds(4 + 1)'
        BY <1>3, <1>10, <2>2 DEF CmplHolds, Sets, Writes
    <2> QED
        BY <1>6, <1>10, <2>1, <2>2, <2>3, NoRet
<1>11. CASE k = 21
    <2>1. At(21, "movl_imm_reg", 4, 0, -1)
        BY <1>1, <1>3, <1>11, OnIs DEF CmplCode
    <2>2. Sets(21 + 1, 4, -1)
        BY <1>1, <2>1, MovlImmLine
    <2>3. CmplHolds(21 + 1)'
        BY <1>3, <1>11, <2>2 DEF CmplHolds, Sets, Writes
    <2> QED
        BY <1>6, <1>11, <2>1, <2>2, <2>3, NoRet
<1>12. CASE k = 22
    <2>1. At(22, "shrl", 4, 0, 0)
        BY <1>1, <1>3, <1>12, OnIs DEF CmplCode
    <2>2. Sets(22 + 1, 4, INT_MAX)
        <3>1. registers[4] = -1
            BY <1>3, <1>12 DEF CmplHolds
        <3>2. Unsigned(-1) = WordValues - 1
            BY UnsignedOf, Machine
        <3>3. (WordValues - 1) \div 2 = INT_MAX
            BY Machine
        <3> QED
            BY <1>1, <2>1, <3>1, <3>2, <3>3, ShrlLine
    <2>3. CmplHolds(22 + 1)'
        BY <1>3, <1>12, <2>2 DEF CmplHolds, Sets, Writes
    <2> QED
        BY <1>6, <1>12, <2>1, <2>2, <2>3, NoRet
<1>13. CASE k = 25
    <2>1. At(25, "subl", 4, 0, -1)
        BY <1>1, <1>3, <1>13, OnIs DEF CmplCode
    <2>2. Sets(25 + 1, 4, INT_MIN)
        <3>1. registers[4] = INT_MAX
            BY <1>3, <1>13 DEF CmplHolds
        <3>2. Signed(INT_MAX - (-1)) = INT_MIN
            BY SignedDifference, Machine
        <3> QED
            BY <1>1, <2>1, <3>1, <3>2, SublLine
    <2>3. CmplHolds(25 + 1)'
        BY <1>3, <1>13, <2>2 DEF CmplHolds, Sets, Writes
    <2> QED
        BY <1>6, <1>13, <2>1, <2>2, <2>3, NoRet
<1>14. CASE k = 28
    <2>1. At(28, "ret", 0, 0, 0) /\ registers[6] = STACK_SIZE /\ FlagsShown(10)
        BY <1>1, <1>3, <1>14, OnIs DEF CmplCode, CmplHolds, Shown
    <2>2. status' = "done" /\ UNCHANGED <<build, printed>>
        BY <1>1, <2>1, EndLine
    <2>3. CmplInv'
        BY <2>1, <2>2 DEF CmplInv, FlagsShown
    <2>4. ESP = 6
        BY <1>1, EspType
    <2> QED
        BY <1>3, <2>1, <2>3, <2>4 DEF Returns
<1> QED
    BY <1>4, <1>5, <1>7, <1>8, <1>9, <1>10, <1>11, <1>12, <1>13, <1>14 DEF CmplLines, PrintLines

\* The flags of the ten comparisons are those of cmpl.expected, and of the build
\* that notices no overflow ...
LEMMA CmplFlags ==
    ASSUME NEW how \in {"wraps", "exact"}, NEW n \in 1 .. 10
    PROVE  /\ Flags(how, CmplFirst[n], CmplSecond[n]) = CmplResult(how)[n]
           /\ CmplFirst[n] \in INT_MIN .. INT_MAX /\ CmplSecond[n] \in INT_MIN .. INT_MAX
<1>0. /\ CF \in Nat /\ ZF \in Nat /\ SF \in Nat /\ OF \in Nat
      /\ INT_MAX \in Nat /\ INT_MAX > 2 /\ INT_MIN = -INT_MAX - 1 /\ WordValues = 2 * INT_MAX + 2
    BY CpuAssumption, Machine
<1> DEFINE a == CmplFirst[n]
           b == CmplSecond[n]
<1>1. a \in INT_MIN .. INT_MAX /\ b \in INT_MIN .. INT_MAX
    BY <1>0 DEF CmplFirst, CmplSecond
<1>2. /\ Unsigned(a) = IF a < 0 THEN a + WordValues ELSE a
      /\ Unsigned(b) = IF b < 0 THEN b + WordValues ELSE b
    BY <1>1, UnsignedOf
<1>3. Diff(how, a, b) = IF how = "exact" THEN b - a
                        ELSE IF b - a < INT_MIN THEN b - a + WordValues
                        ELSE IF b - a > INT_MAX THEN b - a - WordValues ELSE b - a
    BY <1>1, SignedDifference DEF Diff
<1> DEFINE c == Unsigned(a) > Unsigned(b)
           s == Diff(how, a, b) < 0
           o == Overflows(how, a, b)
<1>4. Flags(how, a, b) = (IF c THEN CF ELSE 0) + (IF a = b THEN ZF ELSE 0)
                         + (IF s THEN SF ELSE 0) + (IF o THEN OF ELSE 0)
    BY DEF Flags
<1>5. /\ c <=> n \in {4, 6, 7, 9}
      /\ a = b <=> n \in {1, 2}
    BY <1>0, <1>2 DEF CmplFirst, CmplSecond
<1>6. s <=> IF how = "wraps" THEN n \in {4, 5, 7, 9} ELSE n \in {4, 5, 7, 10}
    BY <1>0, <1>3 DEF CmplFirst, CmplSecond
<1>7. o <=> how = "wraps" /\ n \in {9, 10}
    BY <1>0, <1>3 DEF CmplFirst, CmplSecond, Overflows
<1>8. /\ CmplResult("wraps")[n] = (IF n \in {4, 6, 7, 9} THEN CF ELSE 0) + (IF n \in {1, 2} THEN ZF ELSE 0)
            + (IF n \in {4, 5, 7, 9} THEN SF ELSE 0) + (IF n \in {9, 10} THEN OF ELSE 0)
      /\ CmplResult("exact")[n] = (IF n \in {4, 6, 7, 9} THEN CF ELSE 0) + (IF n \in {1, 2} THEN ZF ELSE 0)
            + (IF n \in {4, 5, 7, 10} THEN SF ELSE 0)
    BY <1>0 DEF CmplResult, cmpl_expected
<1> HIDE DEF c, s, o
<1>9. Flags(how, a, b) = CmplResult(how)[n]
    BY <1>0, <1>4, <1>5, <1>6, <1>7, <1>8
<1> QED
    BY <1>1, <1>9

\* ... and what is printed of them is read back.
LEMMA CmplReads ==
    ASSUME TestsInv, FlagsShown(10)
    PROVE  Len(printed) = 10 /\ \A n \in 1 .. 10 : Unsigned(printed[n]) = CmplResult(build)[n]
<1>1. build \in {"wraps", "exact"}
    BY DEF TestsInv, FlagsInv, CpuInv
<1>2. ASSUME NEW n \in 1 .. 10
      PROVE  Unsigned(printed[n]) = CmplResult(build)[n]
    <2> DEFINE a == CmplFirst[n]
               b == CmplSecond[n]
               f == Flags(build, a, b)
    <2>1. a \in INT_MIN .. INT_MAX /\ b \in INT_MIN .. INT_MAX /\ f = CmplResult(build)[n]
        BY <1>1, CmplFlags
    <2>2. printed[n] = Signed(f)
        BY DEF FlagsShown
    <2> HIDE DEF a, b
    <2>3. f \in 0 .. WordValues - 1
        BY <1>1, <2>1, FlagsFit
    <2> HIDE DEF f
    <2>4. Unsigned(Signed(f)) = f
        BY <2>3, UnsignedSigned
    <2> QED
        BY <2>1, <2>2, <2>4
<1> QED
    BY <1>2 DEF FlagsShown

-----------------------------------------------------------------------------
(* unaligned1.s and unaligned2.s: a word that is read a byte off.          *)

\* A word is the same modulo the number of words.
LEMMA SignedShift ==
    ASSUME NEW n \in Int, NEW j \in Int
    PROVE  Signed(n + j * WordValues) = Signed(n)
<1> DEFINE w == WordValues
           x == n - INT_MIN
           q == x \div w
           r == x % w
<1>1. w \in Nat \ {0} /\ x \in Int /\ INT_MIN \in Int
    BY Width
<1> HIDE DEF w, x
<1>2. x = w * q + r /\ q \in Int /\ r \in 0 .. w - 1
    BY <1>1
<1> HIDE DEF q, r
<1> DEFINE p == q + j
           y == x + j * w
<1>3. p \in Int /\ y \in Int /\ y = w * p + r
    BY <1>1, <1>2
<1> HIDE DEF p, y
<1>4. y % w = r
    BY <1>1, <1>2, <1>3
<1>5. y % w = x % w
    BY <1>4 DEF r
<1>6. (n + j * WordValues) - INT_MIN = y
    BY <1>1 DEF y, x, w
<1> QED
    BY <1>5, <1>6 DEF Signed, x, w

\* An int and its word differ by a multiple of the word values.
LEMMA SignedOfUnsigned ==
    ASSUME NEW v \in INT_MIN .. INT_MAX
    PROVE  \E j \in Int : Unsigned(v) = v + j * WordValues
<1>1. WordValues \in Nat \ {0} /\ v \in -WordValues .. 2 * WordValues - 1
    BY Width
<1>2. Unsigned(v) = IF v < 0 THEN v + WordValues ELSE v
    <2>1. v % WordValues = IF v < 0 THEN v + WordValues ELSE IF v < WordValues THEN v ELSE v - WordValues
        BY <1>1, Remainder
    <2> QED
        BY <2>1, Width DEF Unsigned
<1>3. v + 1 * WordValues = v + WordValues /\ v + 0 * WordValues = v
    BY <1>1
<1> QED
    BY <1>2, <1>3

\* A word read one byte above where it was written, next to a byte of 0, has lost
\* its lowest byte ...
LEMMA ReadAbove ==
    ASSUME memory \in Bytes, memory[4] = 0, NEW v \in INT_MIN .. INT_MAX, NEW m, m = Store(0, v)
    PROVE  WordAt(m, 1) = Unsigned(v) \div BYTE
<1> DEFINE u == Unsigned(v)
           b == BYTE
           w == u \div b
<1>1. b \in Nat \ {0} /\ OnStack(0) /\ STACK_SIZE \in Nat /\ STACK_SIZE >= 64
      /\ WordValues = b * b * b * b
    BY Machine DEF OnStack
<1>2. u \in Nat /\ u < b * b * b * b
    BY <1>1, UnsignedIsWord
<1>3. /\ m[1] = (u \div b) % b /\ m[2] = (u \div (b * b)) % b
      /\ m[3] = (u \div (b * b * b)) % b /\ m[4] = 0
    <2>1. 0 + 1 = 1 /\ 0 + 2 = 2 /\ 0 + 3 = 3
        OBVIOUS
    <2>2. \A c \in Nat : c < STACK_SIZE /\ 0 + 4 <= c => m[c] = memory[c]
        BY <1>1, StoreBytes
    <2>3. m[4] = memory[4]
        BY <1>1, <2>2
    <2> QED
        BY <1>1, <2>1, <2>3, StoreBytes
<1> HIDE DEF u, b
<1>4. w \in Nat /\ w * b <= u /\ w < b * b * b
    <2> DEFINE c == b * b * b
    <2>1. c \in Nat /\ u < c * b
        BY <1>1, <1>2
    <2> HIDE DEF c
    <2>2. w \in Nat /\ w * b <= u
        BY <1>1, <1>2
    <2> HIDE DEF w
    <2>3. w < c
        BY <1>1, <1>2, <2>1, <2>2
    <2> QED
        BY <2>2, <2>3 DEF c
<1>5. u \div (b * b) = w \div b /\ u \div (b * b * b) = w \div (b * b)
    <2> DEFINE c == b * b
    <2>1. c \in Nat \ {0} /\ b * c = b * b * b
        BY <1>1
    <2> HIDE DEF c
    <2>2. u \div (b * c) = (u \div b) \div c /\ u \div (b * b) = (u \div b) \div b
        BY <1>1, <1>2, <2>1, DivDiv
    <2> QED
        BY <2>1, <2>2 DEF c
<1> HIDE DEF w
<1>6. w \div (b * b * b) = 0
    <2> DEFINE c == b * b * b
    <2>1. c \in Nat \ {0} /\ w < c
        BY <1>1, <1>4
    <2> HIDE DEF c
    <2>2. w \div c = 0
        BY <1>4, <2>1
    <2> QED
        BY <2>2 DEF c
<1>7. w < b * b * b * b
    <2> DEFINE c == b * b * b
    <2>1. c \in Nat /\ w < c /\ c * b = b * b * b * b
        BY <1>1, <1>4
    <2> HIDE DEF c
    <2>2. c <= c * b
        BY <1>1, <2>1
    <2>3. w < c * b
        BY <1>1, <1>4, <2>1, <2>2
    <2> QED
        BY <2>1, <2>3
<1>8. w = (w % b) + ((w \div b) % b) * b + ((w \div (b * b)) % b) * (b * b)
          + ((w \div (b * b * b)) % b) * (b * b * b)
    BY <1>1, <1>4, <1>7, BytesOf
<1>9. m[1] + m[2] * b + m[3] * (b * b) + m[4] * (b * b * b) = w
    <2>1. 0 % b = 0
        BY <1>1
    <2>2. m[1] = w % b /\ m[2] = (w \div b) % b /\ m[3] = (w \div (b * b)) % b
          /\ m[4] = (w \div (b * b * b)) % b
        BY <1>3, <1>5, <1>6, <2>1 DEF w
    <2> QED
        BY <1>8, <2>2, Zenon
<1>10. w \in INT_MIN .. INT_MAX
    <2>1. b >= 8 /\ u < WordValues
        BY <1>1, <1>2, Machine DEF b
    <2>2. 8 * w <= w * b
        BY <1>4, <2>1, <1>1
    <2> DEFINE x == w * b
    <2>3. x \in Int /\ x <= u /\ 8 * w <= x
        BY <1>1, <1>4, <2>2
    <2> HIDE DEF x
    <2> QED
        BY <1>2, <1>4, <2>1, <2>3, Width
<1>11. WordAt(m, 1) = Signed(m[1] + m[2] * b + m[3] * (b * b) + m[4] * (b * b * b))
    <2>1. 1 + 1 = 2 /\ 1 + 2 = 3 /\ 1 + 3 = 4
        OBVIOUS
    <2> QED
        BY <2>1 DEF WordAt, b
<1> QED
    BY <1>9, <1>10, <1>11, SignedSame DEF w, u, b

\* ... and one byte below, its highest.
LEMMA ReadBelow ==
    ASSUME memory \in Bytes, memory[0] = 0, NEW v \in INT_MIN .. INT_MAX, NEW m, m = Store(1, v)
    PROVE  WordAt(m, 0) = Signed(v * BYTE)
<1> DEFINE u == Unsigned(v)
           b == BYTE
<1>1. b \in Nat \ {0} /\ OnStack(1) /\ STACK_SIZE \in Nat /\ STACK_SIZE >= 64
      /\ WordValues = b * b * b * b
    BY Machine DEF OnStack
<1>2. u \in Nat /\ u < b * b * b * b
    BY <1>1, UnsignedIsWord
<1>3. /\ m[0] = 0 /\ m[1] = u % b /\ m[2] = (u \div b) % b /\ m[3] = (u \div (b * b)) % b
    <2>1. 1 + 1 = 2 /\ 1 + 2 = 3
        OBVIOUS
    <2>2. \A c \in Nat : c < STACK_SIZE /\ c < 1 => m[c] = memory[c]
        BY <1>1, StoreBytes
    <2>3. m[0] = memory[0]
        BY <1>1, <2>2
    <2> QED
        BY <1>1, <2>1, <2>3, StoreBytes
<1> HIDE DEF u
<1> DEFINE s0 == u % b
           s1 == (u \div b) % b
           s2 == (u \div (b * b)) % b
           s3 == (u \div (b * b * b)) % b
<1> HIDE DEF b
<1>4. u = s0 + s1 * b + s2 * (b * b) + s3 * (b * b * b)
    BY <1>1, <1>2, BytesOf
<1>5. s0 \in Int /\ s1 \in Int /\ s2 \in Int /\ s3 \in Int
    <2>1. \A c \in Nat \ {0} : u \div c \in Int
        BY <1>2
    <2>2. u \div b \in Int /\ u \div (b * b) \in Int /\ u \div (b * b * b) \in Int
        BY <1>1, <2>1
    <2> QED
        BY <1>1, <1>2, <2>2
<1>6. WordAt(m, 0) = Signed(0 + s0 * b + s1 * (b * b) + s2 * (b * b * b))
    <2>1. 0 + 1 = 1 /\ 0 + 2 = 2 /\ 0 + 3 = 3
        OBVIOUS
    <2> QED
        BY <1>3, <2>1, Zenon DEF WordAt, b
<1> HIDE DEF s0, s1, s2, s3
<1>7. PICK j \in Int : u = v + j * WordValues
    BY SignedOfUnsigned DEF u
<1>8. v \in Int
    BY Width
<1> DEFINE i == j * b - s3
<1>9. 0 + s0 * b + s1 * (b * b) + s2 * (b * b * b) = v * b + i * WordValues /\ i \in Int
    <2>1. b * (s0 + s1 * b + s2 * (b * b) + s3 * (b * b * b))
          = s0 * b + s1 * (b * b) + s2 * (b * b * b) + s3 * (b * b * b * b)
        BY <1>1, <1>5
    <2>2. b * u = v * b + (j * b) * (b * b * b * b)
        BY <1>1, <1>7, <1>8
    <2>3. (j * b - s3) * (b * b * b * b) = (j * b) * (b * b * b * b) - s3 * (b * b * b * b)
        BY <1>1, <1>5
    <2> DEFINE t == b * b * b * b
               p == s0 * b + s1 * (b * b) + s2 * (b * b * b)
               x == (j * b) * t
               y == s3 * t
               z == v * b
    <2>4. p \in Int /\ x \in Int /\ y \in Int /\ z \in Int
        BY <1>1, <1>5, <1>8
    <2>5. p + y = z + x
        BY <1>4, <2>1, <2>2
    <2>6. i * t = x - y
        BY <2>3
    <2>7. p = z + i * t
        <3> HIDE DEF p, x, y, z, i
        <3> QED
            BY <2>4, <2>5, <2>6
    <2>8. 0 + s0 * b + s1 * (b * b) + s2 * (b * b * b) = p
        BY <1>1, <1>5
    <2> QED
        BY <1>1, <1>5, <2>7, <2>8
<1> HIDE DEF i
<1>10. v * b \in Int
    BY <1>1, <1>8
<1>11. Signed(v * b + i * WordValues) = Signed(v * b)
    BY <1>9, <1>10, SignedShift
<1> QED
    BY <1>6, <1>9, <1>11 DEF b

\* What is read at address l after v was stored at the other of 0 and 1, over a
\* memory of zeros.
Shifted(l, v) == IF l = 1 THEN Unsigned(v) \div BYTE ELSE Signed(v * BYTE)
Beyond(l) == IF l = 1 THEN 4 ELSE 0

\* Either way it is shifted by a byte.
LEMMA ReadShifted ==
    ASSUME Short, NEW l \in {0, 1}, memory[Beyond(l)] = 0, NEW v \in Word, memory' = Store(1 - l, v)
    PROVE  WordAt(memory', l) = Shifted(l, v)
<1>1. memory \in Bytes /\ v \in INT_MIN .. INT_MAX
    BY DEF Short, CpuInv, TypeOK, Bytes, Word
<1>2. CASE l = 1
    BY <1>1, <1>2, ReadAbove DEF Shifted, Beyond
<1>3. CASE l = 0
    BY <1>1, <1>3, ReadBelow DEF Shifted, Beyond
<1> QED
    BY <1>2, <1>3

UnalignedAt(k, l) ==
    /\ On(k)
    /\ k <= 3 => registers[0] = 0 /\ memory[Beyond(l)] = 0
    /\ k = 1 => scanned = <<>>
    /\ k >= 2 => scanned = <<registers[1]>>
    /\ k <= 2 => printed = <<>>
    /\ k >= 3 => printed = <<registers[1]>>
    /\ k = 4 => registers[0] = 0 /\ WordAt(memory, l) = Shifted(l, registers[1])
    /\ k = 5 => registers[0] = Shifted(l, registers[1])

UnalignedInv(l) ==
    /\ status # "stray"
    /\ status = "running" => \E k \in 1 .. 5 : UnalignedAt(k, l)
    /\ status = "done" => printed[2] = Shifted(l, scanned[1])

UnalignedCode(l) ==
    /\ instructions[1] = Decoded("readr", 1, 0, 0)
    /\ instructions[2] = Decoded("printr", 1, 0, 0)
    /\ instructions[3] = Decoded("movl_reg_deref", 1, 0, 1 - l)
    /\ instructions[4] = Decoded("movl_deref_reg", 0, 0, l)
    /\ instructions[5] = Decoded("printr", 0, 0, 0)

\* Which of the two programs it is.
Unaligned(l) == program = IF l = 1 THEN "unaligned1" ELSE "unaligned2"

\* The two programs differ in the two addresses.
LEMMA UnalignedIs ==
    ASSUME TestsInv, NEW l \in {0, 1}, Unaligned(l)
    PROVE  UnalignedCode(l) /\ Len(instructions) = 5 /\ Short
<1>1. CASE l = 1
    BY <1>1, Unaligned1Is DEF Unaligned, Unaligned1Code, UnalignedCode
<1>2. CASE l = 0
    BY <1>2, Unaligned2Is DEF Unaligned, Unaligned2Code, UnalignedCode
<1> QED
    BY <1>1, <1>2

\* The run begins at line 1, in a memory of zeros ...
LEMMA UnalignedStart ==
    ASSUME Init, TestsInv, NEW l \in {0, 1}, Unaligned(l)
    PROVE  UnalignedInv(l)
<1>1. Len(instructions) = 5
    BY UnalignedIs
<1>2. On(1) /\ status = "running"
    BY <1>1, StartsOn
<1>3. registers[0] = 0 /\ memory[Beyond(l)] = 0 /\ scanned = <<>> /\ printed = <<>>
    <2>1. Beyond(l) \in 0 .. STACK_SIZE - 1
        BY Machine DEF Beyond
    <2> QED
        BY <2>1 DEF Init, ESP, NUM_REGS
<1>4. UnalignedAt(1, l)
    BY <1>2, <1>3 DEF UnalignedAt
<1> QED
    BY <1>2, <1>4 DEF UnalignedInv

\* ... and goes down the five lines.
LEMMA UnalignedStep ==
    ASSUME TestsInv, NEW l \in {0, 1}, UnalignedInv(l), Next, Unaligned(l)
    PROVE  UnalignedInv(l)' /\ Returns
<1>1. UnalignedCode(l) /\ Len(instructions) = 5 /\ Short
    BY UnalignedIs
<1>2. PICK k \in 1 .. 5 : UnalignedAt(k, l)
    BY NextDoes DEF UnalignedInv
<1>3. On(k) /\ STACK_SIZE \in Nat /\ STACK_SIZE >= 64 /\ WORD = 4
    BY <1>2, Machine DEF UnalignedAt
<1>4. ASSUME NEW j \in 2 .. 5, Goes(j) PROVE On(j)' /\ status' = "running"
    BY <1>1, <1>4, GoesOn DEF Goes
<1>5. CASE k = 1
    <2>1. At(1, "readr", 1, 0, 0)
        BY <1>1, <1>3, <1>5, OnIs DEF UnalignedCode
    <2>2. Goes(1 + 1) /\ UNCHANGED <<memory, printed>>
        BY <1>1, <2>1, ReadrLine
    <2>3. PICK v : Writes(1, v) /\ scanned' = Append(scanned, v)
        BY <1>1, <2>1, ReadrLine
    <2>4. registers'[1] = v /\ registers'[0] = registers[0]
        BY <2>3 DEF Writes
    <2>5. UnalignedAt(2, l)'
        BY <1>2, <1>4, <1>5, <2>2, <2>3, <2>4 DEF UnalignedAt
    <2> QED
        BY <1>4, <2>1, <2>2, <2>5, NoRet DEF UnalignedInv
<1>6. CASE k = 2
    <2>1. At(2, "printr", 1, 0, 0)
        BY <1>1, <1>3, <1>6, OnIs DEF UnalignedCode
    <2>2. Goes(2 + 1) /\ printed' = Append(printed, registers[1]) /\ UNCHANGED <<registers, memory, scanned>>
        BY <1>1, <2>1, PrintrLine
    <2>3. UnalignedAt(3, l)'
        BY <1>2, <1>4, <1>6, <2>2 DEF UnalignedAt
    <2> QED
        BY <1>4, <2>1, <2>2, <2>3, NoRet DEF UnalignedInv
<1>7. CASE k = 3
    <2>1. At(3, "movl_reg_deref", 1, 0, 1 - l)
        BY <1>1, <1>3, <1>7, OnIs DEF UnalignedCode
    <2>2. registers[0] = 0 /\ memory[Beyond(l)] = 0 /\ OnStack(0 + (1 - l)) /\ 0 + (1 - l) = 1 - l
        BY <1>2, <1>3, <1>7 DEF UnalignedAt, OnStack
    <2>3. Goes(3 + 1) /\ UNCHANGED <<registers, scanned, printed>> /\ memory' = Store(1 - l, registers[1])
        BY <1>1, <2>1, <2>2, StoreLine
    <2>4. WordAt(memory', l) = Shifted(l, registers[1])
        BY <1>1, <2>1, <2>2, <2>3, AtTypes, ReadShifted
    <2>5. UnalignedAt(4, l)'
        BY <1>2, <1>4, <1>7, <2>3, <2>4 DEF UnalignedAt
    <2> QED
        BY <1>4, <2>1, <2>3, <2>5, NoRet DEF UnalignedInv
<1>8. CASE k = 4
    <2>1. At(4, "movl_deref_reg", 0, 0, l)
        BY <1>1, <1>3, <1>8, OnIs DEF UnalignedCode
    <2>2. registers[0] = 0 /\ OnStack(0 + l) /\ 0 + l = l /\ WordAt(memory, l) = Shifted(l, registers[1])
        BY <1>2, <1>3, <1>8 DEF UnalignedAt, OnStack
    <2>3. Sets(4 + 1, 0, WordAt(memory, l))
        BY <1>1, <2>1, <2>2, LoadLine
    <2>4. registers'[0] = Shifted(l, registers[1]) /\ registers'[1] = registers[1]
        BY <2>2, <2>3 DEF Sets, Writes
    <2>5. UnalignedAt(5, l)'
        BY <1>2, <1>4, <1>8, <2>3, <2>4 DEF UnalignedAt, Sets
    <2> QED
        BY <1>4, <2>1, <2>3, <2>5, NoRet DEF UnalignedInv, Sets
<1>9. CASE k = 5
    <2>1. At(5, "printr", 0, 0, 0)
        BY <1>1, <1>3, <1>9, OnIs DEF UnalignedCode
    <2>2. Goes(5 + 1) /\ printed' = Append(printed, registers[0]) /\ UNCHANGED scanned
        BY <1>1, <2>1, PrintrLine
    <2>3. printed = <<registers[1]>> /\ scanned = <<registers[1]>> /\ registers[0] = Shifted(l, registers[1])
        BY <1>2, <1>9 DEF UnalignedAt
    <2>4. printed'[2] = registers[0] /\ scanned'[1] = registers[1]
        BY <2>2, <2>3
    <2>5. status' = "done"
        BY <1>1, <2>2 DEF Goes
    <2> QED
        BY <2>1, <2>3, <2>4, <2>5, NoRet DEF UnalignedInv
<1> QED
    BY <1>5, <1>6, <1>7, <1>8, <1>9

-----------------------------------------------------------------------------
(* The functions the programs compute, by their recursive equations.       *)

\* There is a function with the equation of Fact, up to any number: the product of
\* each argument is defined by the one before.
LEMMA FactExists ==
    ASSUME NEW w \in Nat
    PROVE  \E f : f = [n \in 2 .. w |-> IF n = 2 THEN 2 ELSE Signed(n * f[n-1])]
<1> DEFINE S == {m \in Nat : \E f : f = [n \in 2 .. m |-> IF n = 2 THEN 2 ELSE Signed(n * f[n-1])]}
<1>1. 0 \in S
    <2> DEFINE f == [n \in 2 .. 0 |-> 0]
    <2>1. f = [n \in 2 .. 0 |-> IF n = 2 THEN 2 ELSE Signed(n * f[n-1])]
        OBVIOUS
    <2> QED
        BY <2>1
<1>2. ASSUME NEW m \in Nat, m \in S PROVE m + 1 \in S
    <2>1. PICK f : f = [n \in 2 .. m |-> IF n = 2 THEN 2 ELSE Signed(n * f[n-1])]
        BY <1>2
    <2> DEFINE g == [n \in 2 .. m + 1 |->
                        IF n = m + 1 THEN IF n = 2 THEN 2 ELSE Signed(n * f[m]) ELSE f[n]]
    <2>2. \A n \in 2 .. m : f[n] = IF n = 2 THEN 2 ELSE Signed(n * f[n-1])
        BY <2>1
    <2>3. ASSUME NEW n \in 2 .. m + 1
          PROVE  g[n] = IF n = 2 THEN 2 ELSE Signed(n * g[n-1])
        <3>1. CASE n = m + 1 /\ n # 2
            <4>1. g[n] = Signed(n * f[m]) /\ g[n-1] = f[m] /\ n - 1 = m
                BY <3>1
            <4> QED
                BY <4>1, <3>1
        <3>2. CASE n = 2
            BY <3>2, <2>2
        <3>3. CASE n # 2 /\ n # m + 1
            <4>1. n \in 2 .. m /\ n - 1 \in 2 .. m
                BY <3>3
            <4>2. g[n] = f[n] /\ g[n-1] = f[n-1]
                BY <4>1
            <4>3. f[n] = Signed(n * f[n-1])
                BY <4>1, <3>3, <2>2
            <4> QED
                BY <4>2, <4>3, <3>3
        <3> QED
            BY <3>1, <3>2, <3>3
    <2>4. g = [n \in 2 .. m + 1 |-> g[n]]
        OBVIOUS
    <2> HIDE DEF g
    <2>5. g = [n \in 2 .. m + 1 |-> IF n = 2 THEN 2 ELSE Signed(n * g[n-1])]
        BY <2>3, <2>4
    <2> QED
        BY <2>5
<1>3. S \in SUBSET Nat
    OBVIOUS
<1> HIDE DEF S
<1>4. S = Nat
    BY <1>1, <1>2, <1>3, InductionOnNat
<1> QED
    BY <1>4 DEF S

\* Deepest is the number of calls the stack holds, eight bytes each.
LEMMA DeepestIs == Deepest \in Nat /\ 8 * Deepest <= STACK_SIZE /\ 8 * Deepest + 8 > STACK_SIZE
<1>1. Deepest = (STACK_SIZE - 8) \div 8 + 1
    BY Machine DEF Deepest
<1>2. STACK_SIZE \in Nat /\ STACK_SIZE >= 64
    BY Machine
<1> HIDE DEF Deepest
<1> QED
    BY <1>1, <1>2

\* factorial.c: the factorial, in ints that wrap around.
LEMMA FactIs ==
    ASSUME NEW n \in 2 .. Deepest
    PROVE  Fact[n] = IF n = 2 THEN 2 ELSE Signed(n * Fact[n-1])
<1> DEFINE w == Deepest
           G(f) == [i \in 2 .. w |-> IF i = 2 THEN 2 ELSE Signed(i * f[i-1])]
           s == CHOOSE f : f = G(f)
<1>1. w \in Nat
    BY DeepestIs
<1> HIDE DEF w
<1>2. \E f : f = G(f)
    BY <1>1, FactExists
<1>3. s = G(s)
    <2> HIDE DEF G
    <2> QED
        BY <1>2, Zenon
<1>4. Fact = s
    BY DEF Fact, w
<1> HIDE DEF s
<1>5. \A i \in 2 .. w : s[i] = IF i = 2 THEN 2 ELSE Signed(i * s[i-1])
    <2>1. \A i \in 2 .. w : G(s)[i] = IF i = 2 THEN 2 ELSE Signed(i * s[i-1])
        OBVIOUS
    <2> HIDE DEF G
    <2> QED
        BY <2>1, <1>3
<1>6. n \in 2 .. w
    BY DEF w
<1> QED
    BY <1>4, <1>5, <1>6

\* There is a function with the equation of Log2.
LEMMA Log2Exists ==
    ASSUME NEW w \in Nat
    PROVE  \E f : f = [n \in 0 .. w |-> IF n <= 2 THEN 1 ELSE 1 + f[n \div 2]]
<1> DEFINE S == {m \in Nat : \E f : f = [n \in 0 .. m |-> IF n <= 2 THEN 1 ELSE 1 + f[n \div 2]]}
<1>1. 0 \in S
    <2> DEFINE f == [n \in 0 .. 0 |-> 1]
    <2>1. f = [n \in 0 .. 0 |-> IF n <= 2 THEN 1 ELSE 1 + f[n \div 2]]
        OBVIOUS
    <2> QED
        BY <2>1
<1>2. ASSUME NEW m \in Nat, m \in S PROVE m + 1 \in S
    <2>1. PICK f : f = [n \in 0 .. m |-> IF n <= 2 THEN 1 ELSE 1 + f[n \div 2]]
        BY <1>2
    <2> DEFINE g == [n \in 0 .. m + 1 |->
                        IF n = m + 1 THEN IF n <= 2 THEN 1 ELSE 1 + f[n \div 2] ELSE f[n]]
    <2>2. \A n \in 0 .. m : f[n] = IF n <= 2 THEN 1 ELSE 1 + f[n \div 2]
        BY <2>1
    <2>3. ASSUME NEW n \in 0 .. m + 1
          PROVE  g[n] = IF n <= 2 THEN 1 ELSE 1 + g[n \div 2]
        <3>1. n <= 2 \/ n \div 2 \in 0 .. n - 1
            OBVIOUS
        <3>2. CASE n = m + 1
            <4>1. n <= 2 \/ g[n \div 2] = f[n \div 2]
                BY <3>1, <3>2
            <4> QED
                BY <4>1, <3>2
        <3>3. CASE n # m + 1
            <4>1. n \in 0 .. m /\ (n <= 2 \/ n \div 2 \in 0 .. m)
                BY <3>1, <3>3
            <4>2. g[n] = f[n] /\ (n <= 2 \/ g[n \div 2] = f[n \div 2])
                BY <3>1, <4>1
            <4> QED
                BY <4>1, <4>2, <2>2
        <3> QED
            BY <3>2, <3>3
    <2>4. g = [n \in 0 .. m + 1 |-> g[n]]
        OBVIOUS
    <2> HIDE DEF g
    <2>5. g = [n \in 0 .. m + 1 |-> IF n <= 2 THEN 1 ELSE 1 + g[n \div 2]]
        BY <2>3, <2>4
    <2> QED
        BY <2>5
<1>3. S \in SUBSET Nat
    OBVIOUS
<1> HIDE DEF S
<1>4. S = Nat
    BY <1>1, <1>2, <1>3, InductionOnNat
<1> QED
    BY <1>4 DEF S

\* log2.c: the logarithm counts the halvings.
LEMMA Log2Equation ==
    ASSUME NEW n \in 0 .. WordValues - 1
    PROVE  Log2[n] = IF n <= 2 THEN 1 ELSE 1 + Log2[n \div 2]
<1> DEFINE w == WordValues - 1
           G(f) == [i \in 0 .. w |-> IF i <= 2 THEN 1 ELSE 1 + f[i \div 2]]
           s == CHOOSE f : f = G(f)
<1>1. w \in Nat
    BY Machine
<1>2. n \in 0 .. w
    OBVIOUS
<1>3. Log2 = s
    BY DEF Log2
<1> HIDE DEF w
<1>4. \E f : f = G(f)
    BY <1>1, Log2Exists
<1>5. s = G(s)
    <2> HIDE DEF G
    <2> QED
        BY <1>4, Zenon
<1> HIDE DEF s
<1>6. \A i \in 0 .. w : s[i] = IF i <= 2 THEN 1 ELSE 1 + s[i \div 2]
    <2>1. \A i \in 0 .. w : G(s)[i] = IF i <= 2 THEN 1 ELSE 1 + s[i \div 2]
        OBVIOUS
    <2> HIDE DEF G
    <2> QED
        BY <2>1, <1>5
<1> QED
    BY <1>2, <1>3, <1>6

\* The stack holds the twelve bytes of each of its calls.
LEMMA Log2Positive ==
    ASSUME NEW n \in 0 .. WordValues - 1
    PROVE  Log2[n] \in Nat \ {0} /\ 12 * Log2[n] <= STACK_SIZE
<1> DEFINE w == WordValues - 1
           S == {m \in Nat : \A i \in 0 .. m : i <= w => Log2[i] \in Nat \ {0}}
<1>0. w \in Nat
    BY Machine
<1>1. \A i \in 0 .. w : Log2[i] = IF i <= 2 THEN 1 ELSE 1 + Log2[i \div 2]
    BY Log2Equation
<1>2. n \in 0 .. w
    OBVIOUS
<1>3. 12 * Log2[n] <= STACK_SIZE
    BY TestsAssumption
<1> HIDE DEF w
<1>4. 0 \in S
    BY <1>0, <1>1
<1>5. ASSUME NEW m \in Nat, m \in S PROVE m + 1 \in S
    <2> SUFFICES ASSUME NEW i \in 0 .. m + 1, i <= w PROVE Log2[i] \in Nat \ {0}
        OBVIOUS
    <2>1. CASE i <= m
        BY <1>5, <2>1
    <2>2. CASE ~(i <= m)
        <3>1. i \in 0 .. w
            OBVIOUS
        <3>2. CASE i <= 2
            BY <1>1, <3>1, <3>2
        <3>3. CASE ~(i <= 2)
            <4> DEFINE h == i \div 2
            <4>1. h \in 0 .. m /\ h <= w
                BY <3>1, <3>3, <1>0
            <4>2. Log2[i] = 1 + Log2[h]
                BY <1>1, <3>1, <3>3
            <4> HIDE DEF h
            <4>3. Log2[h] \in Nat \ {0}
                BY <1>5, <4>1
            <4> QED
                BY <4>2, <4>3
        <3> QED
            BY <3>2, <3>3
    <2> QED
        BY <2>1, <2>2
<1>6. S \in SUBSET Nat
    OBVIOUS
<1>7. n \in Nat
    BY <1>0, <1>2
<1> HIDE DEF S
<1>8. n \in S
    BY <1>4, <1>5, <1>6, <1>7, InductionOnNat
<1>9. Log2[n] \in Nat \ {0}
    BY <1>0, <1>2, <1>7, <1>8 DEF S
<1> QED
    BY <1>3, <1>9

-----------------------------------------------------------------------------
(* Calls under way.                                                        *)

\* The first d of the frames f.
Prefix(f, d) == [i \in 1 .. d |-> f[i]]

\* A call appends to the calls under way, and a ret takes the last one back.
LEMMA PrefixIs ==
    ASSUME NEW f, NEW d \in Nat
    PROVE  /\ Prefix(f, 0) = <<>>
           /\ Append(Prefix(f, d), f[d + 1]) = Prefix(f, d + 1)
           /\ Prefix(f, d + 1) # <<>> /\ Len(Prefix(f, d + 1)) = d + 1
           /\ Prefix(f, d + 1)[d + 1] = f[d + 1]
           /\ SubSeq(Prefix(f, d + 1), 1, (d + 1) - 1) = Prefix(f, d)
<1> DEFINE T == {f[i] : i \in Nat}
           e == d + 1
           p == Prefix(f, d)
           q == Prefix(f, e)
<1>1. p \in Seq(T) /\ q \in Seq(T) /\ Len(p) = d /\ Len(q) = e /\ DOMAIN p = 1 .. d /\ DOMAIN q = 1 .. e
      /\ e \in Nat /\ e - 1 = d
    <2>1. \A j \in Nat : Prefix(f, j) \in [1 .. j -> T]
        BY DEF Prefix
    <2>2. e \in Nat /\ e - 1 = d
        OBVIOUS
    <2> HIDE DEF T, e
    <2>3. p \in [1 .. d -> T] /\ q \in [1 .. e -> T]
        BY <2>1, <2>2
    <2> HIDE DEF p, q
    <2> QED
        BY <2>2, <2>3
<1>2. \A i \in 1 .. d : p[i] = f[i]
    BY DEF Prefix
<1>3. \A i \in 1 .. e : q[i] = f[i]
    BY DEF Prefix
<1>4. Prefix(f, 0) = <<>>
    BY DEF Prefix
<1>5. f[e] \in T
    OBVIOUS
<1> HIDE DEF T, p, q
<1>6. Append(p, f[e]) = q
    <2> DEFINE s == Append(p, f[e])
    <2>1. s \in Seq(T) /\ Len(s) = e /\ DOMAIN s = 1 .. e
        BY <1>1, <1>5
    <2>2. \A i \in 1 .. e : s[i] = q[i]
        BY <1>1, <1>2, <1>3
    <2> HIDE DEF s
    <2>3. s = [i \in 1 .. e |-> s[i]] /\ q = [i \in 1 .. e |-> q[i]]
        BY <1>1, <2>1
    <2>4. s = q
        BY <2>2, <2>3
    <2> QED
        BY <2>4 DEF s
<1>7. SubSeq(q, 1, e - 1) = p
    <2> DEFINE s == SubSeq(q, 1, d)
    <2>1. s = [i \in 1 .. d |-> q[i]]
        BY <1>1
    <2>2. p = [i \in 1 .. d |-> p[i]]
        BY <1>1
    <2>3. \A i \in 1 .. d : q[i] = p[i]
        BY <1>1, <1>2, <1>3
    <2>4. s = p
        BY <2>1, <2>2, <2>3
    <2> QED
        BY <1>1, <2>4
<1>8. q # <<>> /\ q[e] = f[e]
    BY <1>1, <1>3
<1> QED
    BY <1>1, <1>4, <1>6, <1>7, <1>8 DEF p, q

\* What a call keeps: ebx, the stack pointer, ebp and r12d.
Saved(b, s, p, q) ==
    [r \in {1, 6, 7, 12} |-> IF r = 1 THEN b ELSE IF r = 6 THEN s ELSE IF r = 7 THEN p ELSE q]

\* The registers a function of the ABI gives back.
LEMMA KeptIs == ASSUME NEW regs PROVE Kept(regs) = Saved(regs[1], regs[6], regs[7], regs[12])
BY DEF Kept, Saved, ESP

\* Wrapping around once is enough.
LEMMA SignedIs == ASSUME NEW n \in Int PROVE \E j \in Int : Signed(n) = n + j * WordValues
<1> DEFINE w == WordValues
           x == n - INT_MIN
           q == x \div w
<1>1. w \in Nat \ {0} /\ x \in Int /\ INT_MIN \in Int
    BY Width
<1> HIDE DEF w, x
<1>2. x = w * q + (x % w) /\ q \in Int /\ x % w \in Int
    BY <1>1
<1> HIDE DEF q
<1>3. w * q = q * w /\ w * q \in Int /\ (-q) * w = -(w * q)
    BY <1>1, <1>2
<1>4. (x % w) = x + (-q) * w
    BY <1>1, <1>2, <1>3
<1>5. Signed(n) = (x % w) + INT_MIN
    BY DEF Signed, x, w
<1>6. n = x + INT_MIN
    BY <1>1 DEF x
<1> DEFINE y == (-q) * w
<1>7. y \in Int
    BY <1>3
<1>8. Signed(n) = n + y
    <2>1. x % w = x + y
        BY <1>4
    <2> HIDE DEF y
    <2> QED
        BY <1>1, <1>2, <1>5, <1>6, <1>7, <2>1
<1> QED
    BY <1>2, <1>8 DEF w

\* Counting down, the argument wraps around with the ints.
LEMMA SignedMinusOne == ASSUME NEW n \in Int PROVE Signed(Signed(n) - 1) = Signed(n - 1)
<1>1. PICK j \in Int : Signed(n) = n + j * WordValues
    BY SignedIs
<1>2. Signed(n) - 1 = (n - 1) + j * WordValues
    BY <1>1, Width
<1>3. n - 1 \in Int
    OBVIOUS
<1> QED
    BY <1>2, <1>3, SignedShift

-----------------------------------------------------------------------------
(* The main lines of factorial.s and log2.s, which are the same.           *)

MainCode ==
    /\ instructions[1] = Decoded("subl", 6, 0, 8)
    /\ instructions[2] = Decoded("readr", 5, 0, 0)
    /\ instructions[3] = Decoded("call", 0, 0, 12)
    /\ instructions[4] = Decoded("printr", 0, 0, 0)
    /\ instructions[5] = Decoded("addl_imm_reg", 6, 0, 8)
    /\ instructions[6] = Decoded("ret", 0, 0, 0)
    /\ Len(instructions) = 18 /\ Short

\* What is to be printed for n.
Result(n) == IF program = "factorial" THEN Fact[n] ELSE Log2[Unsigned(n)]

\* The registers that calls keep, with the stack pointer at s.
Keeps0(b, s) == registers[1] = b /\ registers[6] = s /\ registers[7] = 0 /\ registers[12] = 0

\* Before and after the call.
MainAt(k) ==
    /\ On(k) /\ calls = <<>>
    /\ Keeps0(0, IF k \in {1, 6} THEN STACK_SIZE ELSE STACK_SIZE - 8)
    /\ k <= 2 => scanned = <<>>
    /\ k >= 3 => scanned = <<scanned[1]>> /\ scanned[1] \in Word
    /\ k <= 4 => printed = <<>>
    /\ k = 3 => registers[5] = scanned[1]
    /\ k = 4 => registers[0] = Result(scanned[1])
    /\ k \in {5, 6} => printed = <<Result(scanned[1])>>

\* The call of main, under way with n.
MainFrame == [pc |-> 12, kept |-> Saved(0, STACK_SIZE - 8, 0, 0)]
Called(n) ==
    /\ On(7) /\ n \in Word /\ scanned = <<n>> /\ printed = <<>>
    /\ calls = Append(<<>>, MainFrame)
    /\ Keeps0(0, STACK_SIZE - 12)
    /\ registers[5] = n
    /\ WordAt(memory, STACK_SIZE - 12) = 12

\* The run begins at line 1 ...
LEMMA MainStart ==
    ASSUME Init, TestsInv, Len(instructions) = 18
    PROVE  MainAt(1)
<1>1. On(1)
    BY StartsOn
<1>2. Keeps0(0, STACK_SIZE) /\ calls = <<>> /\ scanned = <<>> /\ printed = <<>>
    BY DEF Init, ESP, NUM_REGS, Keeps0
<1> QED
    BY <1>1, <1>2 DEF MainAt

\* ... goes down to the call, and on from it, printing the result, to the end.
LEMMA MainStep ==
    ASSUME TestsInv, MainCode, NEW k \in 1 .. 6, MainAt(k), Next
    PROVE  /\ Returns /\ status' # "stray"
           /\ k \in {1, 2, 4, 5} => MainAt(k + 1)'
           /\ k = 3 => \E n : Called(n)'
           /\ k = 6 => status' = "done" /\ printed' = <<Result(scanned[1])'>>
<1>0. Short /\ On(k) /\ STACK_SIZE \in Nat /\ STACK_SIZE >= 64
    BY Machine DEF MainCode, MainAt
<1>1. ASSUME NEW j \in 2 .. 7, Goes(j) PROVE On(j)' /\ status' # "stray" /\ UNCHANGED program
    BY <1>0, <1>1, GoesOn DEF Goes, MainCode
<1>2. CASE k = 1
    <2>1. At(1, "subl", 6, 0, 8)
        BY <1>0, <1>2, OnIs DEF MainCode
    <2>2. registers[6] = STACK_SIZE
        BY <1>2 DEF MainAt, Keeps0
    <2>3. Sets(1 + 1, 6, Signed(STACK_SIZE - 8))
        BY <1>0, <2>1, <2>2, SublLine
    <2>4. Signed(STACK_SIZE - 8) = STACK_SIZE - 8
        BY <1>0, StackPointer
    <2>5. Keeps0(0, STACK_SIZE - 8)'
        BY <1>2, <2>3, <2>4 DEF MainAt, Keeps0, Sets, Writes
    <2>6. MainAt(2)'
        BY <1>1, <1>2, <2>3, <2>5 DEF MainAt, Sets
    <2> QED
        BY <1>1, <1>2, <2>1, <2>3, <2>6, NoRet DEF Sets
<1>3. CASE k = 2
    <2>1. At(2, "readr", 5, 0, 0)
        BY <1>0, <1>3, OnIs DEF MainCode
    <2>2. Goes(2 + 1) /\ UNCHANGED <<memory, printed, calls>>
        BY <1>0, <2>1, ReadrLine
    <2>3. PICK v : v \in Word /\ Writes(5, v) /\ scanned' = Append(scanned, v)
        BY <1>0, <2>1, ReadrLine
    <2>4. Keeps0(0, STACK_SIZE - 8)' /\ registers'[5] = v
        BY <1>3, <2>3 DEF MainAt, Keeps0, Writes
    <2>5. scanned' = <<v>>
        BY <1>3, <2>3 DEF MainAt
    <2>6. MainAt(3)'
        BY <1>1, <1>3, <2>2, <2>3, <2>4, <2>5 DEF MainAt
    <2> QED
        BY <1>1, <1>3, <2>1, <2>2, <2>6, NoRet
<1>4. CASE k = 3
    <2>1. At(3, "call", 0, 0, 12)
        BY <1>0, <1>4, OnIs DEF MainCode
    <2>2. registers[6] = STACK_SIZE - 8 /\ Keeps0(0, STACK_SIZE - 8) /\ calls = <<>>
        BY <1>4 DEF MainAt, Keeps0
    <2>3. /\ Goes(7) /\ Writes(6, STACK_SIZE - 8 - 4) /\ Stores(STACK_SIZE - 8 - 4, 12)
          /\ calls' = Append(calls, [pc |-> 12, kept |-> Kept(registers)])
          /\ UNCHANGED <<scanned, printed, compared>>
        <3>1. CallsFrom(3, 7, 12)
              /\ registers[6] >= 0 /\ registers[6] <= STACK_SIZE /\ registers[6] >= 4
            BY <1>0, <2>2, <2>1 DEF CallsFrom, MainCode
        <3> QED
            BY <1>0, <2>2, <3>1, CallLine
    <2>4. Kept(registers) = Saved(0, STACK_SIZE - 8, 0, 0)
        BY <2>2, KeptIs DEF Keeps0
    <2>5. STACK_SIZE - 8 - 4 = STACK_SIZE - 12
        BY <1>0
    <2>6. calls' = Append(<<>>, MainFrame)
        BY <2>2, <2>3, <2>4, <2>5 DEF MainFrame
    <2>7. Keeps0(0, STACK_SIZE - 12)' /\ registers'[5] = registers[5]
        BY <2>2, <2>3, <2>5 DEF Keeps0, Writes
    <2>8. WordAt(memory', STACK_SIZE - 12) = 12
        BY <2>3, <2>5 DEF Stores
    <2>9. PICK n : n = scanned[1]
        OBVIOUS
    <2>10. scanned' = <<n>> /\ n \in Word /\ printed' = <<>> /\ registers'[5] = n
        BY <1>4, <2>3, <2>7, <2>9 DEF MainAt
    <2>11. On(7)'
        BY <1>1, <2>3
    <2>12. Called(n)'
        BY <2>6, <2>7, <2>8, <2>10, <2>11 DEF Called
    <2> QED
        BY <1>1, <1>4, <2>1, <2>3, <2>12, NoRet
<1>5. CASE k = 4
    <2>1. At(4, "printr", 0, 0, 0)
        BY <1>0, <1>5, OnIs DEF MainCode
    <2>2. Goes(4 + 1) /\ printed' = Append(printed, registers[0])
          /\ UNCHANGED <<registers, memory, scanned, compared, calls>>
        BY <1>0, <2>1, PrintrLine
    <2>3. On(5)' /\ UNCHANGED program
        BY <1>1, <2>2
    <2>4. printed' = <<Result(scanned[1])>>
        BY <1>5, <2>2 DEF MainAt
    <2>5. Keeps0(0, STACK_SIZE - 8)'
        BY <1>5, <2>2 DEF MainAt, Keeps0
    <2>6. MainAt(5)'
        BY <1>5, <2>2, <2>3, <2>4, <2>5 DEF MainAt, Result
    <2> QED
        BY <1>1, <1>5, <2>1, <2>2, <2>6, NoRet
<1>6. CASE k = 5
    <2>1. At(5, "addl_imm_reg", 6, 0, 8)
        BY <1>0, <1>6, OnIs DEF MainCode
    <2>2. registers[6] = STACK_SIZE - 8
        BY <1>6 DEF MainAt, Keeps0
    <2>3. Sets(5 + 1, 6, Signed(STACK_SIZE - 8 + 8))
        BY <1>0, <2>1, <2>2, AddlImmLine
    <2>4. Signed(STACK_SIZE - 8 + 8) = STACK_SIZE
        BY <1>0, StackPointer
    <2>5. Keeps0(0, STACK_SIZE)'
        BY <1>6, <2>3, <2>4 DEF MainAt, Keeps0, Sets, Writes
    <2>6. On(6)' /\ UNCHANGED <<program, scanned, printed, calls>>
        BY <1>1, <2>3 DEF Sets
    <2>7. MainAt(6)'
        BY <1>6, <2>5, <2>6 DEF MainAt, Result
    <2> QED
        BY <1>1, <1>6, <2>1, <2>3, <2>7, NoRet DEF Sets
<1>7. CASE k = 6
    <2>1. At(6, "ret", 0, 0, 0)
        BY <1>0, <1>7, OnIs DEF MainCode
    <2>2. registers[6] = STACK_SIZE /\ calls = <<>> /\ ESP = 6
        BY <1>7 DEF MainAt, Keeps0, ESP
    <2>3. /\ status' = "done" /\ UNCHANGED <<program, build, instructions>>
          /\ UNCHANGED <<registers, memory, scanned, printed, compared, calls>>
        BY <1>0, <2>1, <2>2, EndLine
    <2>4. printed' = <<Result(scanned[1])'>>
        BY <1>7, <2>3 DEF MainAt, Result
    <2> QED
        BY <1>7, <2>2, <2>3, <2>4 DEF Returns
<1> QED
    BY <1>2, <1>3, <1>4, <1>5, <1>6, <1>7

-----------------------------------------------------------------------------
(* factorial.s.                                                            *)

\* The argument of call i, and what the frame of call i keeps for its caller.
Arg(n, i) == Signed(n - i + 1)
CallersEbx(n, i) == IF i = 1 THEN 0 ELSE Arg(n, i - 1)
ReturnsTo(i) == IF i = 1 THEN 12 ELSE 52
FactFrames(n) ==
    [i \in Nat |-> [pc |-> ReturnsTo(i), kept |-> Saved(CallersEbx(n, i), STACK_SIZE - 8 * i, 0, 0)]]

\* The return addresses of d calls and the ebx that e of them have pushed.
FactWords(m, n, d, e) ==
    /\ \A i \in Nat : 1 <= i /\ i <= d => WordAt(m, STACK_SIZE - 4 - 8 * i) = ReturnsTo(i)
    /\ \A i \in Nat : 1 <= i /\ i <= e => WordAt(m, STACK_SIZE - 8 - 8 * i) = CallersEbx(n, i)

\* d calls are under way, the first with n.
FactCalls(n, d) ==
    /\ n \in Word /\ scanned = <<n>> /\ printed = <<>>
    /\ d \in Nat \ {0} /\ calls = Prefix(FactFrames(n), d)

\* On the way down the argument is above 1, on the way up it has been 2.
Descends(n, d) == n \in 2 .. Deepest => d <= n - 1
Ascends(n, d) == n \in 2 .. Deepest /\ d <= n - 1

\* At the first line of a call, before ebx is pushed.
FactEnter(n, d) ==
    /\ On(7) /\ FactCalls(n, d) /\ Keeps0(CallersEbx(n, d), STACK_SIZE - 4 - 8 * d)
    /\ 8 * d + 4 <= STACK_SIZE /\ FactWords(memory, n, d, d - 1)
    /\ registers[5] = Arg(n, d) /\ Descends(n, d)

\* At the last, after it is popped.
FactLeave(n, d) ==
    /\ On(18) /\ FactCalls(n, d) /\ Keeps0(CallersEbx(n, d), STACK_SIZE - 4 - 8 * d)
    /\ 8 * d + 8 <= STACK_SIZE /\ FactWords(memory, n, d, d)
    /\ registers[0] = Fact[n - d + 1] /\ Ascends(n, d)

\* At the lines between, with b in ebx.
FactFrame(n, d, b) ==
    /\ FactCalls(n, d) /\ Keeps0(b, STACK_SIZE - 8 - 8 * d)
    /\ 8 * d + 8 <= STACK_SIZE /\ FactWords(memory, n, d, d)

FactDown(k, n, d) ==
    /\ On(k) /\ FactFrame(n, d, IF k = 8 THEN CallersEbx(n, d) ELSE Arg(n, d)) /\ Descends(n, d)
    /\ registers[5] = Arg(n, IF k = 13 THEN d + 1 ELSE d)
    /\ k = 10 => registers[8] = 2
    /\ k = 11 => compared = <<2, Arg(n, d)>>
    /\ k \in {12, 13} => Arg(n, d) # 2

FactUp(k, n, d) ==
    /\ On(k) /\ FactFrame(n, d, Arg(n, d)) /\ Ascends(n, d)
    /\ k = 14 => d # n - 1 /\ registers[0] = Fact[n - d]
    /\ k = 16 => d = n - 1
    /\ k \in {15, 17} => registers[0] = Fact[n - d + 1]

FactorialInv ==
    /\ status = "running" =>
          \/ \E k \in 1 .. 6 : MainAt(k)
          \/ \E n, d : \/ FactEnter(n, d) \/ FactLeave(n, d)
                       \/ \E k \in 8 .. 13 : FactDown(k, n, d)
                       \/ \E k \in 14 .. 17 : FactUp(k, n, d)
    /\ status = "stray" => scanned[1] \notin 2 .. Deepest
    /\ status = "done" => printed = <<Fact[scanned[1]]>>

\* A call adds its return address to the words on the stack ...
LEMMA WordsOfCall ==
    ASSUME NEW n, NEW d \in Nat, FactWords(memory, n, d, d), 8 * d + 12 <= STACK_SIZE,
           Stores(STACK_SIZE - 12 - 8 * d, ReturnsTo(d + 1))
    PROVE  FactWords(memory', n, d + 1, d)
<1> DEFINE e == d + 1
           a == STACK_SIZE - 12 - 8 * d
<1>1. STACK_SIZE \in Nat
    BY Machine
<1>2. ASSUME NEW b \in Nat, b + 4 <= STACK_SIZE, a + 4 <= b
      PROVE  WordAt(memory', b) = WordAt(memory, b)
    BY <1>2 DEF Stores
<1>3. a = STACK_SIZE - 4 - 8 * e /\ WordAt(memory', a) = ReturnsTo(e)
    BY <1>1 DEF Stores
<1>4. ASSUME NEW i \in Nat, 1 <= i, i <= d + 1
      PROVE  WordAt(memory', STACK_SIZE - 4 - 8 * i) = ReturnsTo(i)
    <2>1. CASE i = e
        BY <1>3, <2>1
    <2>2. CASE i # e
        <3> DEFINE b == STACK_SIZE - 4 - 8 * i
        <3>1. b \in Nat /\ b + 4 <= STACK_SIZE /\ a + 4 <= b /\ i <= d
            BY <1>1, <1>4, <2>2
        <3>2. WordAt(memory', b) = WordAt(memory, b)
            BY <1>2, <3>1
        <3> QED
            BY <1>4, <3>1, <3>2 DEF FactWords
    <2> QED
        BY <2>1, <2>2
<1>5. ASSUME NEW i \in Nat, 1 <= i, i <= d
      PROVE  WordAt(memory', STACK_SIZE - 8 - 8 * i) = CallersEbx(n, i)
    <2> DEFINE b == STACK_SIZE - 8 - 8 * i
    <2>1. b \in Nat /\ b + 4 <= STACK_SIZE /\ a + 4 <= b
        BY <1>1, <1>5
    <2>2. WordAt(memory', b) = WordAt(memory, b)
        BY <1>2, <2>1
    <2> QED
        BY <1>5, <2>2 DEF FactWords
<1> QED
    BY <1>4, <1>5 DEF FactWords

\* ... and pushl adds the ebx of the caller.
LEMMA WordsOfPush ==
    ASSUME NEW n, NEW d \in Nat \ {0}, FactWords(memory, n, d, d - 1), 8 * d + 8 <= STACK_SIZE,
           Stores(STACK_SIZE - 8 - 8 * d, CallersEbx(n, d))
    PROVE  FactWords(memory', n, d, d)
<1> DEFINE a == STACK_SIZE - 8 - 8 * d
<1>1. STACK_SIZE \in Nat
    BY Machine
<1>2. ASSUME NEW b \in Nat, b + 4 <= STACK_SIZE, a + 4 <= b
      PROVE  WordAt(memory', b) = WordAt(memory, b)
    BY <1>2 DEF Stores
<1>3. WordAt(memory', a) = CallersEbx(n, d)
    BY DEF Stores
<1>4. ASSUME NEW i \in Nat, 1 <= i, i <= d
      PROVE  WordAt(memory', STACK_SIZE - 4 - 8 * i) = ReturnsTo(i)
    <2> DEFINE b == STACK_SIZE - 4 - 8 * i
    <2>1. b \in Nat /\ b + 4 <= STACK_SIZE /\ a + 4 <= b
        BY <1>1, <1>4
    <2>2. WordAt(memory', b) = WordAt(memory, b)
        BY <1>2, <2>1
    <2> QED
        BY <1>4, <2>2 DEF FactWords
<1>5. ASSUME NEW i \in Nat, 1 <= i, i <= d
      PROVE  WordAt(memory', STACK_SIZE - 8 - 8 * i) = CallersEbx(n, i)
    <2>1. CASE i = d
        BY <1>3, <2>1
    <2>2. CASE i # d
        <3> DEFINE b == STACK_SIZE - 8 - 8 * i
        <3>1. b \in Nat /\ b + 4 <= STACK_SIZE /\ a + 4 <= b /\ i <= d - 1
            BY <1>1, <1>5, <2>2
        <3>2. WordAt(memory', b) = WordAt(memory, b)
            BY <1>2, <3>1
        <3> QED
            BY <1>5, <3>1, <3>2 DEF FactWords
    <2> QED
        BY <2>1, <2>2
<1> QED
    BY <1>4, <1>5 DEF FactWords

\* The argument is 2 only if the calls have counted down to it.
LEMMA ArgIs2 ==
    ASSUME NEW n \in Word, NEW d \in Nat \ {0}, 8 * d + 8 <= STACK_SIZE, Descends(n, d)
    PROVE  /\ Arg(n, d) = 2 <=> n \in 2 .. Deepest /\ d = n - 1
           /\ n \in 2 .. Deepest => Arg(n, d) = n - d + 1
           /\ Signed(Arg(n, d) - 1) = Arg(n, d + 1)
<1> DEFINE x == n - d + 1
<1>1. /\ STACK_SIZE \in Nat /\ STACK_SIZE >= 64 /\ 2 * STACK_SIZE < WordValues /\ WordValues \in Nat
      /\ n \in INT_MIN .. INT_MAX /\ INT_MIN \in Int /\ INT_MAX \in Int
      /\ WordValues = -2 * INT_MIN /\ INT_MAX = -INT_MIN - 1
    BY Machine DEF Word
<1>2. Deepest \in Nat /\ 8 * Deepest <= STACK_SIZE /\ 8 * Deepest + 8 > STACK_SIZE
    BY DeepestIs
<1>3. x \in Int /\ Arg(n, d) = Signed(x)
    BY <1>1 DEF Arg
<1>4. CASE x >= INT_MIN
    <2>1. x \in INT_MIN .. INT_MAX
        BY <1>1, <1>4
    <2>2. Arg(n, d) = x
        BY <1>3, <2>1, SignedSame
    <2> QED
        <3>1. x = 2 <=> n \in 2 .. Deepest /\ d = n - 1
            BY <1>1, <1>2
        <3>2. Signed(x) = x /\ Arg(n, d + 1) = Signed(x - 1)
            BY <1>1, <1>3, <2>2 DEF Arg
        <3> QED
            BY <1>3, <2>2, <3>1, <3>2
<1>5. CASE ~(x >= INT_MIN)
    <2>1. ~(n \in 2 .. Deepest)
        BY <1>1, <1>5
    <2> DEFINE y == x + 1 * WordValues
    <2>2. y \in INT_MIN .. INT_MAX /\ y # 2
        BY <1>1, <1>5
    <2>3. Signed(y) = Signed(x) /\ Signed(y) = y
        BY <1>3, <2>2, SignedShift, SignedSame
    <2>4. Arg(n, d) # 2
        BY <1>3, <2>2, <2>3
    <2>5. Signed(Signed(x) - 1) = Signed(x - 1) /\ Arg(n, d + 1) = Signed(x - 1)
        BY <1>1, <1>3, SignedMinusOne DEF Arg
    <2> QED
        BY <1>3, <2>1, <2>4, <2>5
<1> QED
    BY <1>4, <1>5

\* A line that leaves memory and stack alone keeps the frame.
LEMMA FrameKeeps ==
    ASSUME NEW n, NEW d, NEW b, FactFrame(n, d, b), NEW c, registers'[1] = c,
           \A r \in {6, 7, 12} : registers'[r] = registers[r],
           UNCHANGED <<memory, scanned, printed, calls>>
    PROVE  FactFrame(n, d, c)'
BY DEF FactFrame, FactCalls, Keeps0

\* A step of the main lines ...
LEMMA FactorialMainStep ==
    ASSUME TestsInv, program = "factorial", Next, NEW k \in 1 .. 6, MainAt(k)
    PROVE  FactorialInv' /\ Returns
<1>1. MainCode
    BY FactorialIs DEF FactorialCode, MainCode
<1>2. program' = "factorial"
    BY NextDoes DEF Executes
<1>3. \A n : Result(n)' = Fact[n]
    BY <1>2 DEF Result
<1>4. /\ Returns /\ status' # "stray"
      /\ k \in {1, 2, 4, 5} => MainAt(k + 1)'
      /\ k = 3 => \E n : Called(n)'
      /\ k = 6 => status' = "done" /\ printed' = <<Result(scanned[1])'>>
    BY <1>1, MainStep
<1>5. CASE k \in {1, 2, 4, 5}
    <2>1. MainAt(k + 1)' /\ k + 1 \in 1 .. 6
        BY <1>4, <1>5
    <2>2. status' = "running"
        BY <2>1 DEF MainAt, On
    <2> QED
        BY <1>4, <2>1, <2>2 DEF FactorialInv
<1>6. CASE k = 3
    <2>1. PICK n : Called(n)'
        BY <1>4, <1>6
    <2>2. status' = "running" /\ n \in Word /\ n \in Int
        BY <2>1, Width DEF Called, On, Word
    <2>3. calls' = Prefix(FactFrames(n), 1)
        <3>1. FactFrames(n)[0 + 1] = MainFrame
            BY DEF FactFrames, MainFrame, ReturnsTo, CallersEbx
        <3>2. Append(Prefix(FactFrames(n), 0), FactFrames(n)[0 + 1]) = Prefix(FactFrames(n), 0 + 1)
              /\ Prefix(FactFrames(n), 0) = <<>>
            BY PrefixIs
        <3>3. calls' = Append(<<>>, MainFrame)
            BY <2>1 DEF Called
        <3> QED
            BY <3>1, <3>2, <3>3
    <2>4. FactCalls(n, 1)'
        BY <2>1, <2>3 DEF Called, FactCalls
    <2>5. STACK_SIZE \in Nat /\ STACK_SIZE >= 64
        BY Machine
    <2>6. FactWords(memory', n, 1, 1 - 1)
        <3>1. WordAt(memory', STACK_SIZE - 12) = 12
            BY <2>1 DEF Called
        <3>2. STACK_SIZE - 4 - 8 * 1 = STACK_SIZE - 12 /\ ReturnsTo(1) = 12
            BY <2>5 DEF ReturnsTo
        <3> QED
            BY <3>1, <3>2 DEF FactWords
    <2>7. Keeps0(CallersEbx(n, 1), STACK_SIZE - 4 - 8 * 1)'
        <3>1. Keeps0(0, STACK_SIZE - 12)' /\ STACK_SIZE - 4 - 8 * 1 = STACK_SIZE - 12 /\ CallersEbx(n, 1) = 0
            BY <2>1, <2>5 DEF Called, CallersEbx
        <3> QED
            BY <3>1
    <2>8. registers'[5] = Arg(n, 1)
        <3>1. n - 1 + 1 = n /\ Signed(n) = n
            BY <2>2, SignedSame DEF Word
        <3> QED
            BY <2>1, <3>1 DEF Called, Arg
    <2>9. Descends(n, 1)
        BY <2>2 DEF Descends
    <2>10. FactEnter(n, 1)'
        BY <2>1, <2>4, <2>5, <2>6, <2>7, <2>8, <2>9 DEF FactEnter, Called
    <2> QED
        BY <1>4, <2>2, <2>10 DEF FactorialInv
<1>7. CASE k = 6
    BY <1>3, <1>4, <1>7 DEF FactorialInv
<1> QED
    BY <1>5, <1>6, <1>7

\* ... of the first line of a call, which pushes ebx or runs off the stack ...
LEMMA FactorialEnterStep ==
    ASSUME TestsInv, program = "factorial", Next, NEW n, NEW d, FactEnter(n, d)
    PROVE  FactorialInv' /\ Returns
<1>1. FactorialCode(instructions) /\ Len(instructions) = 18 /\ Short
    BY FactorialIs
<1>2. On(7) /\ n \in Word /\ n \in Int /\ d \in Nat \ {0} /\ STACK_SIZE \in Nat /\ scanned = <<n>>
    BY Machine, Width DEF FactEnter, FactCalls, Word
<1>3. At(7, "pushl", 1, 0, 0)
    BY <1>1, <1>2, OnIs DEF FactorialCode
<1>4. registers[6] = STACK_SIZE - 4 - 8 * d /\ registers[1] = CallersEbx(n, d) /\ 8 * d + 4 <= STACK_SIZE
    BY DEF FactEnter, Keeps0
<1>5. IF registers[6] >= 4
      THEN /\ Goes(7 + 1) /\ Writes(6, registers[6] - 4) /\ Stores(registers[6] - 4, registers[1])
           /\ UNCHANGED <<scanned, printed, compared, calls>>
      ELSE Strays
    <2>1. registers[6] >= 0 /\ registers[6] <= STACK_SIZE
        BY <1>2, <1>4
    <2> QED
        BY <1>1, <1>3, <2>1, PushLine
<1>6. CASE registers[6] >= 4
    <2>1. /\ Goes(7 + 1) /\ Writes(6, STACK_SIZE - 8 - 8 * d)
          /\ Stores(STACK_SIZE - 8 - 8 * d, CallersEbx(n, d)) /\ 8 * d + 8 <= STACK_SIZE
          /\ UNCHANGED <<scanned, printed, compared, calls>>
        <3>1. registers[6] - 4 = STACK_SIZE - 8 - 8 * d
            BY <1>2, <1>4
        <3> QED
            BY <1>2, <1>4, <1>5, <1>6, <3>1
    <2>2. On(8)' /\ status' = "running"
        BY <1>1, <2>1, GoesOn DEF Goes
    <2>3. FactWords(memory', n, d, d)
        BY <1>2, <2>1, WordsOfPush DEF FactEnter
    <2>4. Keeps0(CallersEbx(n, d), STACK_SIZE - 8 - 8 * d)' /\ registers'[5] = registers[5]
        BY <2>1 DEF FactEnter, Keeps0, Writes
    <2>5. FactFrame(n, d, CallersEbx(n, d))'
        BY <2>1, <2>3, <2>4 DEF FactEnter, FactFrame, FactCalls
    <2>6. FactDown(8, n, d)'
        BY <2>2, <2>4, <2>5 DEF FactDown, FactEnter
    <2> QED
        BY <1>3, <2>2, <2>6, NoRet DEF FactorialInv
<1>7. CASE ~(registers[6] >= 4)
    <2>1. Strays
        BY <1>5, <1>7
    <2>2. n \notin 2 .. Deepest
        <3>1. n \in 2 .. Deepest => d <= n - 1
            BY DEF FactEnter, Descends
        <3> QED
            BY <1>2, <1>4, <1>7, <3>1, DeepestIs
    <2>3. scanned'[1] \notin 2 .. Deepest
        BY <1>2, <2>1, <2>2 DEF Strays
    <2> QED
        BY <1>3, <2>1, <2>3, NoRet DEF FactorialInv, Strays
<1> QED
    BY <1>6, <1>7

\* ... of the lines down to the recursive call, which an argument of 2 does not
\* reach ...
LEMMA FactorialDownStep ==
    ASSUME TestsInv, program = "factorial", Next, NEW k \in 8 .. 13, NEW n, NEW d, FactDown(k, n, d)
    PROVE  FactorialInv' /\ Returns
<1>1. FactorialCode(instructions) /\ Len(instructions) = 18 /\ Short
    BY FactorialIs
<1>2. /\ On(k) /\ n \in Word /\ n \in Int /\ d \in Nat \ {0} /\ STACK_SIZE \in Nat /\ scanned = <<n>>
      /\ 8 * d + 8 <= STACK_SIZE /\ Descends(n, d)
    BY Machine, Width DEF FactDown, FactFrame, FactCalls, Word
<1>3. FactFrame(n, d, IF k = 8 THEN CallersEbx(n, d) ELSE Arg(n, d))
    BY DEF FactDown
<1>4. ASSUME NEW j \in 8 .. 16, Goes(j) PROVE On(j)' /\ status' = "running"
    BY <1>1, <1>4, GoesOn DEF Goes
<1>5. ASSUME NEW j \in 8 .. 13, FactDown(j, n, d)' PROVE FactorialInv'
    <2>1. status' = "running"
        BY <1>5 DEF FactDown, On
    <2> QED
        BY <1>5, <2>1 DEF FactorialInv
<1>6. /\ Arg(n, d) = 2 <=> n \in 2 .. Deepest /\ d = n - 1
      /\ Signed(Arg(n, d) - 1) = Arg(n, d + 1)
    BY <1>2, ArgIs2
<1>7. CASE k = 8
    <2>1. At(8, "movl_reg_reg", 5, 1, 0)
        BY <1>1, <1>2, <1>7, OnIs DEF FactorialCode
    <2>2. registers[5] = Arg(n, d)
        BY <1>7 DEF FactDown
    <2>3. Sets(8 + 1, 1, Arg(n, d))
        BY <1>1, <2>1, <2>2, MovlRegLine
    <2>4. /\ registers'[1] = Arg(n, d) /\ registers'[5] = registers[5]
          /\ \A r \in {6, 7, 12} : registers'[r] = registers[r]
          /\ UNCHANGED <<memory, scanned, printed, calls>>
        BY <2>3 DEF Sets, Writes
    <2>5. FactFrame(n, d, Arg(n, d))'
        BY <1>3, <2>4, FrameKeeps
    <2>6. On(9)'
        BY <1>4, <2>3 DEF Sets
    <2>7. FactDown(9, n, d)'
        BY <1>2, <2>2, <2>4, <2>5, <2>6 DEF FactDown
    <2> QED
        BY <1>5, <2>1, <2>7, NoRet
<1>8. CASE k = 9
    <2>1. At(9, "movl_imm_reg", 8, 0, 2)
        BY <1>1, <1>2, <1>8, OnIs DEF FactorialCode
    <2>2. registers[5] = Arg(n, d) /\ FactFrame(n, d, Arg(n, d))
        BY <1>8 DEF FactDown
    <2>3. Sets(9 + 1, 8, 2)
        BY <1>1, <2>1, MovlImmLine
    <2>4. /\ registers'[8] = 2 /\ registers'[5] = registers[5] /\ registers'[1] = registers[1]
          /\ \A r \in {6, 7, 12} : registers'[r] = registers[r]
          /\ UNCHANGED <<memory, scanned, printed, calls>>
        BY <2>3 DEF Sets, Writes
    <2>5. registers[1] = Arg(n, d)
        BY <2>2 DEF FactFrame, Keeps0
    <2>6. FactFrame(n, d, Arg(n, d))'
        BY <2>2, <2>4, <2>5, FrameKeeps
    <2>7. On(10)'
        BY <1>4, <2>3 DEF Sets
    <2>8. FactDown(10, n, d)'
        BY <1>2, <2>2, <2>4, <2>6, <2>7 DEF FactDown
    <2> QED
        BY <1>5, <2>1, <2>8, NoRet
<1>9. CASE k = 10
    <2>1. At(10, "cmpl", 8, 5, 0)
        BY <1>1, <1>2, <1>9, OnIs DEF FactorialCode
    <2>2. registers[5] = Arg(n, d) /\ registers[8] = 2 /\ FactFrame(n, d, Arg(n, d))
        BY <1>9 DEF FactDown
    <2>3. /\ Goes(10 + 1) /\ \A s \in Nat : s < 16 => registers'[s] = registers[s]
          /\ compared' = <<2, Arg(n, d)>> /\ UNCHANGED <<memory, scanned, printed, calls>>
        BY <1>1, <2>1, <2>2, CmplLine DEF TestsInv, FlagsInv
    <2>4. /\ registers'[5] = registers[5] /\ registers'[1] = registers[1]
          /\ \A r \in {6, 7, 12} : registers'[r] = registers[r]
        BY <2>3
    <2>5. registers[1] = Arg(n, d)
        BY <2>2 DEF FactFrame, Keeps0
    <2>6. FactFrame(n, d, Arg(n, d))'
        BY <2>2, <2>3, <2>4, <2>5, FrameKeeps
    <2>7. On(11)'
        BY <1>4, <2>3
    <2>8. FactDown(11, n, d)'
        BY <1>2, <2>2, <2>3, <2>4, <2>6, <2>7 DEF FactDown
    <2> QED
        BY <1>5, <2>1, <2>8, NoRet
<1>10. CASE k = 11
    <2>1. At(11, "je", 0, 0, 16)
        BY <1>1, <1>2, <1>10, OnIs DEF FactorialCode
    <2>2. registers[5] = Arg(n, d) /\ compared = <<2, Arg(n, d)>> /\ FactFrame(n, d, Arg(n, d))
        BY <1>10 DEF FactDown
    <2>3. ~Misjudged(build, 2, Arg(n, d))
        BY Machine DEF Misjudged
    <2>4. Holds("je", 2, Arg(n, d)) <=> Arg(n, d) = 2
        BY DEF Holds
    <2>5. IF Arg(n, d) = 2 THEN Registers(16, registers) ELSE Registers(11 + 1, registers)
        <3>1. 16 \in Nat \ {0} /\ 16 <= Len(instructions) /\ 16 = 4 * (16 - 11 - 1) /\ "je" \in Conditional
            BY <1>1 DEF Conditional
        <3>2. FlagsInv
            BY DEF TestsInv
        <3> DEFINE x == Arg(n, d)
        <3>3. compared = <<2, x>> /\ ~Misjudged(build, 2, x)
            BY <2>2, <2>3
        <3> HIDE DEF x
        <3>4. IF Holds("je", 2, x) THEN Registers(16, registers) ELSE Registers(11 + 1, registers)
            BY <1>1, <2>1, <3>1, <3>2, <3>3, DecidedLine
        <3> QED
            BY <2>4, <3>4 DEF x
    <2>6. registers[1] = Arg(n, d)
        BY <2>2 DEF FactFrame, Keeps0
    <2>7. ASSUME NEW j, Registers(j, registers) PROVE FactFrame(n, d, Arg(n,
                 d))' /\ Goes(j) /\ UNCHANGED registers
        <3>1. /\ registers'[1] = Arg(n, d) /\ \A r \in {6, 7, 12} : registers'[r] = registers[r]
              /\ UNCHANGED <<memory, scanned, printed, calls>> /\ Goes(j) /\ UNCHANGED registers
            BY <2>6, <2>7 DEF Registers
        <3> QED
            BY <2>2, <3>1, FrameKeeps
    <2>8. CASE Arg(n, d) = 2
        <3>1. n \in 2 .. Deepest /\ d = n - 1
            BY <1>6, <2>8
        <3>2. FactFrame(n, d, Arg(n, d))' /\ Goes(16)
            BY <2>5, <2>7, <2>8
        <3>3. On(16)' /\ status' = "running"
            BY <1>4, <3>2
        <3>4. FactUp(16, n, d)'
            BY <3>1, <3>2, <3>3 DEF FactUp, Ascends
        <3> QED
            BY <2>1, <3>3, <3>4, NoRet DEF FactorialInv
    <2>9. CASE Arg(n, d) # 2
        <3>1. FactFrame(n, d, Arg(n, d))' /\ Goes(11 + 1) /\ UNCHANGED registers
            BY <2>5, <2>7, <2>9
        <3>2. On(12)'
            BY <1>4, <3>1
        <3>3. FactDown(12, n, d)'
            BY <1>2, <2>2, <2>9, <3>1, <3>2 DEF FactDown
        <3> QED
            BY <1>5, <2>1, <3>3, NoRet
    <2> QED
        BY <2>8, <2>9
<1>11. CASE k = 12
    <2>1. At(12, "subl", 5, 0, 1)
        BY <1>1, <1>2, <1>11, OnIs DEF FactorialCode
    <2>2. registers[5] = Arg(n, d) /\ FactFrame(n, d, Arg(n, d)) /\ Arg(n, d) # 2
        BY <1>11 DEF FactDown
    <2>3. Sets(12 + 1, 5, Signed(registers[5] - 1))
        BY <1>1, <2>1, SublLine
    <2>4. /\ registers'[5] = Arg(n, d + 1) /\ registers'[1] = registers[1]
          /\ \A r \in {6, 7, 12} : registers'[r] = registers[r]
          /\ UNCHANGED <<memory, scanned, printed, calls>>
        BY <1>6, <2>2, <2>3 DEF Sets, Writes
    <2>5. registers[1] = Arg(n, d)
        BY <2>2 DEF FactFrame, Keeps0
    <2>6. FactFrame(n, d, Arg(n, d))'
        BY <2>2, <2>4, <2>5, FrameKeeps
    <2>7. On(13)'
        BY <1>4, <2>3 DEF Sets
    <2>8. FactDown(13, n, d)'
        BY <1>2, <2>2, <2>4, <2>6, <2>7 DEF FactDown
    <2> QED
        BY <1>5, <2>1, <2>8, NoRet
<1>12. CASE k = 13
    <2>1. At(13, "call", 0, 0, -28)
        BY <1>1, <1>2, <1>12, OnIs DEF FactorialCode
    <2>2. registers[5] = Arg(n, d + 1) /\ FactFrame(n, d, Arg(n, d)) /\ Arg(n, d) # 2
        BY <1>12 DEF FactDown
    <2>3. registers[6] = STACK_SIZE - 8 - 8 * d /\ Keeps0(Arg(n, d), STACK_SIZE - 8 - 8 * d)
          /\ FactWords(memory, n, d, d) /\ calls = Prefix(FactFrames(n), d) /\ FactCalls(n, d)
        BY <2>2 DEF FactFrame, Keeps0, FactCalls
    <2>4. IF registers[6] >= 4
          THEN /\ Goes(7) /\ Writes(6, registers[6] - 4) /\ Stores(registers[6] - 4, 52)
               /\ calls' = Append(calls, [pc |-> 52, kept |-> Kept(registers)])
               /\ UNCHANGED <<scanned, printed, compared>>
          ELSE Strays
        <3>1. CallsFrom(13, 7, 52)
              /\ registers[6] >= 0 /\ registers[6] <= STACK_SIZE
            BY <1>1, <1>2, <2>3, <2>1 DEF CallsFrom
        <3> QED
            BY <1>1, <3>1, CallLine
    <2>5. n \in 2 .. Deepest => d # n - 1
        BY <1>6, <2>2
    <2>6. CASE registers[6] >= 4
        <3>1. /\ Goes(7) /\ Writes(6, STACK_SIZE - 12 - 8 * d) /\ Stores(STACK_SIZE - 12 - 8 * d, 52)
              /\ calls' = Append(calls, [pc |-> 52, kept |-> Kept(registers)])
              /\ UNCHANGED <<scanned, printed, compared>> /\ 8 * d + 12 <= STACK_SIZE
            <4>1. registers[6] - 4 = STACK_SIZE - 12 - 8 * d /\ 4 * 13 = 52 /\ 8 * d + 12 <= STACK_SIZE
                BY <1>2, <2>3, <2>6
            <4> QED
                BY <2>4, <2>6, <4>1
        <3> DEFINE e == d + 1
        <3>2. e \in Nat \ {0} /\ e # 1 /\ e - 1 = d /\ STACK_SIZE - 12 - 8 * d = STACK_SIZE - 4 - 8 * e
              /\ STACK_SIZE - 8 - 8 * d = STACK_SIZE - 8 * e /\ 8 * e + 4 <= STACK_SIZE
            BY <1>2, <3>1
        <3>3. ReturnsTo(d + 1) = 52
            BY <3>2 DEF ReturnsTo
        <3>4. FactWords(memory', n, e, d)
            BY <1>2, <2>3, <3>1, <3>3, WordsOfCall
        <3>5. calls' = Prefix(FactFrames(n), e)
            <4>1. Kept(registers) = Saved(CallersEbx(n, e), STACK_SIZE - 8 * e, 0, 0)
                <5>1. Kept(registers) = Saved(Arg(n, d), STACK_SIZE - 8 - 8 * d, 0, 0)
                    BY <2>3, KeptIs DEF Keeps0
                <5>2. CallersEbx(n, e) = Arg(n, d)
                    BY <3>2 DEF CallersEbx
                <5> QED
                    BY <3>2, <5>1, <5>2
            <4>2. FactFrames(n)[e] = [pc |-> 52, kept |-> Kept(registers)]
                BY <3>2, <3>3, <4>1 DEF FactFrames
            <4>3. Append(Prefix(FactFrames(n), d), FactFrames(n)[d + 1]) = Prefix(FactFrames(n), d + 1)
                BY <1>2, PrefixIs
            <4> QED
                BY <2>3, <3>1, <4>2, <4>3
        <3>6. Keeps0(CallersEbx(n, e), STACK_SIZE - 4 - 8 * e)' /\ registers'[5] = registers[5]
            <4>1. CallersEbx(n, e) = Arg(n, d)
                BY <3>2 DEF CallersEbx
            <4>2. Keeps0(Arg(n, d), STACK_SIZE - 12 - 8 * d)' /\ registers'[5] = registers[5]
                BY <2>3, <3>1 DEF Keeps0, Writes
            <4> QED
                BY <3>2, <4>1, <4>2
        <3>7. Descends(n, e)
            BY <1>2, <2>5, DeepestIs DEF Descends
        <3> HIDE DEF e
        <3>8. FactCalls(n, e)'
            BY <2>3, <3>1, <3>2, <3>5 DEF FactCalls
        <3>9. On(7)' /\ status' = "running"
            BY <1>1, <3>1, GoesOn DEF Goes
        <3>10. registers'[5] = Arg(n, e)
            BY <2>2, <3>6 DEF e
        <3>11. FactEnter(n, e)'
            BY <3>2, <3>4, <3>6, <3>7, <3>8, <3>9, <3>10 DEF FactEnter
        <3> QED
            BY <2>1, <3>9, <3>11, NoRet DEF FactorialInv
    <2>7. CASE ~(registers[6] >= 4)
        <3>1. Strays
            BY <2>4, <2>7
        <3>2. n \notin 2 .. Deepest
            BY <1>2, <2>3, <2>5, <2>7, DeepestIs DEF Descends
        <3>3. scanned'[1] \notin 2 .. Deepest
            BY <1>2, <3>1, <3>2 DEF Strays
        <3> QED
            BY <2>1, <3>1, <3>3, NoRet DEF FactorialInv, Strays
    <2> QED
        BY <2>6, <2>7
<1> QED
    BY <1>7, <1>8, <1>9, <1>10, <1>11, <1>12

\* ... of the lines that multiply behind it ...
LEMMA FactorialUpStep ==
    ASSUME TestsInv, program = "factorial", Next, NEW k \in 14 .. 17, NEW n, NEW d, FactUp(k, n, d)
    PROVE  FactorialInv' /\ Returns
<1>1. FactorialCode(instructions) /\ Len(instructions) = 18 /\ Short
    BY FactorialIs
<1>2. /\ On(k) /\ n \in Word /\ n \in Int /\ d \in Nat \ {0} /\ STACK_SIZE \in Nat
      /\ 8 * d + 8 <= STACK_SIZE /\ Ascends(n, d) /\ FactFrame(n, d, Arg(n, d))
    BY Machine, Width DEF FactUp, FactFrame, FactCalls, Word
<1>3. n \in 2 .. Deepest /\ d <= n - 1 /\ Deepest \in Nat /\ registers[1] = Arg(n, d)
    BY <1>2, DeepestIs DEF Ascends, FactFrame, Keeps0
<1>4. ASSUME NEW j \in 14 .. 18, Goes(j) PROVE On(j)' /\ status' = "running"
    BY <1>1, <1>4, GoesOn DEF Goes
<1>5. ASSUME NEW j \in 14 .. 17, FactUp(j, n, d)' PROVE FactorialInv'
    <2>1. status' = "running"
        BY <1>5 DEF FactUp, On
    <2> QED
        BY <1>5, <2>1 DEF FactorialInv
<1>6. Arg(n, d) = n - d + 1
    BY <1>2, <1>3, ArgIs2 DEF Ascends, Descends
<1>7. ASSUME NEW r, r \notin {1, 6, 7, 12}, NEW v, Writes(r, v), UNCHANGED <<memory, scanned, printed, calls>>
      PROVE  FactFrame(n, d, Arg(n, d))'
    <2>1. registers'[1] = Arg(n, d) /\ \A s \in {6, 7, 12} : registers'[s] = registers[s]
        BY <1>3, <1>7 DEF Writes
    <2> QED
        BY <1>2, <1>7, <2>1, FrameKeeps
<1>8. CASE k = 14
    <2>1. At(14, "imull", 1, 0, 0)
        BY <1>1, <1>2, <1>8, OnIs DEF FactorialCode
    <2>2. d # n - 1 /\ registers[0] = Fact[n - d]
        BY <1>8 DEF FactUp
    <2>3. Sets(14 + 1, 0, Signed(registers[1] * registers[0]))
        BY <1>1, <2>1, ImullLine
    <2>4. Signed(registers[1] * registers[0]) = Fact[n - d + 1]
        <3> DEFINE m == n - d + 1
        <3>1. m \in 2 .. Deepest /\ m # 2 /\ m - 1 = n - d
            BY <1>2, <1>3, <2>2
        <3>2. registers[1] = m
            BY <1>3, <1>6
        <3> HIDE DEF m
        <3>3. Fact[m] = Signed(m * Fact[m-1])
            BY <3>1, FactIs
        <3> QED
            BY <2>2, <3>1, <3>2, <3>3 DEF m
    <2>5. registers'[0] = Fact[n - d + 1] /\ On(15)'
        BY <1>4, <2>3, <2>4 DEF Sets, Writes
    <2>6. FactFrame(n, d, Arg(n, d))'
        BY <1>7, <2>3 DEF Sets
    <2>7. FactUp(15, n, d)'
        BY <1>2, <2>5, <2>6 DEF FactUp
    <2> QED
        BY <1>5, <2>1, <2>7, NoRet
<1>9. CASE k = 15
    <2>1. At(15, "jmp", 0, 0, 4)
        BY <1>1, <1>2, <1>9, OnIs DEF FactorialCode
    <2>2. registers[0] = Fact[n - d + 1]
        BY <1>9 DEF FactUp
    <2>3. Registers(17, registers)
        <3>1. 17 \in Nat \ {0} /\ 17 <= Len(instructions) /\ 4 = 4 * (17 - 15 - 1)
            BY <1>1
        <3> QED
            BY <1>1, <2>1, <3>1, JmpLine
    <2>4. UNCHANGED <<registers, memory, scanned, printed, calls>> /\ On(17)'
        BY <1>4, <2>3 DEF Registers
    <2>5. FactFrame(n, d, Arg(n, d))'
        <3>1. registers'[1] = Arg(n, d) /\ \A s \in {6, 7, 12} : registers'[s] = registers[s]
            BY <1>3, <2>4
        <3> QED
            BY <1>2, <2>4, <3>1, FrameKeeps
    <2>6. FactUp(17, n, d)'
        BY <1>2, <2>2, <2>4, <2>5 DEF FactUp
    <2> QED
        BY <1>5, <2>1, <2>6, NoRet
<1>10. CASE k = 16
    <2>1. At(16, "movl_imm_reg", 0, 0, 2)
        BY <1>1, <1>2, <1>10, OnIs DEF FactorialCode
    <2>2. d = n - 1
        BY <1>10 DEF FactUp
    <2>3. Sets(16 + 1, 0, 2)
        BY <1>1, <2>1, MovlImmLine
    <2>4. Fact[n - d + 1] = 2
        <3>1. n - d + 1 = 2 /\ 2 \in 2 .. Deepest
            BY <1>2, <1>3, <2>2
        <3> QED
            BY <3>1, FactIs
    <2>5. registers'[0] = Fact[n - d + 1] /\ On(17)'
        BY <1>4, <2>3, <2>4 DEF Sets, Writes
    <2>6. FactFrame(n, d, Arg(n, d))'
        BY <1>7, <2>3 DEF Sets
    <2>7. FactUp(17, n, d)'
        BY <1>2, <2>5, <2>6 DEF FactUp
    <2> QED
        BY <1>5, <2>1, <2>7, NoRet
<1>11. CASE k = 17
    <2>1. At(17, "popl", 1, 0, 0)
        BY <1>1, <1>2, <1>11, OnIs DEF FactorialCode
    <2>2. registers[0] = Fact[n - d + 1]
        BY <1>11 DEF FactUp
    <2>3. /\ Keeps0(Arg(n, d), STACK_SIZE - 8 - 8 * d) /\ FactWords(memory, n, d, d) /\ FactCalls(n, d)
          /\ registers[6] = STACK_SIZE - 8 - 8 * d
        BY <1>2 DEF FactFrame, Keeps0
    <2>4. /\ Goes(17 + 1)
          /\ registers'[1] = WordAt(memory, STACK_SIZE - 8 - 8 * d)
          /\ registers'[6] = STACK_SIZE - 8 - 8 * d + 4
          /\ \A s \in Nat : s # 1 /\ s # 6 /\ s <= 16 => registers'[s] = registers[s]
          /\ UNCHANGED <<memory, scanned, printed, compared, calls>>
        <3>1. registers[6] >= 0 /\ registers[6] + 4 <= STACK_SIZE
            BY <1>2, <2>3
        <3>2. /\ Goes(17 + 1) /\ registers'[1] = WordAt(memory, registers[6])
                 /\ registers'[6] = registers[6] + 4
              /\ \A s \in Nat : s # 1 /\ s # 6 /\ s <= 16 => registers'[s] = registers[s]
              /\ UNCHANGED <<memory, scanned, printed, compared, calls>>
            BY <1>1, <2>1, <3>1, PopLine
        <3> QED
            BY <2>3, <3>2
    <2>5. Keeps0(CallersEbx(n, d), STACK_SIZE - 4 - 8 * d)' /\ registers'[0] = registers[0]
        <3>1. STACK_SIZE - 8 - 8 * d + 4 = STACK_SIZE - 4 - 8 * d
            BY <1>2
        <3>2. WordAt(memory, STACK_SIZE - 8 - 8 * d) = CallersEbx(n, d)
            BY <1>2, <2>3 DEF FactWords
        <3> QED
            BY <2>3, <2>4, <3>1, <3>2 DEF Keeps0
    <2>6. On(18)' /\ status' = "running"
        BY <1>4, <2>4
    <2>7. FactCalls(n, d)' /\ FactWords(memory', n, d, d)
        BY <2>3, <2>4, <2>5 DEF FactCalls, Keeps0
    <2>8. FactLeave(n, d)'
        BY <1>2, <2>2, <2>5, <2>6, <2>7 DEF FactLeave
    <2> QED
        BY <2>1, <2>6, <2>8, NoRet DEF FactorialInv
<1> QED
    BY <1>8, <1>9, <1>10, <1>11

\* ... and of ret, back into the call before or to the main lines.
LEMMA FactorialLeaveStep ==
    ASSUME TestsInv, program = "factorial", Next, NEW n, NEW d, FactLeave(n, d)
    PROVE  FactorialInv' /\ Returns
<1>1. FactorialCode(instructions) /\ Len(instructions) = 18 /\ Short
    BY FactorialIs
<1>2. /\ On(18) /\ n \in Word /\ n \in Int /\ d \in Nat \ {0} /\ STACK_SIZE \in Nat
      /\ 8 * d + 8 <= STACK_SIZE /\ Ascends(n, d) /\ FactWords(memory, n, d, d)
      /\ calls = Prefix(FactFrames(n), d) /\ Keeps0(CallersEbx(n, d), STACK_SIZE - 4 - 8 * d)
      /\ registers[0] = Fact[n - d + 1] /\ scanned = <<n>> /\ printed = <<>>
    BY Machine, Width DEF FactLeave, FactCalls, Word
<1>3. n \in 2 .. Deepest /\ d <= n - 1 /\ Deepest \in Nat
    BY <1>2, DeepestIs DEF Ascends
<1>4. At(18, "ret", 0, 0, 0)
    BY <1>1, <1>2, OnIs DEF FactorialCode
<1>5. registers[6] = STACK_SIZE - 4 - 8 * d /\ WordAt(memory, STACK_SIZE - 4 - 8 * d) = ReturnsTo(d)
    BY <1>2 DEF Keeps0, FactWords
<1> DEFINE j == IF d = 1 THEN 4 ELSE 14
           e == d - 1
<1>6. /\ Goes(j) /\ Writes(6, STACK_SIZE - 8 * d)
      /\ calls' = IF calls = <<>> THEN <<>> ELSE SubSeq(calls, 1, Len(calls) - 1)
      /\ UNCHANGED <<memory, scanned, printed, compared>>
    <2>1. j \in Nat \ {0} /\ j <= Len(instructions) /\ ReturnsTo(d) = 4 * (j - 1)
        BY <1>1 DEF ReturnsTo
    <2>2. registers[6] >= 0 /\ registers[6] + 4 <= STACK_SIZE /\ registers[6] + 4 = STACK_SIZE - 8 * d
        BY <1>2, <1>5
    <2> HIDE DEF j
    <2>3. WordAt(memory, registers[6]) = 4 * (j - 1)
        BY <1>5, <2>1
    <2>4. /\ Goes(j) /\ Writes(6, registers[6] + 4)
          /\ calls' = IF calls = <<>> THEN <<>> ELSE SubSeq(calls, 1, Len(calls) - 1)
          /\ UNCHANGED <<memory, scanned, printed, compared>>
        BY <1>1, <1>4, <2>1, <2>2, <2>3, RetLine
    <2> QED
        BY <2>2, <2>4
<1>7. e \in Nat /\ d = e + 1
    BY <1>2
<1>8. /\ calls # <<>> /\ Len(calls) = d /\ calls[d] = FactFrames(n)[d]
      /\ SubSeq(calls, 1, d - 1) = Prefix(FactFrames(n), e) /\ Prefix(FactFrames(n), 0) = <<>>
    <2> HIDE DEF e
    <2>1. /\ Prefix(FactFrames(n), e + 1) # <<>> /\ Len(Prefix(FactFrames(n), e + 1)) = e + 1
          /\ Prefix(FactFrames(n), e + 1)[e + 1] = FactFrames(n)[e + 1]
          /\ SubSeq(Prefix(FactFrames(n), e + 1), 1, (e + 1) - 1) = Prefix(FactFrames(n), e)
          /\ Prefix(FactFrames(n), 0) = <<>>
        BY <1>7, PrefixIs
    <2> QED
        BY <1>2, <1>7, <2>1
<1>9. calls' = Prefix(FactFrames(n), e)
    BY <1>6, <1>8
<1>10. Keeps0(CallersEbx(n, d), STACK_SIZE - 8 * d)' /\ registers'[0] = registers[0]
    BY <1>2, <1>6 DEF Keeps0, Writes
<1>11. program_counter' = ReturnsTo(d) /\ status' = "running" /\ On(j)'
    <2>1. j \in Nat \ {0} /\ j <= Len(instructions) /\ ReturnsTo(d) = 4 * (j - 1) /\ j # Len(instructions) + 1
        BY <1>1 DEF ReturnsTo
    <2> HIDE DEF j
    <2> QED
        BY <1>1, <1>6, <2>1, GoesOn DEF Goes
<1>12. Returns
    <2>1. FactFrames(n)[d] = [pc |-> ReturnsTo(d), kept |-> Saved(CallersEbx(n, d), STACK_SIZE - 8 * d, 0, 0)]
        BY <1>2 DEF FactFrames
    <2>2. Kept(registers') = Saved(CallersEbx(n, d), STACK_SIZE - 8 * d, 0, 0)
        BY <1>10, KeptIs DEF Keeps0
    <2>3. registers[ESP] # STACK_SIZE
        BY <1>2, <1>5 DEF ESP
    <2> QED
        BY <1>8, <1>11, <2>1, <2>2, <2>3 DEF Returns
<1>13. CASE d = 1
    <2>1. calls' = <<>> /\ Keeps0(0, STACK_SIZE - 8)' /\ On(4)' /\ registers'[0] = Fact[n]
        <3>1. e = 0 /\ 8 * d = 8 /\ n - d + 1 = n /\ CallersEbx(n, d) = 0 /\ j = 4
            BY <1>2, <1>13 DEF CallersEbx
        <3> QED
            BY <1>2, <1>8, <1>9, <1>10, <1>11, <3>1
    <2>2. scanned' = <<n>> /\ printed' = <<>> /\ program' = "factorial"
        BY <1>2, <1>6, NextDoes DEF Executes
    <2>3. MainAt(4)'
        BY <1>2, <2>1, <2>2 DEF MainAt, Result
    <2> QED
        BY <1>11, <1>12, <2>3 DEF FactorialInv
<1>14. CASE d # 1
    <2>1. e \in Nat \ {0} /\ CallersEbx(n, d) = Arg(n, e) /\ STACK_SIZE - 8 * d = STACK_SIZE - 8 - 8 * e
          /\ 8 * e + 8 <= STACK_SIZE /\ n - d + 1 = n - e /\ e # n - 1 /\ j = 14 /\ e <= n - 1
        BY <1>2, <1>3, <1>14 DEF CallersEbx
    <2>2. Keeps0(Arg(n, e), STACK_SIZE - 8 - 8 * e)' /\ On(14)' /\ registers'[0] = Fact[n - e]
        BY <1>2, <1>10, <1>11, <2>1
    <2>3. FactWords(memory', n, e, e)
        <3>1. \A i \in Nat : i <= e => i <= d
            BY <1>7
        <3> QED
            BY <1>2, <1>6, <3>1 DEF FactWords
    <2>4. FactCalls(n, e)'
        BY <1>2, <1>6, <1>9, <2>1, <2>2 DEF FactCalls, Keeps0
    <2> HIDE DEF e
    <2>5. FactFrame(n, e, Arg(n, e))'
        BY <2>1, <2>2, <2>3, <2>4 DEF FactFrame
    <2>6. Ascends(n, e)
        BY <1>3, <2>1 DEF Ascends
    <2>7. FactUp(14, n, e)'
        BY <2>1, <2>2, <2>5, <2>6 DEF FactUp
    <2> QED
        BY <1>11, <1>12, <2>7 DEF FactorialInv
<1> QED
    BY <1>13, <1>14

\* The run of factorial begins where FactorialInv says ...
LEMMA FactorialStart == ASSUME Init, TestsInv, program = "factorial" PROVE FactorialInv
<1>1. Len(instructions) = 18
    BY FactorialIs
<1>2. MainAt(1)
    BY <1>1, MainStart
<1> QED
    BY <1>2 DEF FactorialInv, MainAt, On

\* ... and stays there.
LEMMA FactorialStep ==
    ASSUME TestsInv, FactorialInv, Next, program = "factorial"
    PROVE  FactorialInv' /\ Returns
<1>1. \/ \E k \in 1 .. 6 : MainAt(k)
      \/ \E n, d : \/ FactEnter(n, d) \/ FactLeave(n, d)
                   \/ \E k \in 8 .. 13 : FactDown(k, n, d)
                   \/ \E k \in 14 .. 17 : FactUp(k, n, d)
    BY NextDoes DEF FactorialInv
<1>2. CASE \E k \in 1 .. 6 : MainAt(k)
    BY <1>2, FactorialMainStep
<1>3. CASE \E n, d : FactEnter(n, d)
    BY <1>3, FactorialEnterStep
<1>4. CASE \E n, d : FactLeave(n, d)
    BY <1>4, FactorialLeaveStep
<1>5. CASE \E n, d : \E k \in 8 .. 13 : FactDown(k, n, d)
    BY <1>5, FactorialDownStep
<1>6. CASE \E n, d : \E k \in 14 .. 17 : FactUp(k, n, d)
    BY <1>6, FactorialUpStep
<1> QED
    BY <1>1, <1>2, <1>3, <1>4, <1>5, <1>6

-----------------------------------------------------------------------------
(* log2.s.                                                                 *)

\* What the frame of call i keeps for its caller.
Log2Returns(i) == IF i = 1 THEN 12 ELSE 48
Log2Frames == [i \in Nat |-> [pc |-> Log2Returns(i), kept |-> Saved(0, STACK_SIZE - 12 * i + 4, 0, 0)]]
Log2Words(m, d) == \A i \in Nat : 1 <= i /\ i <= d => WordAt(m, STACK_SIZE - 12 * i) = Log2Returns(i)

\* d calls are under way, the first with n, and s bytes are left free below the last.
Log2Frame(n, d, s) ==
    /\ n \in Word /\ scanned = <<n>> /\ printed = <<>>
    /\ d \in Nat \ {0} /\ d <= Log2[Unsigned(n)] /\ calls = Prefix(Log2Frames, d)
    /\ Keeps0(0, STACK_SIZE - 12 * d - s)
    /\ Log2Words(memory, d)

\* On the way down the logarithm of the argument is what is missing, on the way up
\* the one in eax is.
Log2Down(k, n, d) ==
    /\ On(k) /\ Log2Frame(n, d, IF k \in {11, 12} THEN 8 ELSE 0)
    /\ registers[5] \in Word
    /\ Log2[Unsigned(n)] = (IF k = 12 THEN d ELSE d - 1) + Log2[Unsigned(registers[5])]
    /\ k = 8 => registers[8] = 2
    /\ k = 9 => compared = <<2, registers[5]>>
    /\ k \in {10, 11} => Unsigned(registers[5]) > 2
    /\ k = 15 => Unsigned(registers[5]) <= 2

Log2Up(k, n, d) ==
    /\ On(k) /\ Log2Frame(n, d, IF k \in {13, 14, 17} THEN 8 ELSE 0)
    /\ registers[0] \in Nat
    /\ registers[0] + (IF k = 13 THEN d ELSE d - 1) = Log2[Unsigned(n)]

Log2Inv ==
    /\ status = "running" =>
          \/ \E k \in 1 .. 6 : MainAt(k)
          \/ \E n, d : \/ \E k \in {7, 8, 9, 10, 11, 12, 15} : Log2Down(k, n, d)
                       \/ \E k \in {13, 14, 16, 17, 18} : Log2Up(k, n, d)
    /\ status # "stray"
    /\ status = "done" => printed = <<Log2[Unsigned(scanned[1])]>>

\* A line that leaves the memory alone keeps the frame, moving the stack pointer.
LEMMA Log2Keeps ==
    ASSUME NEW n, NEW d, NEW s, Log2Frame(n, d, s), NEW t,
           registers'[6] = STACK_SIZE - 12 * d - t,
           \A r \in {1, 7, 12} : registers'[r] = registers[r],
           UNCHANGED <<memory, scanned, printed, calls>>
    PROVE  Log2Frame(n, d, t)'
BY DEF Log2Frame, Keeps0

\* The logarithms of a word, and of half of it.
LEMMA Log2OfWord ==
    ASSUME NEW x \in Word
    PROVE  /\ Unsigned(x) \in Nat /\ Log2[Unsigned(x)] \in Nat \ {0}
           /\ 12 * Log2[Unsigned(x)] <= STACK_SIZE
           /\ Unsigned(x) <= 2 => Log2[Unsigned(x)] = 1
           /\ Unsigned(x) \div 2 \in Word
           /\ Unsigned(x) > 2 => Log2[Unsigned(x)] = 1 + Log2[Unsigned(Unsigned(x) \div 2)]
<1> DEFINE u == Unsigned(x)
           h == u \div 2
<1>1. u \in 0 .. WordValues - 1
    BY UnsignedIsWord, Width DEF Word
<1>2. WordValues \in Nat /\ INT_MIN \in Int /\ INT_MAX \in Int
      /\ WordValues = -2 * INT_MIN /\ INT_MAX = -INT_MIN - 1
    BY Machine
<1> HIDE DEF u
<1>3. h \in 0 .. WordValues - 1 /\ h \in INT_MIN .. INT_MAX
    BY <1>1, <1>2
<1> HIDE DEF h
<1>4. Unsigned(h) = h
    BY <1>3, UnsignedSame
<1>5. Log2[u] = IF u <= 2 THEN 1 ELSE 1 + Log2[h]
    BY <1>1, Log2Equation DEF h
<1>6. Log2[u] \in Nat \ {0} /\ 12 * Log2[u] <= STACK_SIZE
    BY <1>1, Log2Positive
<1>7. u \in Nat /\ h \in Word /\ (u <= 2 => Log2[u] = 1) /\ (u > 2 => Log2[u] = 1 + Log2[Unsigned(h)])
    BY <1>1, <1>2, <1>3, <1>4, <1>5 DEF Word
<1> QED
    BY <1>6, <1>7 DEF h, u

\* A step of the main lines ...
LEMMA Log2MainStep ==
    ASSUME TestsInv, program = "log2", Next, NEW k \in 1 .. 6, MainAt(k)
    PROVE  Log2Inv' /\ Returns
<1>1. MainCode
    BY Log2Is DEF Log2Code, MainCode
<1>2. program' = "log2"
    BY NextDoes DEF Executes
<1>3. \A n : Result(n)' = Log2[Unsigned(n)]
    BY <1>2 DEF Result
<1>4. /\ Returns /\ status' # "stray"
      /\ k \in {1, 2, 4, 5} => MainAt(k + 1)'
      /\ k = 3 => \E n : Called(n)'
      /\ k = 6 => status' = "done" /\ printed' = <<Result(scanned[1])'>>
    BY <1>1, MainStep
<1>5. CASE k \in {1, 2, 4, 5}
    <2>1. MainAt(k + 1)' /\ k + 1 \in 1 .. 6
        BY <1>4, <1>5
    <2>2. status' = "running"
        BY <2>1 DEF MainAt, On
    <2> QED
        BY <1>4, <2>1, <2>2 DEF Log2Inv
<1>6. CASE k = 3
    <2>1. PICK n : Called(n)'
        BY <1>4, <1>6
    <2>2. status' = "running" /\ n \in Word /\ n \in Int /\ STACK_SIZE \in Nat /\ STACK_SIZE >= 64
        BY <2>1, Machine, Width DEF Called, On, Word
    <2>3. calls' = Prefix(Log2Frames, 1)
        <3>1. Log2Frames[0 + 1] = MainFrame
            <4>1. STACK_SIZE - 12 * 1 + 4 = STACK_SIZE - 8
                BY <2>2
            <4> QED
                BY <4>1 DEF Log2Frames, MainFrame, Log2Returns
        <3>2. Append(Prefix(Log2Frames, 0), Log2Frames[0 + 1]) = Prefix(Log2Frames, 0 + 1)
              /\ Prefix(Log2Frames, 0) = <<>>
            BY PrefixIs
        <3>3. calls' = Append(<<>>, MainFrame)
            BY <2>1 DEF Called
        <3> QED
            BY <3>1, <3>2, <3>3
    <2>4. STACK_SIZE - 12 * 1 - 0 = STACK_SIZE - 12 /\ STACK_SIZE - 12 * 1 = STACK_SIZE - 12 /\ 1 - 1 = 0
        BY <2>2
    <2>5. Log2Words(memory', 1)
        <3>1. WordAt(memory', STACK_SIZE - 12) = 12
            BY <2>1 DEF Called
        <3> QED
            BY <2>4, <3>1 DEF Log2Words, Log2Returns
    <2>6. Keeps0(0, STACK_SIZE - 12 * 1 - 0)'
        BY <2>1, <2>4 DEF Called
    <2>7. Log2[Unsigned(n)] \in Nat \ {0}
        BY <2>2, Log2OfWord
    <2>8. Log2Frame(n, 1, 0)'
        BY <2>1, <2>2, <2>3, <2>5, <2>6, <2>7 DEF Log2Frame, Called
    <2>9. registers'[5] = n /\ Log2[Unsigned(n)] = (1 - 1) + Log2[Unsigned(n)]
        BY <2>1, <2>7 DEF Called
    <2>10. Log2Down(7, n, 1)'
        BY <2>1, <2>2, <2>8, <2>9 DEF Log2Down, Called
    <2> QED
        BY <1>4, <2>2, <2>10 DEF Log2Inv
<1>7. CASE k = 6
    BY <1>3, <1>4, <1>7 DEF Log2Inv
<1> QED
    BY <1>5, <1>6, <1>7

\* ... of the lines down to the recursive call, which halve the argument ...
LEMMA Log2DownStep ==
    ASSUME TestsInv, program = "log2", Next, NEW k \in {7, 8, 9, 10, 11, 12, 15}, NEW n, NEW d,
           Log2Down(k, n, d)
    PROVE  Log2Inv' /\ Returns
<1>1. Log2Code(instructions) /\ Len(instructions) = 18 /\ Short
    BY Log2Is
<1>2. /\ On(k) /\ n \in Word /\ d \in Nat \ {0} /\ STACK_SIZE \in Nat /\ STACK_SIZE >= 64
      /\ d <= Log2[Unsigned(n)] /\ registers[5] \in Word
    BY Machine DEF Log2Down, Log2Frame
<1>3. 12 * d <= STACK_SIZE
    BY <1>2, Log2OfWord
<1>4. ASSUME NEW j \in 7 .. 18, Goes(j) PROVE On(j)' /\ status' = "running"
    BY <1>1, <1>4, GoesOn DEF Goes
<1>5. ASSUME NEW j \in {7, 8, 9, 10, 11, 12, 15}, NEW e, Log2Down(j, n, e)' PROVE Log2Inv'
    <2>1. status' = "running"
        BY <1>5 DEF Log2Down, On
    <2> QED
        BY <1>5, <2>1 DEF Log2Inv
<1>6. ASSUME NEW r, r \notin {1, 6, 7, 12}, NEW v, Writes(r, v), UNCHANGED <<memory, scanned, printed,
             calls>>,
             NEW s, Log2Frame(n, d, s)
      PROVE  Log2Frame(n, d, s)'
    <2>1. registers[6] = STACK_SIZE - 12 * d - s
        BY <1>6 DEF Log2Frame, Keeps0
    <2>2. registers'[6] = registers[6] /\ \A q \in {1, 7, 12} : registers'[q] = registers[q]
        BY <1>6 DEF Writes
    <2> QED
        BY <1>6, <2>1, <2>2, Log2Keeps
<1>7. CASE k = 7
    <2>1. At(7, "movl_imm_reg", 8, 0, 2)
        BY <1>1, <1>2, <1>7, OnIs DEF Log2Code
    <2>2. Log2Frame(n, d, 0) /\ Log2[Unsigned(n)] = (d - 1) + Log2[Unsigned(registers[5])]
        BY <1>7 DEF Log2Down
    <2>3. Sets(7 + 1, 8, 2)
        BY <1>1, <2>1, MovlImmLine
    <2>4. registers'[8] = 2 /\ registers'[5] = registers[5] /\ On(8)'
        BY <1>4, <2>3 DEF Sets, Writes
    <2>5. Log2Frame(n, d, 0)'
        BY <1>6, <2>2, <2>3 DEF Sets
    <2>6. Log2Down(8, n, d)'
        BY <1>2, <2>2, <2>4, <2>5 DEF Log2Down
    <2> QED
        BY <1>5, <2>1, <2>6, NoRet
<1>8. CASE k = 8
    <2>1. At(8, "cmpl", 8, 5, 0)
        BY <1>1, <1>2, <1>8, OnIs DEF Log2Code
    <2>2. Log2Frame(n, d, 0) /\ Log2[Unsigned(n)] = (d - 1) + Log2[Unsigned(registers[5])]
          /\ registers[8] = 2
        BY <1>8 DEF Log2Down
    <2>3. /\ Goes(8 + 1) /\ \A s \in Nat : s < 16 => registers'[s] = registers[s]
          /\ compared' = <<2, registers[5]>> /\ UNCHANGED <<memory, scanned, printed, calls>>
        BY <1>1, <2>1, <2>2, CmplLine DEF TestsInv, FlagsInv
    <2>4. registers'[5] = registers[5] /\ On(9)' /\ registers'[6] = registers[6]
          /\ \A q \in {1, 7, 12} : registers'[q] = registers[q]
        BY <1>4, <2>3
    <2>5. registers[6] = STACK_SIZE - 12 * d - 0
        BY <2>2 DEF Log2Frame, Keeps0
    <2>6. Log2Frame(n, d, 0)'
        BY <2>2, <2>3, <2>4, <2>5, Log2Keeps
    <2>7. Log2Down(9, n, d)'
        BY <1>2, <2>2, <2>3, <2>4, <2>6 DEF Log2Down
    <2> QED
        BY <1>5, <2>1, <2>7, NoRet
<1>9. CASE k = 9
    <2>1. At(9, "jbe", 0, 0, 20)
        BY <1>1, <1>2, <1>9, OnIs DEF Log2Code
    <2>2. Log2Frame(n, d, 0) /\ Log2[Unsigned(n)] = (d - 1) + Log2[Unsigned(registers[5])]
          /\ compared = <<2, registers[5]>>
        BY <1>9 DEF Log2Down
    <2> DEFINE x == registers[5]
    <2>3. IF Unsigned(x) <= 2 THEN Registers(15, registers) ELSE Registers(9 + 1, registers)
        <3>1. 15 \in Nat \ {0} /\ 15 <= Len(instructions) /\ 20 = 4 * (15 - 9 - 1) /\ "jbe" \in Conditional
            BY <1>1 DEF Conditional
        <3>2. FlagsInv /\ compared = <<2, x>> /\ ~Misjudged(build, 2, x)
            BY <2>2, Machine DEF TestsInv, Misjudged
        <3> HIDE DEF x
        <3>3. IF Holds("jbe", 2, x) THEN Registers(15, registers) ELSE Registers(9 + 1, registers)
            BY <1>1, <2>1, <3>1, <3>2, DecidedLine
        <3>4. Unsigned(2) = 2
            BY Machine, UnsignedSame
        <3>5. Holds("jbe", 2, x) <=> Unsigned(x) <= 2
            BY <3>4 DEF Holds
        <3> QED
            BY <3>3, <3>5
    <2>4. ASSUME NEW j, Registers(j, registers) PROVE Log2Frame(n, d, 0)' /\ Goes(j) /\ UNCHANGED registers
        <3>1. registers[6] = STACK_SIZE - 12 * d - 0
            BY <2>2 DEF Log2Frame, Keeps0
        <3>2. UNCHANGED <<memory, scanned, printed, calls>> /\ Goes(j) /\ UNCHANGED registers
            BY <2>4 DEF Registers
        <3>3. registers'[6] = STACK_SIZE - 12 * d - 0 /\ \A r \in {1, 7, 12} : registers'[r] = registers[r]
            BY <3>1, <3>2
        <3> QED
            BY <2>2, <3>2, <3>3, Log2Keeps
    <2>5. CASE Unsigned(x) <= 2
        <3>1. Log2Frame(n, d, 0)' /\ Goes(15) /\ UNCHANGED registers
            BY <2>3, <2>4, <2>5
        <3>2. On(15)'
            BY <1>4, <3>1
        <3>3. Log2Down(15, n, d)'
            BY <1>2, <2>2, <2>5, <3>1, <3>2 DEF Log2Down
        <3> QED
            BY <1>5, <2>1, <3>3, NoRet
    <2>6. CASE ~(Unsigned(x) <= 2)
        <3>1. Log2Frame(n, d, 0)' /\ Goes(9 + 1) /\ UNCHANGED registers
            BY <2>3, <2>4, <2>6
        <3>2. On(10)' /\ Unsigned(x) > 2
            BY <1>2, <1>4, <2>6, <3>1, Log2OfWord
        <3>3. Log2Down(10, n, d)'
            BY <1>2, <2>2, <3>1, <3>2 DEF Log2Down
        <3> QED
            BY <1>5, <2>1, <3>3, NoRet
    <2> QED
        BY <2>5, <2>6
<1>10. CASE k = 10
    <2>1. At(10, "subl", 6, 0, 8)
        BY <1>1, <1>2, <1>10, OnIs DEF Log2Code
    <2>2. Log2Frame(n, d, 0) /\ Log2[Unsigned(n)] = (d - 1) + Log2[Unsigned(registers[5])]
          /\ Unsigned(registers[5]) > 2
        BY <1>10 DEF Log2Down
    <2>3. registers[6] - 8 = STACK_SIZE - 12 * d - 8 /\ Log2[Unsigned(registers[5])] > 1
        <3>1. registers[6] = STACK_SIZE - 12 * d - 0
            BY <2>2 DEF Log2Frame, Keeps0
        <3>2. Unsigned(registers[5]) \div 2 \in Word
              /\ Log2[Unsigned(registers[5])] = 1 + Log2[Unsigned(Unsigned(registers[5]) \div 2)]
            BY <1>2, <2>2, Log2OfWord
        <3>3. Log2[Unsigned(Unsigned(registers[5]) \div 2)] \in Nat \ {0}
            BY <3>2, Log2OfWord
        <3> QED
            BY <1>2, <3>1, <3>2, <3>3
    <2>4. Signed(STACK_SIZE - 12 * d - 8) = STACK_SIZE - 12 * d - 8
        <3> DEFINE y == STACK_SIZE - 12 * d - 8
                   lg == Log2[Unsigned(n)]
                   lx == Log2[Unsigned(registers[5])]
        <3>1. 12 * lg <= STACK_SIZE /\ lg \in Nat /\ lx \in Nat /\ lx > 1 /\ lg = (d - 1) + lx
            BY <1>2, <2>2, <2>3, Log2OfWord
        <3>2. y \in Int /\ y >= -4 /\ y <= STACK_SIZE
            <4> HIDE DEF lg, lx
            <4> QED
                BY <1>2, <3>1
        <3> HIDE DEF y
        <3>3. Signed(y) = y
            BY <3>2, StackPointer
        <3> QED
            BY <3>3 DEF y
    <2>5. Sets(10 + 1, 6, STACK_SIZE - 12 * d - 8)
        BY <1>1, <2>1, <2>3, <2>4, SublLine
    <2>6. registers'[6] = STACK_SIZE - 12 * d - 8 /\ registers'[5] = registers[5] /\ On(11)'
          /\ \A r \in {1, 7, 12} : registers'[r] = registers[r]
        BY <1>4, <2>5 DEF Sets, Writes
    <2>7. Log2Frame(n, d, 8)'
        BY <2>2, <2>5, <2>6, Log2Keeps DEF Sets
    <2>8. Log2Down(11, n, d)'
        BY <1>2, <2>2, <2>6, <2>7 DEF Log2Down
    <2> QED
        BY <1>5, <2>1, <2>8, NoRet
<1>11. CASE k = 11
    <2>1. At(11, "shrl", 5, 0, 0)
        BY <1>1, <1>2, <1>11, OnIs DEF Log2Code
    <2> DEFINE u == Unsigned(registers[5])
               h == u \div 2
    <2>2. Log2Frame(n, d, 8) /\ Log2[Unsigned(n)] = (d - 1) + Log2[u] /\ u > 2
        BY <1>11 DEF Log2Down
    <2>3. Sets(11 + 1, 5, h)
        BY <1>1, <2>1, ShrlLine
    <2>4. h \in Word /\ Log2[u] = 1 + Log2[Unsigned(h)]
        BY <1>2, <2>2, Log2OfWord
    <2>5. Log2[Unsigned(h)] \in Nat
        BY <2>4, Log2OfWord
    <2> HIDE DEF u, h
    <2>6. Log2[Unsigned(n)] = d + Log2[Unsigned(h)]
        BY <1>2, <2>2, <2>4, <2>5
    <2>7. registers'[5] = h /\ On(12)'
        BY <1>4, <2>3 DEF Sets, Writes
    <2>8. Log2Frame(n, d, 8)'
        BY <1>6, <2>2, <2>3 DEF Sets
    <2>9. Log2Down(12, n, d)'
        BY <1>2, <2>4, <2>6, <2>7, <2>8 DEF Log2Down
    <2> QED
        BY <1>5, <2>1, <2>9, NoRet
<1>12. CASE k = 12
    <2>1. At(12, "call", 0, 0, -24)
        BY <1>1, <1>2, <1>12, OnIs DEF Log2Code
    <2>2. Log2Frame(n, d, 8) /\ Log2[Unsigned(n)] = d + Log2[Unsigned(registers[5])]
        BY <1>12 DEF Log2Down
    <2> DEFINE e == d + 1
               lg == Log2[Unsigned(n)]
               lx == Log2[Unsigned(registers[5])]
    <2>3. 12 * lg <= STACK_SIZE /\ lg \in Nat /\ lx \in Nat \ {0} /\ lg = d + lx
        BY <1>2, <2>2, Log2OfWord
    <2>4. Keeps0(0, STACK_SIZE - 12 * d - 8) /\ registers[6] = STACK_SIZE - 12 * d - 8
          /\ Log2Words(memory, d) /\ calls = Prefix(Log2Frames, d) /\ scanned = <<n>> /\ printed = <<>>
        BY <2>2 DEF Log2Frame, Keeps0
    <2> HIDE DEF lg, lx
    <2>5. /\ e \in Nat \ {0} /\ e # 1 /\ e <= lg /\ lg = (e - 1) + lx /\ 12 * e <= STACK_SIZE
          /\ registers[6] >= 4 /\ registers[6] <= STACK_SIZE /\ registers[6] >= 0
          /\ registers[6] - 4 = STACK_SIZE - 12 * e /\ STACK_SIZE - 12 * e = STACK_SIZE - 12 * e - 0
          /\ STACK_SIZE - 12 * d - 8 = STACK_SIZE - 12 * e + 4
        BY <1>2, <2>3, <2>4
    <2>6. /\ Goes(7) /\ Writes(6, STACK_SIZE - 12 * e) /\ Stores(STACK_SIZE - 12 * e, 48)
          /\ calls' = Append(calls, [pc |-> 48, kept |-> Kept(registers)])
          /\ UNCHANGED <<scanned, printed, compared>>
        <3>1. CallsFrom(12, 7, 48)
            BY <1>1, <2>1 DEF CallsFrom
        <3>2. /\ Goes(7) /\ Writes(6, registers[6] - 4) /\ Stores(registers[6] - 4, 48)
              /\ calls' = Append(calls, [pc |-> 48, kept |-> Kept(registers)])
              /\ UNCHANGED <<scanned, printed, compared>>
            BY <1>1, <2>5, <3>1, CallLine
        <3> HIDE DEF e
        <3> QED
            BY <2>5, <3>2
    <2>7. Log2Returns(e) = 48
        BY <2>5 DEF Log2Returns
    <2>8. Log2Words(memory', e)
        <3> SUFFICES ASSUME NEW i \in Nat, 1 <= i, i <= e
                     PROVE  WordAt(memory', STACK_SIZE - 12 * i) = Log2Returns(i)
            BY DEF Log2Words
        <3>1. CASE i = e
            BY <2>6, <2>7, <3>1 DEF Stores
        <3>2. CASE i # e
            <4> DEFINE a == STACK_SIZE - 12 * e
                       b == STACK_SIZE - 12 * i
            <4>1. b \in Nat /\ b + 4 <= STACK_SIZE /\ a + 4 <= b /\ i <= d
                BY <1>2, <2>5, <3>2
            <4>2. \A c \in Nat : c + 4 <= STACK_SIZE /\ (c + 4 <= a \/ a + 4 <= c)
                     => WordAt(memory', c) = WordAt(memory, c)
                BY <2>6 DEF Stores
            <4>3. WordAt(memory', b) = WordAt(memory, b)
                <5> HIDE DEF a, b
                <5> QED
                    BY <4>1, <4>2
            <4> QED
                BY <2>4, <4>1, <4>3 DEF Log2Words
        <3> QED
            BY <3>1, <3>2
    <2>9. calls' = Prefix(Log2Frames, e)
        <3>1. Kept(registers) = Saved(0, STACK_SIZE - 12 * e + 4, 0, 0)
            BY <2>4, <2>5, KeptIs DEF Keeps0
        <3>2. Log2Frames[e] = [pc |-> 48, kept |-> Kept(registers)]
            BY <2>5, <2>7, <3>1 DEF Log2Frames
        <3>3. Append(Prefix(Log2Frames, d), Log2Frames[d + 1]) = Prefix(Log2Frames, d + 1)
            BY <1>2, PrefixIs
        <3> QED
            BY <2>4, <2>6, <3>2, <3>3
    <2> HIDE DEF e
    <2>10. Keeps0(0, STACK_SIZE - 12 * e - 0)' /\ registers'[5] = registers[5]
        BY <2>4, <2>5, <2>6 DEF Keeps0, Writes
    <2>11. Log2Frame(n, e, 0)'
        BY <1>2, <2>4, <2>5, <2>6, <2>8, <2>9, <2>10 DEF Log2Frame, lg
    <2>12. Log2Down(7, n, e)'
        BY <1>2, <1>4, <2>5, <2>6, <2>10, <2>11 DEF Log2Down, lg, lx
    <2> QED
        BY <1>5, <2>1, <2>12, NoRet
<1>13. CASE k = 15
    <2>1. At(15, "movl_imm_reg", 0, 0, 1)
        BY <1>1, <1>2, <1>13, OnIs DEF Log2Code
    <2>2. Log2Frame(n, d, 0) /\ Log2[Unsigned(n)] = (d - 1) + Log2[Unsigned(registers[5])]
          /\ Unsigned(registers[5]) <= 2
        BY <1>13 DEF Log2Down
    <2>3. Sets(15 + 1, 0, 1)
        BY <1>1, <2>1, MovlImmLine
    <2>4. Log2[Unsigned(registers[5])] = 1
        BY <1>2, <2>2, Log2OfWord
    <2>5. registers'[0] = 1 /\ On(16)' /\ status' = "running" /\ 1 + (d - 1) = Log2[Unsigned(n)]
        BY <1>2, <1>4, <2>2, <2>3, <2>4 DEF Sets, Writes
    <2>6. Log2Frame(n, d, 0)'
        BY <1>6, <2>2, <2>3 DEF Sets
    <2>7. Log2Up(16, n, d)'
        BY <2>5, <2>6 DEF Log2Up
    <2> QED
        BY <2>1, <2>5, <2>7, NoRet DEF Log2Inv
<1> QED
    BY <1>7, <1>8, <1>9, <1>10, <1>11, <1>12, <1>13

\* ... of the lines that count behind it ...
LEMMA Log2UpStep ==
    ASSUME TestsInv, program = "log2", Next, NEW k \in {13, 14, 17}, NEW n, NEW d, Log2Up(k, n, d)
    PROVE  Log2Inv' /\ Returns
<1>1. Log2Code(instructions) /\ Len(instructions) = 18 /\ Short
    BY Log2Is
<1> DEFINE lg == Log2[Unsigned(n)]
<1>2. /\ On(k) /\ n \in Word /\ d \in Nat \ {0} /\ STACK_SIZE \in Nat /\ STACK_SIZE >= 64
      /\ d <= lg /\ registers[0] \in Nat
      /\ Log2Frame(n, d, 8) /\ registers[6] = STACK_SIZE - 12 * d - 8
      /\ registers[0] + (IF k = 13 THEN d ELSE d - 1) = lg
    BY Machine DEF Log2Up, Log2Frame, Keeps0
<1>3. lg \in Nat /\ 12 * lg <= STACK_SIZE
    BY <1>2, Log2OfWord
<1> HIDE DEF lg
<1>4. 12 * d <= STACK_SIZE /\ registers[0] <= lg
    BY <1>2, <1>3
<1>5. ASSUME NEW j \in {14, 17, 18}, Goes(j) PROVE On(j)' /\ status' = "running"
    BY <1>1, <1>5, GoesOn DEF Goes
<1>6. CASE k = 13
    <2>1. At(13, "addl_imm_reg", 0, 0, 1)
        BY <1>1, <1>2, <1>6, OnIs DEF Log2Code
    <2>2. Signed(registers[0] + 1) = registers[0] + 1
        <3>1. registers[0] + 1 \in Int /\ registers[0] + 1 >= -4 /\ registers[0] + 1 <= STACK_SIZE
            BY <1>2, <1>3, <1>4
        <3> QED
            BY <3>1, StackPointer
    <2>3. Sets(13 + 1, 0, registers[0] + 1)
        BY <1>1, <2>1, <2>2, AddlImmLine
    <2>4. registers'[0] = registers[0] + 1 /\ registers'[6] = registers[6]
          /\ \A r \in {1, 7, 12} : registers'[r] = registers[r]
        BY <2>3 DEF Sets, Writes
    <2>5. Log2Frame(n, d, 8)'
        BY <1>2, <2>3, <2>4, Log2Keeps DEF Sets
    <2>6. On(14)' /\ status' = "running"
        BY <1>5, <2>3 DEF Sets
    <2>7. registers'[0] \in Nat /\ registers'[0] + (d - 1) = lg
        BY <1>2, <1>3, <1>6, <2>4
    <2>8. Log2Up(14, n, d)'
        BY <2>5, <2>6, <2>7 DEF Log2Up, lg
    <2> QED
        BY <2>1, <2>6, <2>8, NoRet DEF Log2Inv
<1>7. CASE k = 14
    <2>1. At(14, "jmp", 0, 0, 8)
        BY <1>1, <1>2, <1>7, OnIs DEF Log2Code
    <2>2. Registers(17, registers)
        <3>1. 17 \in Nat \ {0} /\ 17 <= Len(instructions) /\ 8 = 4 * (17 - 14 - 1)
            BY <1>1
        <3> QED
            BY <1>1, <2>1, <3>1, JmpLine
    <2>3. UNCHANGED <<registers, memory, scanned, printed, calls>> /\ On(17)' /\ status' = "running"
        BY <1>5, <2>2 DEF Registers
    <2>4. registers'[6] = STACK_SIZE - 12 * d - 8 /\ \A r \in {1, 7, 12} : registers'[r] = registers[r]
        BY <1>2, <2>3
    <2>5. Log2Frame(n, d, 8)'
        BY <1>2, <2>3, <2>4, Log2Keeps
    <2>6. Log2Up(17, n, d)'
        BY <1>2, <1>7, <2>3, <2>5 DEF Log2Up, lg
    <2> QED
        BY <2>1, <2>3, <2>6, NoRet DEF Log2Inv
<1>8. CASE k = 17
    <2>1. At(17, "addl_imm_reg", 6, 0, 8)
        BY <1>1, <1>2, <1>8, OnIs DEF Log2Code
    <2> DEFINE s == STACK_SIZE - 12 * d
    <2>2. registers[6] + 8 = s /\ s \in Int /\ s >= -4 /\ s <= STACK_SIZE /\ s = STACK_SIZE - 12 * d - 0
        BY <1>2, <1>4
    <2> HIDE DEF s
    <2>3. Signed(s) = s
        BY <2>2, StackPointer
    <2>4. Sets(17 + 1, 6, s)
        BY <1>1, <2>1, <2>2, <2>3, AddlImmLine
    <2>5. registers'[0] = registers[0] /\ registers'[6] = s
          /\ \A r \in {1, 7, 12} : registers'[r] = registers[r]
        BY <2>4 DEF Sets, Writes
    <2>6. Log2Frame(n, d, 0)'
        BY <1>2, <2>2, <2>4, <2>5, Log2Keeps DEF Sets
    <2>7. On(18)' /\ status' = "running"
        BY <1>5, <2>4 DEF Sets
    <2>8. Log2Up(18, n, d)'
        BY <1>2, <1>8, <2>5, <2>6, <2>7 DEF Log2Up, lg
    <2> QED
        BY <2>1, <2>7, <2>8, NoRet DEF Log2Inv
<1> QED
    BY <1>6, <1>7, <1>8

\* ... and of the two rets.
LEMMA Log2LeaveStep ==
    ASSUME TestsInv, program = "log2", Next, NEW k \in {16, 18}, NEW n, NEW d, Log2Up(k, n, d)
    PROVE  Log2Inv' /\ Returns
<1>1. Log2Code(instructions) /\ Len(instructions) = 18 /\ Short
    BY Log2Is
<1> DEFINE lg == Log2[Unsigned(n)]
<1>2. /\ On(k) /\ n \in Word /\ d \in Nat \ {0} /\ STACK_SIZE \in Nat /\ STACK_SIZE >= 64
      /\ d <= lg /\ registers[0] \in Nat /\ Log2Words(memory, d)
      /\ calls = Prefix(Log2Frames, d) /\ Keeps0(0, STACK_SIZE - 12 * d - 0)
      /\ registers[0] + (d - 1) = lg /\ scanned = <<n>> /\ printed = <<>>
    BY Machine DEF Log2Up, Log2Frame
<1>3. lg \in Nat /\ 12 * lg <= STACK_SIZE
    BY <1>2, Log2OfWord
<1> HIDE DEF lg
<1>4. 12 * d <= STACK_SIZE /\ registers[6] = STACK_SIZE - 12 * d
    BY <1>2, <1>3 DEF Keeps0
<1>5. At(k, "ret", 0, 0, 0)
    BY <1>1, <1>2, OnIs DEF Log2Code
<1> DEFINE j == IF d = 1 THEN 4 ELSE 13
           e == d - 1
<1>6. /\ Goes(j) /\ Writes(6, STACK_SIZE - 12 * d + 4)
      /\ calls' = IF calls = <<>> THEN <<>> ELSE SubSeq(calls, 1, Len(calls) - 1)
      /\ UNCHANGED <<memory, scanned, printed, compared>>
    <2>1. j \in Nat \ {0} /\ j <= Len(instructions) /\ Log2Returns(d) = 4 * (j - 1)
        BY <1>1 DEF Log2Returns
    <2>2. registers[6] >= 0 /\ registers[6] + 4 <= STACK_SIZE
        BY <1>2, <1>4
    <2> HIDE DEF j
    <2>3. WordAt(memory, registers[6]) = 4 * (j - 1)
        BY <1>2, <1>4, <2>1 DEF Log2Words
    <2>4. /\ Goes(j) /\ Writes(6, registers[6] + 4)
          /\ calls' = IF calls = <<>> THEN <<>> ELSE SubSeq(calls, 1, Len(calls) - 1)
          /\ UNCHANGED <<memory, scanned, printed, compared>>
        BY <1>1, <1>5, <2>1, <2>2, <2>3, RetLine
    <2> QED
        BY <1>4, <2>4
<1>7. e \in Nat /\ d = e + 1
    BY <1>2
<1>8. /\ calls # <<>> /\ Len(calls) = d /\ calls[d] = Log2Frames[d]
      /\ SubSeq(calls, 1, d - 1) = Prefix(Log2Frames, e) /\ Prefix(Log2Frames, 0) = <<>>
    <2> HIDE DEF e
    <2>1. /\ Prefix(Log2Frames, e + 1) # <<>> /\ Len(Prefix(Log2Frames, e + 1)) = e + 1
          /\ Prefix(Log2Frames, e + 1)[e + 1] = Log2Frames[e + 1]
          /\ SubSeq(Prefix(Log2Frames, e + 1), 1, (e + 1) - 1) = Prefix(Log2Frames, e)
          /\ Prefix(Log2Frames, 0) = <<>>
        BY <1>7, PrefixIs
    <2> QED
        BY <1>2, <1>7, <2>1
<1>9. calls' = Prefix(Log2Frames, e)
    BY <1>6, <1>8
<1>10. Keeps0(0, STACK_SIZE - 12 * d + 4)' /\ registers'[0] = registers[0]
    BY <1>2, <1>6 DEF Keeps0, Writes
<1>11. program_counter' = Log2Returns(d) /\ status' = "running" /\ On(j)'
    <2>1. j \in Nat \ {0} /\ j <= Len(instructions) /\ Log2Returns(d) = 4 * (j - 1)
          /\ j # Len(instructions) + 1
        BY <1>1 DEF Log2Returns
    <2> HIDE DEF j
    <2> QED
        BY <1>1, <1>6, <2>1, GoesOn DEF Goes
<1>12. Returns
    <2>1. Log2Frames[d] = [pc |-> Log2Returns(d), kept |-> Saved(0, STACK_SIZE - 12 * d + 4, 0, 0)]
        BY <1>2 DEF Log2Frames
    <2>2. Kept(registers') = Saved(0, STACK_SIZE - 12 * d + 4, 0, 0)
        BY <1>10, KeptIs DEF Keeps0
    <2>3. registers[ESP] # STACK_SIZE
        BY <1>2, <1>4 DEF ESP
    <2> QED
        BY <1>8, <1>11, <2>1, <2>2, <2>3 DEF Returns
<1>13. CASE d = 1
    <2>1. calls' = <<>> /\ Keeps0(0, STACK_SIZE - 8)' /\ On(4)' /\ registers'[0] = lg
        <3>1. e = 0 /\ STACK_SIZE - 12 * d + 4 = STACK_SIZE - 8 /\ registers[0] = lg /\ j = 4
            BY <1>2, <1>13
        <3> QED
            BY <1>8, <1>9, <1>10, <1>11, <3>1
    <2>2. scanned' = <<n>> /\ printed' = <<>> /\ program' = "log2"
        BY <1>2, <1>6, NextDoes DEF Executes
    <2>3. Result(n)' = lg
        BY <2>2 DEF Result, lg
    <2>4. MainAt(4)'
        BY <1>2, <2>1, <2>2, <2>3 DEF MainAt, Result
    <2> QED
        BY <1>11, <1>12, <2>4 DEF Log2Inv
<1>14. CASE d # 1
    <2>1. e \in Nat \ {0} /\ STACK_SIZE - 12 * d + 4 = STACK_SIZE - 12 * e - 8
          /\ registers[0] + e = lg /\ j = 13 /\ e <= lg
        BY <1>2, <1>3, <1>14
    <2>2. Keeps0(0, STACK_SIZE - 12 * e - 8)' /\ On(13)' /\ registers'[0] = registers[0]
        BY <1>10, <1>11, <2>1
    <2>3. Log2Words(memory', e)
        <3>1. \A i \in Nat : i <= e => i <= d
            BY <1>7
        <3> QED
            BY <1>2, <1>6, <3>1 DEF Log2Words
    <2> HIDE DEF e
    <2>4. Log2Frame(n, e, 8)'
        BY <1>2, <1>6, <1>9, <2>1, <2>2, <2>3 DEF Log2Frame, lg
    <2>5. Log2Up(13, n, e)'
        BY <1>2, <2>1, <2>2, <2>4 DEF Log2Up, lg
    <2> QED
        BY <1>11, <1>12, <2>5 DEF Log2Inv
<1> QED
    BY <1>13, <1>14

\* The run of log2 begins where Log2Inv says ...
LEMMA Log2Start == ASSUME Init, TestsInv, program = "log2" PROVE Log2Inv
<1>1. Len(instructions) = 18
    BY Log2Is
<1>2. MainAt(1)
    BY <1>1, MainStart
<1> QED
    BY <1>2 DEF Log2Inv, MainAt, On

\* ... and stays there.
LEMMA Log2Step ==
    ASSUME TestsInv, Log2Inv, Next, program = "log2"
    PROVE  Log2Inv' /\ Returns
<1>1. \/ \E k \in 1 .. 6 : MainAt(k)
      \/ \E n, d : \/ \E k \in {7, 8, 9, 10, 11, 12, 15} : Log2Down(k, n, d)
                   \/ \E k \in {13, 14, 16, 17, 18} : Log2Up(k, n, d)
    BY NextDoes DEF Log2Inv
<1>2. CASE \E k \in 1 .. 6 : MainAt(k)
    BY <1>2, Log2MainStep
<1>3. CASE \E n, d : \E k \in {7, 8, 9, 10, 11, 12, 15} : Log2Down(k, n, d)
    BY <1>3, Log2DownStep
<1>4. CASE \E n, d : \E k \in {13, 14, 16, 17, 18} : Log2Up(k, n, d)
    BY <1>4, Log2UpStep, Log2LeaveStep
<1> QED
    BY <1>1, <1>2, <1>3, <1>4

-----------------------------------------------------------------------------
(* sort.s.                                                                 *)

Three(s) == s = <<s[1], s[2], s[3]>> /\ s[1] \in Word /\ s[2] \in Word /\ s[3] \in Word

\* The array holds the numbers read, in some order.
Shuffled(c, s) ==
    \/ c[0] = s[1] /\ c[1] = s[2] /\ c[2] = s[3]
    \/ c[0] = s[1] /\ c[1] = s[3] /\ c[2] = s[2]
    \/ c[0] = s[2] /\ c[1] = s[1] /\ c[2] = s[3]
    \/ c[0] = s[2] /\ c[1] = s[3] /\ c[2] = s[1]
    \/ c[0] = s[3] /\ c[1] = s[1] /\ c[2] = s[2]
    \/ c[0] = s[3] /\ c[1] = s[2] /\ c[2] = s[1]

Excused(how, s) == how = "wraps" /\ {0, INT_MIN} \subseteq {s[i] : i \in DOMAIN s}

\* The first i numbers are where they belong; number m is the least from i on, of
\* those before j.
LeftSorted(how, s, c, i) ==
    Excused(how, s) \/ \A q, r \in 0 .. 2 : q < i /\ q < r => c[q] <= c[r]
LeastFrom(how, s, c, i, m, j) ==
    Excused(how, s) \/ \A q \in 0 .. 2 : i <= q /\ q < j => c[m] <= c[q]

Swapped(c, i, m) == [q \in 0 .. 2 |-> IF q = m THEN c[i] ELSE IF q = i THEN c[m] ELSE c[q]]

\* The words of the array, and what the calls have pushed below it.
ArrayIs(m, c) == \A q \in 0 .. 2 : WordAt(m, STACK_SIZE - 32 + 4 * q) = c[q]
Pushed(m, n) ==
    /\ n >= 1 => WordAt(m, STACK_SIZE - 36) = 40
    /\ n >= 2 => WordAt(m, STACK_SIZE - 40) = 0
    /\ n >= 3 => WordAt(m, STACK_SIZE - 44) = 0
    /\ n >= 4 => WordAt(m, STACK_SIZE - 48) = 0
    /\ n >= 5 => WordAt(m, STACK_SIZE - 52) = 248

\* Swapping the least of the rest to the front of it sorts one number more.
LEMMA SwapSorts ==
    ASSUME NEW c \in [0 .. 2 -> Word], NEW i \in 0 .. 2, NEW m \in i .. 2, NEW s, NEW how,
           Shuffled(c, s), LeftSorted(how, s, c, i), LeastFrom(how, s, c, i, m, 3)
    PROVE  /\ Swapped(c, i, m) \in [0 .. 2 -> Word] /\ Shuffled(Swapped(c, i, m), s)
           /\ LeftSorted(how, s, Swapped(c, i, m), i + 1)
<1> DEFINE d == Swapped(c, i, m)
<1>1. /\ d \in [0 .. 2 -> Word] /\ m \in 0 .. 2 /\ m >= i
      /\ \A q \in 0 .. 2 : d[q] = IF q = m THEN c[i] ELSE IF q = i THEN c[m] ELSE c[q]
    BY DEF Swapped
<1>2. c[0] \in Int /\ c[1] \in Int /\ c[2] \in Int
    BY Width DEF Word
<1>3. /\ i = 0 \/ i = 1 \/ i = 2
      /\ m = 0 \/ m = 1 \/ m = 2
    BY <1>1
<1> HIDE DEF d
<1>4. Shuffled(d, s)
    BY <1>1, <1>3 DEF Shuffled
<1>5. LeftSorted(how, s, d, i + 1)
    <2>1. CASE Excused(how, s)
        BY <2>1 DEF LeftSorted
    <2>2. CASE ~Excused(how, s)
        <3>1. \A q, r \in 0 .. 2 : q < i /\ q < r => c[q] <= c[r]
            BY <2>2 DEF LeftSorted
        <3>2. \A q \in 0 .. 2 : i <= q /\ q < 3 => c[m] <= c[q]
            BY <2>2 DEF LeastFrom
        <3>3. /\ i >= 1 => c[0] <= c[1] /\ c[0] <= c[2]
              /\ i = 2 => c[1] <= c[2]
              /\ c[m] <= c[2] /\ (i <= 1 => c[m] <= c[1]) /\ (i = 0 => c[m] <= c[0])
            BY <1>3, <3>1, <3>2
        <3>4. d[0] <= d[1] /\ d[0] <= d[2] /\ (i >= 1 => d[1] <= d[2])
            BY <1>1, <1>2, <1>3, <3>3
        <3>5. \A q, r \in 0 .. 2 : q < i + 1 /\ q < r => d[q] <= d[r]
            BY <1>3, <3>4
        <3> QED
            BY <3>5 DEF LeftSorted
    <2> QED
        BY <2>1, <2>2
<1> QED
    BY <1>1, <1>4, <1>5 DEF d

\* How many of three places are in a set.
One1(b) == IF b THEN 1 ELSE 0
\* How many of three indices are in a set.
LEMMA CountOfThree ==
    ASSUME NEW S \in SUBSET (1 .. 3)
    PROVE  Cardinality(S) = One1(1 \in S) + One1(2 \in S) + One1(3 \in S)
<1> DEFINE S1 == S \ {1}
           S2 == S1 \ {2}
           S3 == S2 \ {3}
<1>1. IsFiniteSet(S) /\ IsFiniteSet(S1) /\ IsFiniteSet(S2)
    <2>1. IsFiniteSet(1 .. 3)
        <3> DEFINE three == 3
        <3>1. three \in Int /\ 1 .. three = 1 .. 3
            OBVIOUS
        <3> HIDE DEF three
        <3>2. IsFiniteSet(1 .. three)
            BY <3>1, FS_Interval
        <3> QED
            BY <3>1, <3>2
    <2>2. S1 \subseteq 1 .. 3 /\ S2 \subseteq 1 .. 3
        OBVIOUS
    <2> QED
        BY <2>1, <2>2, FS_Subset
<1>2. S3 = {} /\ (2 \in S1 <=> 2 \in S) /\ (3 \in S2 <=> 3 \in S)
    OBVIOUS
<1>3. Cardinality(S3) = 0
    BY <1>2, FS_EmptySet
<1>4. Cardinality(S) \in Nat /\ Cardinality(S1) \in Nat /\ Cardinality(S2) \in Nat
    BY <1>1, FS_CardinalityType
<1>5. /\ Cardinality(S1) = IF 1 \in S THEN Cardinality(S) - 1 ELSE Cardinality(S)
      /\ Cardinality(S2) = IF 2 \in S1 THEN Cardinality(S1) - 1 ELSE Cardinality(S1)
      /\ Cardinality(S3) = IF 3 \in S2 THEN Cardinality(S2) - 1 ELSE Cardinality(S2)
    <2>1. Cardinality(S1) = IF 1 \in S THEN Cardinality(S) - 1 ELSE Cardinality(S)
        BY <1>1, FS_RemoveElement
    <2>2. Cardinality(S2) = IF 2 \in S1 THEN Cardinality(S1) - 1 ELSE Cardinality(S1)
        <3> HIDE DEF S1
        <3> QED
            BY <1>1, FS_RemoveElement
    <2>3. Cardinality(S3) = IF 3 \in S2 THEN Cardinality(S2) - 1 ELSE Cardinality(S2)
        <3> HIDE DEF S2
        <3> QED
            BY <1>1, FS_RemoveElement
    <2> QED
        BY <2>1, <2>2, <2>3
<1> HIDE DEF S1, S2, S3
<1> QED
    BY <1>2, <1>3, <1>4, <1>5 DEF One1

\* The array holds each number as often as it was read.
LEMMA ShuffledIsPermuted ==
    ASSUME NEW c, NEW s, Three(s), Shuffled(c, s), NEW t, t = <<c[0], c[1], c[2]>>
    PROVE  Permuted(s, t)
<1>1. /\ DOMAIN s = 1 .. 3 /\ Len(s) = 3 /\ DOMAIN t = 1 .. 3 /\ Len(t) = 3
      /\ t[1] = c[0] /\ t[2] = c[1] /\ t[3] = c[2]
    <2>1. \A x, y, z : DOMAIN <<x, y, z>> = 1 .. 3 /\ Len(<<x, y, z>>) = 3
        OBVIOUS
    <2>2. s = <<s[1], s[2], s[3]>>
        BY DEF Three
    <2> QED
        BY <2>1, <2>2
<1>2. ASSUME NEW val
      PROVE  Cardinality({i \in DOMAIN s : s[i] = val}) = Cardinality({i \in DOMAIN t : t[i] = val})
    <2> DEFINE S == {i \in DOMAIN s : s[i] = val}
               T == {i \in DOMAIN t : t[i] = val}
    <2>1. /\ S \in SUBSET (1 .. 3) /\ T \in SUBSET (1 .. 3)
          /\ (1 \in S <=> s[1] = val) /\ (2 \in S <=> s[2] = val) /\ (3 \in S <=> s[3] = val)
          /\ (1 \in T <=> c[0] = val) /\ (2 \in T <=> c[1] = val) /\ (3 \in T <=> c[2] = val)
        BY <1>1
    <2> HIDE DEF S, T
    <2>2. /\ Cardinality(S) = One1(1 \in S) + One1(2 \in S) + One1(3 \in S)
          /\ Cardinality(T) = One1(1 \in T) + One1(2 \in T) + One1(3 \in T)
        BY <2>1, CountOfThree
    <2>3. Cardinality(S) = Cardinality(T)
        BY <2>1, <2>2 DEF Shuffled, One1
    <2> QED
        BY <2>3 DEF S, T
<1> QED
    BY <1>1, <1>2 DEF Permuted

\* When all of it is sorted it is in ascending order, but for the pair that cmpl
\* gets wrong.
LEMMA LeftSortedIsAscending ==
    ASSUME NEW how, NEW s, NEW c, LeftSorted(how, s, c, 3), ~Excused(how, s),
           NEW t, t = <<c[0], c[1], c[2]>>, c[0] \in Word, c[1] \in Word, c[2] \in Word
    PROVE  Ascending(t)
<1>1. DOMAIN t = 1 .. 3 /\ t[1] = c[0] /\ t[2] = c[1] /\ t[3] = c[2]
    OBVIOUS
<1>2. c[0] <= c[1] /\ c[0] <= c[2] /\ c[1] <= c[2]
    BY DEF LeftSorted
<1> QED
    BY <1>1, <1>2 DEF Ascending

\* At most two calls are under way.
LEMMA CallsAre ==
    ASSUME NEW a, NEW b
    PROVE  /\ Append(<<>>, a) = <<a>> /\ <<a>> # <<>> /\ Len(<<a>>) = 1 /\ <<a>>[1] = a
           /\ SubSeq(<<a>>, 1, 1 - 1) = <<>>
           /\ Append(<<a>>, b) = <<a, b>> /\ <<a, b>> # <<>> /\ Len(<<a, b>>) = 2 /\ <<a, b>>[2] = b
           /\ SubSeq(<<a, b>>, 1, 2 - 1) = <<a>>
<1> DEFINE f == [i \in Nat |-> IF i = 1 THEN a ELSE b]
<1>1. f[1] = a /\ f[2] = b /\ f[0 + 1] = a /\ f[1 + 1] = b
    OBVIOUS
<1>2. Prefix(f, 1) = <<a>> /\ Prefix(f, 2) = <<a, b>>
    <2> HIDE DEF f
    <2> QED
        BY <1>1 DEF Prefix
<1> HIDE DEF f
<1>3. /\ Prefix(f, 0) = <<>> /\ Append(Prefix(f, 0), f[0 + 1]) = Prefix(f, 0 + 1)
      /\ Prefix(f, 0 + 1) # <<>> /\ Len(Prefix(f, 0 + 1)) = 0 + 1
      /\ Prefix(f, 0 + 1)[0 + 1] = f[0 + 1] /\ SubSeq(Prefix(f, 0 + 1), 1, (0 + 1) - 1) = Prefix(f, 0)
    BY PrefixIs
<1>4. /\ Append(Prefix(f, 1), f[1 + 1]) = Prefix(f, 1 + 1)
      /\ Prefix(f, 1 + 1) # <<>> /\ Len(Prefix(f, 1 + 1)) = 1 + 1
      /\ Prefix(f, 1 + 1)[1 + 1] = f[1 + 1] /\ SubSeq(Prefix(f, 1 + 1), 1, (1 + 1) - 1) = Prefix(f, 1)
    BY PrefixIs
<1>5. /\ Append(<<>>, a) = <<a>> /\ <<a>> # <<>> /\ Len(<<a>>) = 1 /\ <<a>>[1] = a
      /\ SubSeq(<<a>>, 1, 1 - 1) = <<>>
    BY <1>1, <1>2, <1>3
<1> DEFINE p == <<a>>
           q == <<a, b>>
<1>6. Append(p, b) = q /\ q # <<>> /\ Len(q) = 2 /\ q[2] = b /\ SubSeq(q, 1, 2 - 1) = p
    <2>1. Prefix(f, 1) = p /\ Prefix(f, 2) = q
        BY <1>2
    <2> HIDE DEF p, q
    <2> QED
        BY <1>1, <1>4, <2>1
<1> QED
    BY <1>5, <1>6

\* The sequences of up to three numbers read and printed.
LEMMA AppendsAre ==
    ASSUME NEW a, NEW b, NEW d
    PROVE  /\ Append(<<>>, a) = <<a>> /\ Append(<<a>>, b) = <<a, b>>
           /\ Append(<<a, b>>, d) = <<a, b, d>>
<1> DEFINE f == [i \in Nat |-> IF i = 1 THEN a ELSE IF i = 2 THEN b ELSE d]
<1>1. f[1] = a /\ f[2] = b /\ f[3] = d /\ f[2 + 1] = d
    OBVIOUS
<1>2. Prefix(f, 2) = <<a, b>> /\ Prefix(f, 3) = <<a, b, d>>
    <2> HIDE DEF f
    <2> QED
        BY <1>1 DEF Prefix
<1> HIDE DEF f
<1>3. Append(Prefix(f, 2), f[2 + 1]) = Prefix(f, 2 + 1)
    BY PrefixIs
<1> DEFINE p == <<a, b>>
           q == <<a, b, d>>
<1>4. Append(p, d) = q
    <2>1. Prefix(f, 2) = p /\ Prefix(f, 3) = q
        BY <1>2
    <2> HIDE DEF p, q
    <2> QED
        BY <1>1, <1>3, <2>1
<1> QED
    BY <1>4, CallsAre

-----------------------------------------------------------------------------
(* sort.s reads the numbers ...                                            *)

\* main before the call, with the numbers it has read and those in the array.
SortRead(k) ==
    /\ On(k) /\ calls = <<>> /\ printed = <<>>
    /\ Keeps0(0, IF k = 1 THEN STACK_SIZE ELSE STACK_SIZE - 32)
    /\ k \in {1, 2} => scanned = <<>>
    /\ k \in {3, 4} => scanned = <<scanned[1]>> /\ scanned[1] \in Word
    /\ k \in {5, 6} => scanned = <<scanned[1], scanned[2]>> /\ scanned[1] \in Word /\ scanned[2] \in Word
    /\ k \in {7, 8, 9, 10} => Three(scanned)
    /\ k = 3 => registers[8] = scanned[1]
    /\ k = 5 => registers[8] = scanned[2]
    /\ k = 7 => registers[8] = scanned[3]
    /\ k \in {4, 5, 6, 7, 8, 9, 10} => WordAt(memory, STACK_SIZE - 32) = scanned[1]
    /\ k \in {6, 7, 8, 9, 10} => WordAt(memory, STACK_SIZE - 28) = scanned[2]
    /\ k \in {8, 9, 10} => WordAt(memory, STACK_SIZE - 24) = scanned[3]
    /\ k \in {9, 10} => registers[4] = 3
    /\ k = 10 => registers[5] = STACK_SIZE - 32

\* The call of sort, and what it leaves alone: the array a holds the numbers c, the
\* calls f are under way, and n words are pushed.
SortCall == [pc |-> 40, kept |-> Saved(0, STACK_SIZE - 32, 0, 0)]
SortFrame(c, a, n, b, p, f) ==
    /\ Three(scanned) /\ printed = <<>>
    /\ c \in [0 .. 2 -> Word] /\ Shuffled(c, scanned)
    /\ ArrayIs(memory, a) /\ Pushed(memory, n) /\ calls = f
    /\ registers[1] = b /\ registers[6] = STACK_SIZE - 32 - 4 * n /\ registers[7] = p

\* The first lines of sort.
SortEnter(k, c) ==
    /\ On(k)
    /\ SortFrame(c, c, IF k = 30 THEN 1 ELSE IF k = 31 THEN 2 ELSE IF k = 32 THEN 3 ELSE 4,
                 IF k \in {38, 39} THEN STACK_SIZE - 32 ELSE 0,
                 IF k \in {30, 31, 32, 33} THEN 0 ELSE 3, <<SortCall>>)
    /\ k = 30 => registers[12] = 0
    /\ k \in {30, 31, 32, 33, 34, 35, 36, 37} => registers[5] = STACK_SIZE - 32
    /\ k \in {30, 31, 32, 33, 34, 35} => registers[4] = 3
    /\ k = 35 => registers[8] = 1
    /\ k = 36 => compared = <<1, 3>>
    /\ k = 39 => registers[4] = 0

\* The last ones.
SortLeave(k, c) ==
    /\ On(k) /\ LeftSorted(build, scanned, c, 3)
    /\ SortFrame(c, c, IF k = 66 THEN 4 ELSE IF k = 67 THEN 3 ELSE IF k = 68 THEN 2 ELSE 1,
                 IF k = 66 THEN STACK_SIZE - 32 ELSE 0,
                 IF k \in {66, 67} THEN 3 ELSE 0, <<SortCall>>)
    /\ k = 69 => registers[12] = 0

\* main behind the call, with the numbers it has printed.
SortPrint(k, c) ==
    /\ On(k) /\ calls = <<>>
    /\ Keeps0(0, IF k = 18 THEN STACK_SIZE ELSE STACK_SIZE - 32)
    /\ Three(scanned) /\ c \in [0 .. 2 -> Word] /\ Shuffled(c, scanned)
    /\ LeftSorted(build, scanned, c, 3) /\ ArrayIs(memory, c)
    /\ k = 12 => registers[8] = c[0]
    /\ k = 14 => registers[8] = c[1]
    /\ k = 16 => registers[8] = c[2]
    /\ k \in {11, 12} => printed = <<>>
    /\ k \in {13, 14} => printed = <<c[0]>>
    /\ k \in {15, 16} => printed = <<c[0], c[1]>>
    /\ k \in {17, 18} => printed = <<c[0], c[1], c[2]>>

\* A step of the lines that read the three numbers and call sort ...
LEMMA SortReadStep ==
    ASSUME TestsInv, program = "sort", Next, NEW k \in 1 .. 10, SortRead(k)
    PROVE  /\ Returns
           /\ k < 10 => SortRead(k + 1)'
           /\ k = 10 => \E c : SortEnter(30, c)'
<1>1. SortCode(instructions) /\ Len(instructions) = 69 /\ Short /\ STACK_SIZE \in Nat /\ STACK_SIZE >= 64
      /\ WORD = 4
    BY SortIs, Machine
<1>2. On(k)
    BY DEF SortRead
<1>3. ASSUME NEW j \in 2 .. 10, Goes(j) PROVE On(j)'
    BY <1>1, <1>3, GoesOn
<1>4. CASE k = 1
    <2>1. At(1, "subl", 6, 0, 32)
        BY <1>1, <1>2, <1>4, OnIs DEF SortCode
    <2>2. registers[6] = STACK_SIZE
        BY <1>4 DEF SortRead, Keeps0
    <2>3. Sets(1 + 1, 6, Signed(STACK_SIZE - 32)) /\ Signed(STACK_SIZE - 32) = STACK_SIZE - 32
        BY <1>1, <2>1, <2>2, SublLine, StackPointer
    <2>4. On(2)' /\ Keeps0(0, STACK_SIZE - 32)'
        BY <1>3, <1>4, <2>3 DEF Sets, Writes, SortRead, Keeps0
    <2>5. SortRead(2)'
        BY <1>4, <2>3, <2>4 DEF Sets, SortRead
    <2> QED
        BY <1>4, <2>1, <2>5, NoRet
<1>5. CASE k = 2
    <2>1. At(2, "readr", 8, 0, 0)
        BY <1>1, <1>2, <1>5, OnIs DEF SortCode
    <2>2. PICK v : v \in Word /\ Writes(8, v) /\ scanned' = Append(scanned, v)
        BY <1>1, <2>1, ReadrLine
    <2>3. Goes(2 + 1) /\ UNCHANGED <<memory, printed, calls>>
        BY <1>1, <2>1, ReadrLine
    <2>4. scanned' = <<v>>
        <3>1. scanned = <<>>
            BY <1>5 DEF SortRead
        <3> QED
            BY <2>2, <3>1, AppendsAre
    <2>5. On(3)' /\ registers'[8] = v /\ scanned'[1] = v
        BY <1>3, <2>2, <2>3, <2>4 DEF Writes
    <2>6. Keeps0(0, STACK_SIZE - 32)'
        BY <1>5, <2>2 DEF SortRead, Keeps0, Writes
    <2>7. SortRead(3)'
        BY <1>5, <2>2, <2>3, <2>4, <2>5, <2>6 DEF SortRead, Three
    <2> QED
        BY <1>5, <2>1, <2>7, NoRet
<1>6. CASE k = 4
    <2>1. At(4, "readr", 8, 0, 0)
        BY <1>1, <1>2, <1>6, OnIs DEF SortCode
    <2>2. PICK v : v \in Word /\ Writes(8, v) /\ scanned' = Append(scanned, v)
        BY <1>1, <2>1, ReadrLine
    <2>3. Goes(4 + 1) /\ UNCHANGED <<memory, printed, calls>>
        BY <1>1, <2>1, ReadrLine
    <2>4. scanned' = <<scanned[1], v>>
        <3>1. scanned = <<scanned[1]>>
            BY <1>6 DEF SortRead
        <3> QED
            BY <2>2, <3>1, AppendsAre
    <2>5. On(5)' /\ registers'[8] = v /\ scanned'[2] = v /\ scanned'[1] = scanned[1]
        BY <1>3, <2>2, <2>3, <2>4 DEF Writes
    <2>6. Keeps0(0, STACK_SIZE - 32)'
        BY <1>6, <2>2 DEF SortRead, Keeps0, Writes
    <2>7. SortRead(5)'
        BY <1>6, <2>2, <2>3, <2>4, <2>5, <2>6 DEF SortRead, Three
    <2> QED
        BY <1>6, <2>1, <2>7, NoRet
<1>7. CASE k = 6
    <2>1. At(6, "readr", 8, 0, 0)
        BY <1>1, <1>2, <1>7, OnIs DEF SortCode
    <2>2. PICK v : v \in Word /\ Writes(8, v) /\ scanned' = Append(scanned, v)
        BY <1>1, <2>1, ReadrLine
    <2>3. Goes(6 + 1) /\ UNCHANGED <<memory, printed, calls>>
        BY <1>1, <2>1, ReadrLine
    <2>4. scanned' = <<scanned[1], scanned[2], v>>
        <3>1. scanned = <<scanned[1], scanned[2]>>
            BY <1>7 DEF SortRead
        <3> QED
            BY <2>2, <3>1, AppendsAre
    <2>5. On(7)' /\ registers'[8] = v /\ scanned'[3] = v /\ scanned'[1] = scanned[1]
          /\ scanned'[2] = scanned[2]
        BY <1>3, <2>2, <2>3, <2>4 DEF Writes
    <2>6. Keeps0(0, STACK_SIZE - 32)'
        BY <1>7, <2>2 DEF SortRead, Keeps0, Writes
    <2>7. SortRead(7)'
        BY <1>7, <2>2, <2>3, <2>4, <2>5, <2>6 DEF SortRead, Three
    <2> QED
        BY <1>7, <2>1, <2>7, NoRet
<1>8. CASE k = 3
    <2>1. At(3, "movl_reg_deref", 8, 6, 0)
        BY <1>1, <1>2, <1>8, OnIs DEF SortCode
    <2>2. registers[6] + 0 = STACK_SIZE - 32 /\ registers[8] = scanned[1] /\ OnStack(STACK_SIZE - 32)
        BY <1>1, <1>8 DEF SortRead, Keeps0, OnStack
    <2>3. /\ Goes(3 + 1) /\ Stores(STACK_SIZE - 32, scanned[1])
          /\ UNCHANGED <<registers, scanned, printed, compared, calls>>
        BY <1>1, <2>1, <2>2, StoreLine
    <2>4. WordAt(memory', STACK_SIZE - 32) = scanned[1]
        BY <1>1, <1>8, <2>3 DEF SortRead, Stores
    <2>5. On(4)'
        BY <1>3, <2>3
    <2>6. SortRead(4)'
        BY <1>8, <2>3, <2>4, <2>5 DEF SortRead, Keeps0
    <2> QED
        BY <1>8, <2>1, <2>6, NoRet
<1>9. CASE k = 5
    <2>1. At(5, "movl_reg_deref", 8, 6, 4)
        BY <1>1, <1>2, <1>9, OnIs DEF SortCode
    <2>2. registers[6] + 4 = STACK_SIZE - 28 /\ registers[8] = scanned[2] /\ OnStack(STACK_SIZE - 28)
        BY <1>1, <1>9 DEF SortRead, Keeps0, OnStack
    <2>3. /\ Goes(5 + 1) /\ Stores(STACK_SIZE - 28, scanned[2])
          /\ UNCHANGED <<registers, scanned, printed, compared, calls>>
        BY <1>1, <2>1, <2>2, StoreLine
    <2>4. WordAt(memory', STACK_SIZE - 32) = scanned[1] /\ WordAt(memory', STACK_SIZE - 28) = scanned[2]
        BY <1>1, <1>9, <2>3 DEF SortRead, Stores
    <2>5. On(6)'
        BY <1>3, <2>3
    <2>6. SortRead(6)'
        BY <1>9, <2>3, <2>4, <2>5 DEF SortRead, Keeps0
    <2> QED
        BY <1>9, <2>1, <2>6, NoRet
<1>10. CASE k = 7
    <2>1. At(7, "movl_reg_deref", 8, 6, 8)
        BY <1>1, <1>2, <1>10, OnIs DEF SortCode
    <2>2. registers[6] + 8 = STACK_SIZE - 24 /\ registers[8] = scanned[3] /\ OnStack(STACK_SIZE - 24)
        BY <1>1, <1>10 DEF SortRead, Keeps0, OnStack
    <2>3. /\ Goes(7 + 1) /\ Stores(STACK_SIZE - 24, scanned[3])
          /\ UNCHANGED <<registers, scanned, printed, compared, calls>>
        BY <1>1, <2>1, <2>2, StoreLine
    <2>4. WordAt(memory', STACK_SIZE - 32) = scanned[1]
          /\ WordAt(memory', STACK_SIZE - 28) = scanned[2] /\ WordAt(memory', STACK_SIZE - 24) = scanned[3]
        BY <1>1, <1>10, <2>3 DEF SortRead, Stores
    <2>5. On(8)'
        BY <1>3, <2>3
    <2>6. SortRead(8)'
        BY <1>10, <2>3, <2>4, <2>5 DEF SortRead, Keeps0
    <2> QED
        BY <1>10, <2>1, <2>6, NoRet
<1>11. CASE k = 8
    <2>1. At(8, "movl_imm_reg", 4, 0, 3)
        BY <1>1, <1>2, <1>11, OnIs DEF SortCode
    <2>2. Sets(8 + 1, 4, 3)
        BY <1>1, <2>1, MovlImmLine
    <2>3. On(9)' /\ Keeps0(0, STACK_SIZE - 32)' /\ registers'[4] = 3
        BY <1>3, <1>11, <2>2 DEF Sets, Writes, SortRead, Keeps0
    <2>4. SortRead(9)'
        BY <1>11, <2>2, <2>3 DEF Sets, SortRead
    <2> QED
        BY <1>11, <2>1, <2>4, NoRet
<1>12. CASE k = 9
    <2>1. At(9, "movl_reg_reg", 6, 5, 0)
        BY <1>1, <1>2, <1>12, OnIs DEF SortCode
    <2>2. registers[6] = STACK_SIZE - 32 /\ registers[4] = 3
        BY <1>12 DEF SortRead, Keeps0
    <2>3. Sets(9 + 1, 5, STACK_SIZE - 32)
        BY <1>1, <2>1, <2>2, MovlRegLine
    <2>4. On(10)' /\ Keeps0(0, STACK_SIZE - 32)' /\ registers'[5] = STACK_SIZE - 32 /\ registers'[4] = 3
        BY <1>3, <1>12, <2>2, <2>3 DEF Sets, Writes, SortRead, Keeps0
    <2>5. SortRead(10)'
        BY <1>12, <2>3, <2>4 DEF Sets, SortRead
    <2> QED
        BY <1>12, <2>1, <2>5, NoRet
<1>13. CASE k = 10
    <2>1. At(10, "call", 0, 0, 76)
        BY <1>1, <1>2, <1>13, OnIs DEF SortCode
    <2>2. /\ Keeps0(0, STACK_SIZE - 32) /\ calls = <<>> /\ printed = <<>> /\ Three(scanned)
          /\ registers[4] = 3 /\ registers[5] = STACK_SIZE - 32
          /\ WordAt(memory, STACK_SIZE - 32) = scanned[1] /\ WordAt(memory, STACK_SIZE - 28) = scanned[2]
          /\ WordAt(memory, STACK_SIZE - 24) = scanned[3]
        BY <1>13 DEF SortRead
    <2>3. registers[6] >= 4 /\ registers[6] <= STACK_SIZE /\ registers[6] - 4 = STACK_SIZE - 36
        BY <1>1, <2>2 DEF Keeps0
    <2>4. /\ Goes(30) /\ Writes(6, STACK_SIZE - 36) /\ Stores(STACK_SIZE - 36, 40)
          /\ calls' = Append(calls, [pc |-> 40, kept |-> Kept(registers)])
          /\ UNCHANGED <<scanned, printed, compared>>
        <3>1. CallsFrom(10, 30, 40) /\ registers[6] >= 0
            BY <1>1, <2>2, <2>1 DEF CallsFrom, Keeps0
        <3>2. /\ Goes(30) /\ Writes(6, registers[6] - 4) /\ Stores(registers[6] - 4, 40)
              /\ calls' = Append(calls, [pc |-> 40, kept |-> Kept(registers)])
              /\ UNCHANGED <<scanned, printed, compared>>
            BY <1>1, <2>3, <3>1, CallLine
        <3> QED
            BY <2>3, <3>2
    <2>5. calls' = <<SortCall>>
        <3>1. Kept(registers) = Saved(0, STACK_SIZE - 32, 0, 0)
            BY <2>2, KeptIs DEF Keeps0
        <3>2. calls' = Append(<<>>, SortCall)
            BY <2>2, <2>4, <3>1 DEF SortCall
        <3> QED
            BY <3>2, CallsAre
    <2>6. PICK c : c \in [0 .. 2 -> Word] /\ c[0] = scanned[1] /\ c[1] = scanned[2] /\ c[2] = scanned[3]
        <3> DEFINE d == [q \in 0 .. 2 |-> scanned[q + 1]]
        <3>1. d \in [0 .. 2 -> Word] /\ d[0] = scanned[1] /\ d[1] = scanned[2] /\ d[2] = scanned[3]
            BY <2>2 DEF Three
        <3> HIDE DEF d
        <3> QED
            BY <3>1
    <2>7. WordAt(memory', STACK_SIZE - 32) = scanned[1] /\ WordAt(memory', STACK_SIZE - 28) = scanned[2]
          /\ WordAt(memory', STACK_SIZE - 24) = scanned[3]
        BY <1>1, <2>2, <2>4 DEF Stores
    <2>8. ArrayIs(memory', c)
        <3>1. /\ STACK_SIZE - 32 + 4 * 0 = STACK_SIZE - 32 /\ STACK_SIZE - 32 + 4 * 1 = STACK_SIZE - 28
              /\ STACK_SIZE - 32 + 4 * 2 = STACK_SIZE - 24
            BY <1>1
        <3> QED
            BY <2>6, <2>7, <3>1 DEF ArrayIs
    <2>9. Pushed(memory', 1) /\ Shuffled(c, scanned)
        BY <2>4, <2>6 DEF Stores, Pushed, Shuffled
    <2>10. /\ registers'[1] = 0 /\ registers'[6] = STACK_SIZE - 36 /\ registers'[7] = 0 /\ registers'[12] = 0
           /\ registers'[4] = 3 /\ registers'[5] = STACK_SIZE - 32
        BY <2>2, <2>4 DEF Writes, Keeps0
    <2>11. SortFrame(c, c, 1, 0, 0, <<SortCall>>)'
        <3>1. STACK_SIZE - 36 = STACK_SIZE - 32 - 4 * 1
            BY <1>1
        <3> QED
            BY <2>2, <2>4, <2>5, <2>6, <2>8, <2>9, <2>10, <3>1 DEF SortFrame
    <2>12. On(30)'
        BY <1>1, <2>4, GoesOn
    <2>13. SortEnter(30, c)'
        BY <2>10, <2>11, <2>12 DEF SortEnter
    <2> QED
        BY <1>13, <2>1, <2>13, NoRet
<1> QED
    BY <1>4, <1>5, <1>6, <1>7, <1>8, <1>9, <1>10, <1>11, <1>12, <1>13

\* ... and of those that print them behind the call.
LEMMA SortPrintStep ==
    ASSUME TestsInv, program = "sort", Next, NEW k \in 11 .. 18, NEW c, SortPrint(k, c)
    PROVE  /\ Returns
           /\ k < 18 => SortPrint(k + 1, c)'
           /\ k = 18 => status' = "done" /\ printed' = <<c[0], c[1], c[2]>> /\ UNCHANGED <<scanned, build>>
<1>1. SortCode(instructions) /\ Len(instructions) = 69 /\ Short /\ STACK_SIZE \in Nat /\ STACK_SIZE >= 64
      /\ WORD = 4
    BY SortIs, Machine
<1>2. On(k) /\ calls = <<>>
    BY DEF SortPrint
<1>3. ASSUME NEW j \in 12 .. 18, Goes(j) PROVE On(j)' /\ UNCHANGED build
    BY <1>1, <1>3, GoesOn DEF Goes
<1>4. CASE k = 11
    <2>1. At(11, "movl_deref_reg", 6, 8, 0)
        BY <1>1, <1>2, <1>4, OnIs DEF SortCode
    <2>2. registers[6] + 0 = STACK_SIZE - 32 /\ WordAt(memory, STACK_SIZE - 32) = c[0]
          /\ OnStack(STACK_SIZE - 32)
        <3>1. STACK_SIZE - 32 + 4 * 0 = STACK_SIZE - 32 /\ 0 \in 0 .. 2
            BY <1>1
        <3> QED
            BY <1>1, <1>4, <3>1 DEF SortPrint, Keeps0, OnStack, ArrayIs
    <2>3. Sets(11 + 1, 8, c[0])
        BY <1>1, <2>1, <2>2, LoadLine
    <2>4. On(12)' /\ Keeps0(0, STACK_SIZE - 32)' /\ registers'[8] = c[0] /\ UNCHANGED build
        BY <1>3, <1>4, <2>3 DEF Sets, Writes, SortPrint, Keeps0
    <2>5. SortPrint(12, c)'
        BY <1>4, <2>3, <2>4 DEF Sets, SortPrint
    <2> QED
        BY <1>4, <2>1, <2>5, NoRet
<1>5. CASE k = 13
    <2>1. At(13, "movl_deref_reg", 6, 8, 4)
        BY <1>1, <1>2, <1>5, OnIs DEF SortCode
    <2>2. registers[6] + 4 = STACK_SIZE - 28 /\ WordAt(memory, STACK_SIZE - 28) = c[1]
          /\ OnStack(STACK_SIZE - 28)
        <3>1. STACK_SIZE - 32 + 4 * 1 = STACK_SIZE - 28 /\ 1 \in 0 .. 2
            BY <1>1
        <3> QED
            BY <1>1, <1>5, <3>1 DEF SortPrint, Keeps0, OnStack, ArrayIs
    <2>3. Sets(13 + 1, 8, c[1])
        BY <1>1, <2>1, <2>2, LoadLine
    <2>4. On(14)' /\ Keeps0(0, STACK_SIZE - 32)' /\ registers'[8] = c[1] /\ UNCHANGED build
        BY <1>3, <1>5, <2>3 DEF Sets, Writes, SortPrint, Keeps0
    <2>5. SortPrint(14, c)'
        BY <1>5, <2>3, <2>4 DEF Sets, SortPrint
    <2> QED
        BY <1>5, <2>1, <2>5, NoRet
<1>6. CASE k = 15
    <2>1. At(15, "movl_deref_reg", 6, 8, 8)
        BY <1>1, <1>2, <1>6, OnIs DEF SortCode
    <2>2. registers[6] + 8 = STACK_SIZE - 24 /\ WordAt(memory, STACK_SIZE - 24) = c[2]
          /\ OnStack(STACK_SIZE - 24)
        <3>1. STACK_SIZE - 32 + 4 * 2 = STACK_SIZE - 24 /\ 2 \in 0 .. 2
            BY <1>1
        <3> QED
            BY <1>1, <1>6, <3>1 DEF SortPrint, Keeps0, OnStack, ArrayIs
    <2>3. Sets(15 + 1, 8, c[2])
        BY <1>1, <2>1, <2>2, LoadLine
    <2>4. On(16)' /\ Keeps0(0, STACK_SIZE - 32)' /\ registers'[8] = c[2] /\ UNCHANGED build
        BY <1>3, <1>6, <2>3 DEF Sets, Writes, SortPrint, Keeps0
    <2>5. SortPrint(16, c)'
        BY <1>6, <2>3, <2>4 DEF Sets, SortPrint
    <2> QED
        BY <1>6, <2>1, <2>5, NoRet
<1>7. CASE k = 12
    <2>1. At(12, "printr", 8, 0, 0)
        BY <1>1, <1>2, <1>7, OnIs DEF SortCode
    <2>2. registers[8] = c[0] /\ printed = <<>>
        BY <1>7 DEF SortPrint
    <2>3. /\ Goes(12 + 1) /\ printed' = Append(printed, c[0])
          /\ UNCHANGED <<registers, memory, scanned, compared, calls>>
        BY <1>1, <2>1, <2>2, PrintrLine
    <2>4. On(13)' /\ printed' = <<c[0]>> /\ UNCHANGED build
        <3>1. Append(<<>>, c[0]) = <<c[0]>>
            BY AppendsAre
        <3> QED
            BY <1>3, <2>2, <2>3, <3>1
    <2>5. SortPrint(13, c)'
        BY <1>7, <2>3, <2>4 DEF SortPrint, Keeps0
    <2> QED
        BY <1>7, <2>1, <2>5, NoRet
<1>8. CASE k = 14
    <2>1. At(14, "printr", 8, 0, 0)
        BY <1>1, <1>2, <1>8, OnIs DEF SortCode
    <2>2. registers[8] = c[1] /\ printed = <<c[0]>>
        BY <1>8 DEF SortPrint
    <2>3. /\ Goes(14 + 1) /\ printed' = Append(printed, c[1])
          /\ UNCHANGED <<registers, memory, scanned, compared, calls>>
        BY <1>1, <2>1, <2>2, PrintrLine
    <2>4. On(15)' /\ printed' = <<c[0], c[1]>> /\ UNCHANGED build
        <3>1. Append(<<c[0]>>, c[1]) = <<c[0], c[1]>>
            BY AppendsAre
        <3> QED
            BY <1>3, <2>2, <2>3, <3>1
    <2>5. SortPrint(15, c)'
        BY <1>8, <2>3, <2>4 DEF SortPrint, Keeps0
    <2> QED
        BY <1>8, <2>1, <2>5, NoRet
<1>9. CASE k = 16
    <2>1. At(16, "printr", 8, 0, 0)
        BY <1>1, <1>2, <1>9, OnIs DEF SortCode
    <2>2. registers[8] = c[2] /\ printed = <<c[0], c[1]>>
        BY <1>9 DEF SortPrint
    <2>3. /\ Goes(16 + 1) /\ printed' = Append(printed, c[2])
          /\ UNCHANGED <<registers, memory, scanned, compared, calls>>
        BY <1>1, <2>1, <2>2, PrintrLine
    <2>4. On(17)' /\ printed' = <<c[0], c[1], c[2]>> /\ UNCHANGED build
        <3>1. Append(<<c[0], c[1]>>, c[2]) = <<c[0], c[1], c[2]>>
            BY AppendsAre
        <3> QED
            BY <1>3, <2>2, <2>3, <3>1
    <2>5. SortPrint(17, c)'
        BY <1>9, <2>3, <2>4 DEF SortPrint, Keeps0
    <2> QED
        BY <1>9, <2>1, <2>5, NoRet
<1>10. CASE k = 17
    <2>1. At(17, "addl_imm_reg", 6, 0, 32)
        BY <1>1, <1>2, <1>10, OnIs DEF SortCode
    <2>2. registers[6] + 32 = STACK_SIZE
        BY <1>1, <1>10 DEF SortPrint, Keeps0
    <2>3. Sets(17 + 1, 6, STACK_SIZE)
        BY <1>1, <2>1, <2>2, AddlImmLine, StackPointer
    <2>4. On(18)' /\ Keeps0(0, STACK_SIZE)' /\ UNCHANGED build
        BY <1>3, <1>10, <2>3 DEF Sets, Writes, SortPrint, Keeps0
    <2>5. SortPrint(18, c)'
        BY <1>10, <2>3, <2>4 DEF Sets, SortPrint
    <2> QED
        BY <1>10, <2>1, <2>5, NoRet
<1>11. CASE k = 18
    <2>1. At(18, "ret", 0, 0, 0)
        BY <1>1, <1>2, <1>11, OnIs DEF SortCode
    <2>2. registers[6] = STACK_SIZE /\ printed = <<c[0], c[1], c[2]>>
        BY <1>11 DEF SortPrint, Keeps0
    <2>3. status' = "done" /\ UNCHANGED <<scanned, build, printed>>
        BY <1>1, <2>1, <2>2, EndLine
    <2>4. Returns
        BY <1>2, <2>2 DEF Returns, ESP
    <2> QED
        BY <1>11, <2>2, <2>3, <2>4
<1> QED
    BY <1>4, <1>5, <1>6, <1>7, <1>8, <1>9, <1>10, <1>11

-----------------------------------------------------------------------------
(* ... sorts them ...                                                      *)

\* The outer loop, with the first i numbers in their places.
SortOuter(k, c, i) ==
    /\ On(k) /\ i \in 0 .. 3 /\ LeftSorted(build, scanned, c, i)
    /\ SortFrame(c, c, 4, STACK_SIZE - 32, 3, <<SortCall>>)
    /\ k = 63 => registers[12] = i
    /\ k # 63 => registers[4] = i
    /\ k = 65 => compared = <<3, i>>
    /\ k \in {40, 41, 42, 43, 44} => i <= 2
    /\ k = 41 => registers[12] = 1
    /\ k \in {42, 43, 44} => registers[12] = i + 1
    /\ k \in {43, 44} => registers[3] = i
    /\ k = 44 => registers[0] = i + 1

\* The inner loop, with the least of the numbers from i to before j at m.
SortInner(k, c, i, m, j) ==
    /\ On(k) /\ i \in 0 .. 2 /\ m \in i .. 2 /\ j \in i + 1 .. 3
    /\ LeftSorted(build, scanned, c, i)
    /\ LeastFrom(build, scanned, c, i, m, IF k = 58 THEN j + 1 ELSE j)
    /\ SortFrame(c, c, 4, STACK_SIZE - 32, 3, <<SortCall>>)
    /\ registers[4] = i /\ registers[12] = i + 1 /\ registers[0] = j /\ registers[3] = m
    /\ k \in {45, 46, 47, 48, 49, 50, 51, 52, 53, 54, 55, 56, 57, 58} => j <= 2
    /\ k \in {46, 47, 48, 49, 50, 51, 52} => registers[5] = j
    /\ k \in {47, 48} => registers[2] = m
    /\ k \in {48, 52} => registers[8] = 4
    /\ k = 49 => registers[8] = 4 * m
    /\ k = 50 => registers[8] = STACK_SIZE - 32 + 4 * m
    /\ k \in {51, 52, 53, 54, 55} => registers[2] = c[m]
    /\ k = 53 => registers[8] = 4 * j
    /\ k = 54 => registers[8] = STACK_SIZE - 32 + 4 * j
    /\ k = 55 => registers[8] = c[j]
    /\ k = 56 => compared = <<c[m], c[j]>>
    /\ k = 57 => Excused(build, scanned) \/ c[j] < c[m]
    /\ k = 60 => compared = <<3, j>>
    /\ k \in {61, 62} => j = 3
    /\ k = 62 => registers[5] = STACK_SIZE - 32

\* swap, of the numbers i and m.
SwapCall(i) == [pc |-> 248, kept |-> Saved(STACK_SIZE - 32, STACK_SIZE - 48, 3, i + 1)]
Overwritten(c, i, m) == [q \in 0 .. 2 |-> IF q = i THEN c[m] ELSE c[q]]
SortSwap(k, c, i, m) ==
    /\ On(k) /\ i \in 0 .. 2 /\ m \in i .. 2
    /\ LeftSorted(build, scanned, c, i) /\ LeastFrom(build, scanned, c, i, m, 3)
    /\ SortFrame(c, IF k = 28 THEN Overwritten(c, i, m) ELSE IF k = 29 THEN Swapped(c, i, m) ELSE c,
                 5, STACK_SIZE - 32, 3, <<SortCall, SwapCall(i)>>)
    /\ registers[12] = i + 1
    /\ k \in {19, 20, 21, 22, 23, 24, 25} => registers[5] = STACK_SIZE - 32
    /\ k \in {19, 20, 21, 22} => registers[4] = i
    /\ k \in {19, 20, 21, 22, 23, 24, 25, 26} => registers[3] = m
    /\ k = 20 => registers[2] = 4
    /\ k = 21 => registers[2] = 4 * i
    /\ k \in {22, 23, 24, 25, 26, 27} => registers[2] = STACK_SIZE - 32 + 4 * i
    /\ k \in {23, 24, 25, 26, 27, 28} => registers[4] = c[i]
    /\ k = 24 => registers[0] = 4
    /\ k = 25 => registers[0] = 4 * m
    /\ k \in {26, 27, 28} => registers[0] = STACK_SIZE - 32 + 4 * m
    /\ k = 27 => registers[3] = c[m]

EnterLines == {30, 31, 32, 33, 34, 35, 36, 37, 38, 39}
OuterLines == {40, 41, 42, 43, 44, 63, 64, 65}
InnerLines == {45, 46, 47, 48, 49, 50, 51, 52, 53, 54, 55, 56, 57, 58, 59, 60, 61, 62}
SwapLines == {19, 20, 21, 22, 23, 24, 25, 26, 27, 28, 29}
LeaveLines == {66, 67, 68, 69}

SortInv ==
    /\ status = "running" =>
          \/ \E k \in 1 .. 10 : SortRead(k)
          \/ \E c : \/ \E k \in EnterLines : SortEnter(k, c)
                    \/ \E i : \E k \in OuterLines : SortOuter(k, c, i)
                    \/ \E i, m, j : \E k \in InnerLines : SortInner(k, c, i, m, j)
                    \/ \E i, m : \E k \in SwapLines : SortSwap(k, c, i, m)
                    \/ \E k \in LeaveLines : SortLeave(k, c)
                    \/ \E k \in 11 .. 18 : SortPrint(k, c)
    /\ status # "stray"
    /\ status = "done" =>
          /\ Permuted(scanned, printed)
          /\ Ascending(printed) \/ Excused(build, scanned)

\* A line that sets a register which is not kept leaves the frame alone.
LEMMA SortKeeps ==
    ASSUME Short, Len(instructions) = 69, NEW c, NEW a, NEW n, NEW b, NEW p, NEW f,
           SortFrame(c, a, n, b, p, f), NEW l \in Nat \ {0}, l <= 69,
           NEW r \in Nat, r \notin {1, 6, 7}, NEW v, Sets(l, r, v)
    PROVE  /\ SortFrame(c, a, n, b, p, f)' /\ On(l)' /\ registers'[r] = v
           /\ \A q \in Nat : q # r /\ q <= 16 => registers'[q] = registers[q]
           /\ UNCHANGED <<build, scanned, compared>>
<1>1. On(l)' /\ UNCHANGED build
    BY GoesOn DEF Sets, Goes
<1>2. UNCHANGED <<memory, scanned, printed, calls, compared>> /\ registers'[r] = v
      /\ \A q \in Nat : q # r /\ q <= 16 => registers'[q] = registers[q]
    BY DEF Sets, Writes
<1>3. registers'[1] = registers[1] /\ registers'[6] = registers[6] /\ registers'[7] = registers[7]
    BY <1>2
<1>4. SortFrame(c, a, n, b, p, f)'
    BY <1>2, <1>3 DEF SortFrame
<1> QED
    BY <1>1, <1>2, <1>4

\* So do a comparison and a jump.
LEMMA SortKeepsAll ==
    ASSUME Short, Len(instructions) = 69, NEW c, NEW a, NEW n, NEW b, NEW p, NEW f,
           SortFrame(c, a, n, b, p, f), NEW l \in Nat \ {0}, l <= 69, Goes(l),
           \A q \in Nat : q < 16 => registers'[q] = registers[q],
           UNCHANGED <<memory, scanned, printed, calls>>
    PROVE  SortFrame(c, a, n, b, p, f)' /\ On(l)' /\ UNCHANGED build
<1>1. On(l)' /\ UNCHANGED build
    BY GoesOn DEF Goes
<1>2. registers'[1] = registers[1] /\ registers'[6] = registers[6] /\ registers'[7] = registers[7]
    OBVIOUS
<1> QED
    BY <1>1, <1>2 DEF SortFrame

\* A conditional jump of sort goes where the comparison before it says, unless it is
\* of the pair that cmpl gets wrong.
LEMMA SortDecides ==
    ASSUME TestsInv, Short, Next, NEW k \in Nat, NEW op \in Conditional, NEW n \in Int, At(k, op, 0, 0, n),
           NEW j \in Nat \ {0}, j <= Len(instructions), n = 4 * (j - k - 1),
           NEW x \in Int, NEW y \in Int, compared = <<x, y>>, ~Misjudged(build, x, y)
    PROVE  /\ Holds(op, x, y) => Registers(j, registers)
           /\ ~Holds(op, x, y) => Registers(k + 1, registers)
<1>1. FlagsInv
    BY DEF TestsInv
<1> QED
    BY <1>1, DecidedLine

\* pushl of a register that is 0 adds to the words on the stack ...
LEMMA SortPush ==
    ASSUME Short, Next, Len(instructions) = 69, NEW c, NEW a, NEW n \in Nat, 1 <= n, n <= 3,
           NEW b \in Int, NEW p \in Int, NEW f,
           SortFrame(c, a, n, b, p, f), NEW k \in Nat, k <= 68, NEW r \in Nat, At(k, "pushl", r, 0, 0),
           r # 6, registers[r] = 0
    PROVE  /\ SortFrame(c, a, n + 1, b, p, f)' /\ On(k + 1)' /\ UNCHANGED build
           /\ \A q \in Nat : q # 6 /\ q <= 16 => registers'[q] = registers[q]
<1>1. STACK_SIZE \in Nat /\ STACK_SIZE >= 64
    BY Machine
<1> DEFINE e == STACK_SIZE - 36 - 4 * n
<1>2. /\ registers[6] - 4 = e /\ registers[6] >= 4 /\ registers[6] <= STACK_SIZE
      /\ e = STACK_SIZE - 32 - 4 * (n + 1) /\ e \in Int /\ registers[6] >= 0
    BY <1>1 DEF SortFrame
<1>3. /\ Goes(k + 1) /\ Writes(6, e) /\ Stores(e, 0) /\ UNCHANGED <<scanned, printed, compared, calls>>
    <2>1. /\ Goes(k + 1) /\ Writes(6, registers[6] - 4) /\ Stores(registers[6] - 4, registers[r])
          /\ UNCHANGED <<scanned, printed, compared, calls>>
        BY <1>2, PushLine
    <2> QED
        BY <1>2, <2>1
<1>4. ArrayIs(memory', a)
    <2> SUFFICES ASSUME NEW q \in 0 .. 2 PROVE WordAt(memory', STACK_SIZE - 32 + 4 * q) = a[q]
        BY DEF ArrayIs
    <2> DEFINE x == STACK_SIZE - 32 + 4 * q
    <2>1. x \in Nat /\ x + 4 <= STACK_SIZE /\ e + 4 <= x
        BY <1>1
    <2> HIDE DEF x, e
    <2>2. WordAt(memory', x) = WordAt(memory, x)
        BY <1>3, <2>1 DEF Stores
    <2> QED
        BY <2>2 DEF SortFrame, ArrayIs, x
<1>5. Pushed(memory', n + 1)
    <2>1. /\ n = 1 => e = STACK_SIZE - 40
          /\ n = 2 => e = STACK_SIZE - 44
          /\ n = 3 => e = STACK_SIZE - 48
        BY <1>1
    <2>2. WordAt(memory', e) = 0
        BY <1>3 DEF Stores
    <2>3. \A x \in Nat : x + 4 <= STACK_SIZE /\ e + 4 <= x => WordAt(memory', x) = WordAt(memory, x)
        BY <1>3 DEF Stores
    <2> DEFINE x1 == STACK_SIZE - 36
               x2 == STACK_SIZE - 40
               x3 == STACK_SIZE - 44
    <2>4. /\ x1 \in Nat /\ x1 + 4 <= STACK_SIZE /\ x2 \in Nat /\ x2 + 4 <= STACK_SIZE
          /\ x3 \in Nat /\ x3 + 4 <= STACK_SIZE
          /\ e + 4 <= x1 /\ (n >= 2 => e + 4 <= x2) /\ (n >= 3 => e + 4 <= x3)
        BY <1>1
    <2> HIDE DEF x1, x2, x3, e
    <2>5. /\ WordAt(memory', x1) = WordAt(memory, x1)
          /\ n >= 2 => WordAt(memory', x2) = WordAt(memory, x2)
          /\ n >= 3 => WordAt(memory', x3) = WordAt(memory, x3)
        BY <2>3, <2>4
    <2>6. Pushed(memory, n)
        BY DEF SortFrame
    <2> QED
        BY <2>1, <2>2, <2>5, <2>6 DEF Pushed, x1, x2, x3
<1>6. On(k + 1)' /\ UNCHANGED build
    <2>1. k \in Nat \ {0}
        BY DEF At
    <2>2. k + 1 \in Nat \ {0} /\ k + 1 <= Len(instructions)
        BY <2>1
    <2> DEFINE l == k + 1
    <2> HIDE DEF l
    <2>3. On(l)'
        BY <1>3, <2>2, GoesOn DEF l
    <2> QED
        BY <1>3, <2>3 DEF l, Goes
<1>7. registers'[6] = e /\ \A q \in Nat : q # 6 /\ q <= 16 => registers'[q] = registers[q]
    BY <1>3 DEF Writes
<1> HIDE DEF e
<1>8. SortFrame(c, a, n + 1, b, p, f)'
    BY <1>2, <1>3, <1>4, <1>5, <1>7 DEF SortFrame
<1> QED
    BY <1>6, <1>7, <1>8

\* ... and popl takes the last one back.
LEMMA SortPop ==
    ASSUME Short, Next, Len(instructions) = 69, NEW c, NEW a, NEW n \in Nat, 2 <= n, n <= 4,
           NEW b \in Int, NEW p \in Int, NEW f,
           SortFrame(c, a, n, b, p, f), NEW k \in Nat, k <= 68, NEW r \in Nat,
           r = 1 \/ r = 7 \/ r = 12, At(k, "popl", r, 0, 0)
    PROVE  /\ SortFrame(c, a, n - 1, IF r = 1 THEN 0 ELSE b, IF r = 7 THEN 0 ELSE p, f)'
           /\ On(k + 1)' /\ registers'[r] = 0 /\ UNCHANGED <<build, scanned>>
           /\ \A q \in Nat : q # r /\ q # 6 /\ q <= 16 => registers'[q] = registers[q]
<1>1. STACK_SIZE \in Nat /\ STACK_SIZE >= 64
    BY Machine
<1> DEFINE e == STACK_SIZE - 32 - 4 * n
<1>2. /\ registers[6] = e /\ registers[6] >= 0 /\ registers[6] + 4 <= STACK_SIZE
      /\ e + 4 = STACK_SIZE - 32 - 4 * (n - 1)
    BY <1>1 DEF SortFrame
<1>3. WordAt(memory, e) = 0 /\ Pushed(memory, n - 1)
    <2>1. /\ n = 2 => e = STACK_SIZE - 40
          /\ n = 3 => e = STACK_SIZE - 44
          /\ n = 4 => e = STACK_SIZE - 48
        BY <1>1
    <2> HIDE DEF e
    <2> QED
        BY <2>1 DEF SortFrame, Pushed
<1> HIDE DEF e
<1>4. /\ Goes(k + 1) /\ registers'[r] = 0 /\ registers'[6] = e + 4
      /\ \A q \in Nat : q # r /\ q # 6 /\ q <= 16 => registers'[q] = registers[q]
      /\ UNCHANGED <<memory, scanned, printed, compared, calls>>
    BY <1>2, <1>3, PopLine
<1>5. On(k + 1)' /\ UNCHANGED build
    <2>1. k \in Nat \ {0}
        BY DEF At
    <2>2. k + 1 \in Nat \ {0} /\ k + 1 <= Len(instructions)
        BY <2>1
    <2> DEFINE l == k + 1
    <2> HIDE DEF l
    <2>3. On(l)'
        BY <1>4, <2>2, GoesOn DEF l
    <2> QED
        BY <1>4, <2>3 DEF l, Goes
<1>6. /\ registers'[1] = IF r = 1 THEN 0 ELSE b
      /\ registers'[7] = IF r = 7 THEN 0 ELSE p
    BY <1>4 DEF SortFrame
<1>7. SortFrame(c, a, n - 1, IF r = 1 THEN 0 ELSE b, IF r = 7 THEN 0 ELSE p, f)'
    BY <1>2, <1>3, <1>4, <1>6 DEF SortFrame
<1> QED
    BY <1>4, <1>5, <1>7

\* Where the program may be next.
LEMMA SortStays ==
    ASSUME NEW c,
           \/ \E k \in EnterLines : SortEnter(k, c)'
           \/ \E i : \E k \in OuterLines : SortOuter(k, c, i)'
           \/ \E i, m, j : \E k \in InnerLines : SortInner(k, c, i, m, j)'
           \/ \E i, m : \E k \in SwapLines : SortSwap(k, c, i, m)'
           \/ \E k \in LeaveLines : SortLeave(k, c)'
           \/ \E k \in 11 .. 18 : SortPrint(k, c)'
    PROVE  SortInv'
<1>1. \A k : /\ SortEnter(k, c)' => On(k)'
             /\ SortLeave(k, c)' => On(k)'
             /\ SortPrint(k, c)' => On(k)'
    BY DEF SortEnter, SortLeave, SortPrint
<1>2. \A k, i : SortOuter(k, c, i)' => On(k)'
    BY DEF SortOuter
<1>3. \A k, i, m, j : SortInner(k, c, i, m, j)' => On(k)'
    BY DEF SortInner
<1>4. \A k, i, m : SortSwap(k, c, i, m)' => On(k)'
    BY DEF SortSwap
<1>5. \E k : On(k)'
    BY <1>1, <1>2, <1>3, <1>4
<1>6. status' = "running"
    BY <1>5 DEF On
<1> QED
    BY <1>6 DEF SortInv

\* A step of the lines that save the registers of main and start the loop ...
LEMMA SortEnterStep ==
    ASSUME TestsInv, program = "sort", Next, NEW k \in EnterLines, NEW c, SortEnter(k, c)
    PROVE  SortInv' /\ Returns
<1>1. SortCode(instructions) /\ Len(instructions) = 69 /\ Short /\ STACK_SIZE \in Nat /\ STACK_SIZE >= 64
    BY SortIs, Machine
<1>2. On(k)
    BY DEF SortEnter
<1>3. ASSUME NEW l \in EnterLines, SortEnter(l, c)' PROVE SortInv'
    BY <1>3, SortStays
<1>4. CASE k = 30
    <2>1. At(30, "pushl", 12, 0, 0)
        BY <1>1, <1>2, <1>4, OnIs DEF SortCode
    <2>2. SortFrame(c, c, 1, 0, 0, <<SortCall>>) /\ registers[12] = 0
        BY <1>4 DEF SortEnter, SortFrame
    <2>3. /\ SortFrame(c, c, 1 + 1, 0, 0, <<SortCall>>)' /\ On(30 + 1)'
          /\ \A q \in Nat : q # 6 /\ q <= 16 => registers'[q] = registers[q]
        <3>1. 1 <= 1 /\ 1 <= 3 /\ 30 <= 68 /\ 12 # 6
            OBVIOUS
        <3> QED
            BY <1>1, <2>1, <2>2, <3>1, SortPush
    <2>4. registers'[4] = registers[4] /\ registers'[5] = registers[5]
        BY <2>3
    <2>5. SortEnter(31, c)'
        BY <1>4, <2>3, <2>4 DEF SortEnter
    <2> QED
        BY <1>3, <2>1, <2>5, NoRet DEF EnterLines
<1>5. CASE k = 31
    <2>1. At(31, "pushl", 7, 0, 0)
        BY <1>1, <1>2, <1>5, OnIs DEF SortCode
    <2>2. SortFrame(c, c, 2, 0, 0, <<SortCall>>) /\ registers[7] = 0
        BY <1>5 DEF SortEnter, SortFrame
    <2>3. /\ SortFrame(c, c, 2 + 1, 0, 0, <<SortCall>>)' /\ On(31 + 1)'
          /\ \A q \in Nat : q # 6 /\ q <= 16 => registers'[q] = registers[q]
        <3>1. 1 <= 2 /\ 2 <= 3 /\ 31 <= 68 /\ 7 # 6
            OBVIOUS
        <3> QED
            BY <1>1, <2>1, <2>2, <3>1, SortPush
    <2>4. registers'[4] = registers[4] /\ registers'[5] = registers[5]
        BY <2>3
    <2>5. SortEnter(32, c)'
        BY <1>5, <2>3, <2>4 DEF SortEnter
    <2> QED
        BY <1>3, <2>1, <2>5, NoRet DEF EnterLines
<1>6. CASE k = 32
    <2>1. At(32, "pushl", 1, 0, 0)
        BY <1>1, <1>2, <1>6, OnIs DEF SortCode
    <2>2. SortFrame(c, c, 3, 0, 0, <<SortCall>>) /\ registers[1] = 0
        BY <1>6 DEF SortEnter, SortFrame
    <2>3. /\ SortFrame(c, c, 3 + 1, 0, 0, <<SortCall>>)' /\ On(32 + 1)'
          /\ \A q \in Nat : q # 6 /\ q <= 16 => registers'[q] = registers[q]
        <3>1. 1 <= 3 /\ 3 <= 3 /\ 32 <= 68 /\ 1 # 6
            OBVIOUS
        <3> QED
            BY <1>1, <2>1, <2>2, <3>1, SortPush
    <2>4. registers'[4] = registers[4] /\ registers'[5] = registers[5]
        BY <2>3
    <2>5. SortEnter(33, c)'
        BY <1>6, <2>3, <2>4 DEF SortEnter
    <2> QED
        BY <1>3, <2>1, <2>5, NoRet DEF EnterLines
<1>7. CASE k = 33
    <2>1. At(33, "movl_reg_reg", 4, 7, 0)
        BY <1>1, <1>2, <1>7, OnIs DEF SortCode
    <2>2. SortFrame(c, c, 4, 0, 0, <<SortCall>>) /\ registers[4] = 3 /\ registers[5] = STACK_SIZE - 32
        BY <1>7 DEF SortEnter
    <2>3. Sets(33 + 1, 7, 3)
        BY <1>1, <2>1, <2>2, MovlRegLine
    <2>4. /\ registers'[7] = 3 /\ registers'[1] = registers[1] /\ registers'[6] = registers[6]
          /\ registers'[4] = registers[4] /\ registers'[5] = registers[5]
          /\ UNCHANGED <<memory, scanned, printed, calls>>
        BY <2>3 DEF Sets, Writes
    <2>5. On(34)'
        BY <1>1, <2>3, GoesOn DEF Sets
    <2>6. SortFrame(c, c, 4, 0, 3, <<SortCall>>)'
        BY <2>2, <2>4 DEF SortFrame
    <2>7. SortEnter(34, c)'
        BY <2>2, <2>4, <2>5, <2>6 DEF SortEnter
    <2> QED
        BY <1>3, <2>1, <2>7, NoRet DEF EnterLines
<1>8. CASE k = 34
    <2>1. At(34, "movl_imm_reg", 8, 0, 1)
        BY <1>1, <1>2, <1>8, OnIs DEF SortCode
    <2>2. SortFrame(c, c, 4, 0, 3, <<SortCall>>)
        BY <1>8 DEF SortEnter
    <2>3. Sets(34 + 1, 8, 1)
        BY <1>1, <2>1, MovlImmLine
    <2>4. SortFrame(c, c, 4, 0, 3, <<SortCall>>)' /\ On(35)' /\ registers'[8] = 1
          /\ registers'[4] = registers[4] /\ registers'[5] = registers[5]
        BY <1>1, <2>2, <2>3, SortKeeps
    <2>5. SortEnter(35, c)'
        BY <1>8, <2>4 DEF SortEnter
    <2> QED
        BY <1>3, <2>1, <2>5, NoRet DEF EnterLines
<1>9. CASE k = 35
    <2>1. At(35, "cmpl", 8, 4, 0)
        BY <1>1, <1>2, <1>9, OnIs DEF SortCode
    <2>2. SortFrame(c, c, 4, 0, 3, <<SortCall>>) /\ registers[4] = 3 /\ registers[8] = 1
        BY <1>9 DEF SortEnter
    <2>3. /\ Goes(35 + 1) /\ \A s \in Nat : s < 16 => registers'[s] = registers[s]
          /\ compared' = <<1, 3>> /\ UNCHANGED <<memory, scanned, printed, calls>>
        BY <1>1, <2>1, <2>2, CmplLine DEF TestsInv, FlagsInv
    <2>4. SortFrame(c, c, 4, 0, 3, <<SortCall>>)' /\ On(36)' /\ registers'[5] = registers[5]
        BY <1>1, <2>2, <2>3, SortKeepsAll
    <2>5. SortEnter(36, c)'
        BY <1>9, <2>3, <2>4 DEF SortEnter
    <2> QED
        BY <1>3, <2>1, <2>5, NoRet DEF EnterLines
<1>10. CASE k = 36
    <2>1. At(36, "jle", 0, 0, 116)
        BY <1>1, <1>2, <1>10, OnIs DEF SortCode
    <2>2. SortFrame(c, c, 4, 0, 3, <<SortCall>>) /\ compared = <<1, 3>>
        BY <1>10 DEF SortEnter
    <2>3. Registers(36 + 1, registers)
        <3>1. 66 \in Nat \ {0} /\ 66 <= Len(instructions) /\ 116 = 4 * (66 - 36 - 1) /\ "jle" \in Conditional
            BY <1>1 DEF Conditional
        <3>2. ~Misjudged(build, 1, 3) /\ ~Holds("jle", 1, 3)
            BY Machine DEF Misjudged, Holds
        <3> QED
            BY <1>1, <2>1, <2>2, <3>1, <3>2, SortDecides
    <2>4. Goes(37) /\ UNCHANGED <<registers, memory, scanned, printed, calls>>
        BY <2>3 DEF Registers
    <2>5. SortFrame(c, c, 4, 0, 3, <<SortCall>>)' /\ On(37)'
        BY <1>1, <2>2, <2>4, SortKeepsAll
    <2>6. SortEnter(37, c)'
        BY <1>10, <2>4, <2>5 DEF SortEnter
    <2> QED
        BY <1>3, <2>1, <2>6, NoRet DEF EnterLines
<1>11. CASE k = 37
    <2>1. At(37, "movl_reg_reg", 5, 1, 0)
        BY <1>1, <1>2, <1>11, OnIs DEF SortCode
    <2>2. SortFrame(c, c, 4, 0, 3, <<SortCall>>) /\ registers[5] = STACK_SIZE - 32
        BY <1>11 DEF SortEnter
    <2>3. Sets(37 + 1, 1, STACK_SIZE - 32)
        BY <1>1, <2>1, <2>2, MovlRegLine
    <2>4. /\ registers'[1] = STACK_SIZE - 32 /\ registers'[7] = registers[7] /\ registers'[6] = registers[6]
          /\ UNCHANGED <<memory, scanned, printed, calls>>
        BY <2>3 DEF Sets, Writes
    <2>5. On(38)'
        BY <1>1, <2>3, GoesOn DEF Sets
    <2>6. SortFrame(c, c, 4, STACK_SIZE - 32, 3, <<SortCall>>)'
        BY <2>2, <2>4 DEF SortFrame
    <2>7. SortEnter(38, c)'
        BY <2>5, <2>6 DEF SortEnter
    <2> QED
        BY <1>3, <2>1, <2>7, NoRet DEF EnterLines
<1>12. CASE k = 38
    <2>1. At(38, "movl_imm_reg", 4, 0, 0)
        BY <1>1, <1>2, <1>12, OnIs DEF SortCode
    <2>2. SortFrame(c, c, 4, STACK_SIZE - 32, 3, <<SortCall>>)
        BY <1>12 DEF SortEnter
    <2>3. Sets(38 + 1, 4, 0)
        BY <1>1, <2>1, MovlImmLine
    <2>4. SortFrame(c, c, 4, STACK_SIZE - 32, 3, <<SortCall>>)' /\ On(39)' /\ registers'[4] = 0
        BY <1>1, <2>2, <2>3, SortKeeps
    <2>5. SortEnter(39, c)'
        BY <2>4 DEF SortEnter
    <2> QED
        BY <1>3, <2>1, <2>5, NoRet DEF EnterLines
<1>13. CASE k = 39
    <2>1. At(39, "jmp", 0, 0, 96)
        BY <1>1, <1>2, <1>13, OnIs DEF SortCode
    <2>2. SortFrame(c, c, 4, STACK_SIZE - 32, 3, <<SortCall>>) /\ registers[4] = 0
        BY <1>13 DEF SortEnter
    <2>3. Registers(64, registers)
        <3>1. 64 \in Nat \ {0} /\ 64 <= Len(instructions) /\ 96 = 4 * (64 - 39 - 1)
            BY <1>1
        <3> QED
            BY <1>1, <2>1, <3>1, JmpLine
    <2>4. Goes(64) /\ UNCHANGED <<registers, memory, scanned, printed, calls>>
        BY <2>3 DEF Registers
    <2>5. SortFrame(c, c, 4, STACK_SIZE - 32, 3, <<SortCall>>)' /\ On(64)' /\ registers'[4] = 0
        BY <1>1, <2>2, <2>4, SortKeepsAll
    <2>6. LeftSorted(build', scanned', c, 0)
        BY DEF LeftSorted
    <2>7. SortOuter(64, c, 0)'
        BY <2>5, <2>6 DEF SortOuter
    <2>8. SortInv'
        BY <2>7, SortStays DEF OuterLines
    <2> QED
        BY <2>1, <2>8, NoRet
<1> QED
    BY <1>4, <1>5, <1>6, <1>7, <1>8, <1>9, <1>10, <1>11, <1>12, <1>13 DEF EnterLines

\* ... and of those that restore them.
LEMMA SortLeaveStep ==
    ASSUME TestsInv, program = "sort", Next, NEW k \in LeaveLines, NEW c, SortLeave(k, c)
    PROVE  SortInv' /\ Returns
<1>1. SortCode(instructions) /\ Len(instructions) = 69 /\ Short /\ STACK_SIZE \in Nat /\ STACK_SIZE >= 64
    BY SortIs, Machine
<1>2. On(k) /\ LeftSorted(build, scanned, c, 3)
    BY DEF SortLeave
<1>3. ASSUME NEW l \in LeaveLines, SortLeave(l, c)' PROVE SortInv'
    BY <1>3, SortStays
<1>4. CASE k = 66
    <2>1. At(66, "popl", 1, 0, 0)
        BY <1>1, <1>2, <1>4, OnIs DEF SortCode
    <2>2. SortFrame(c, c, 4, STACK_SIZE - 32, 3, <<SortCall>>)
        BY <1>4 DEF SortLeave
    <2>3. SortFrame(c, c, 4 - 1, 0, 3, <<SortCall>>)' /\ On(66 + 1)' /\ registers'[1] = 0
          /\ UNCHANGED <<build, scanned>>
        BY <1>1, <2>1, <2>2, SortPop
    <2>4. SortLeave(67, c)'
        BY <1>2, <2>3 DEF SortLeave
    <2> QED
        BY <1>3, <2>1, <2>4, NoRet DEF LeaveLines
<1>5. CASE k = 67
    <2>1. At(67, "popl", 7, 0, 0)
        BY <1>1, <1>2, <1>5, OnIs DEF SortCode
    <2>2. SortFrame(c, c, 3, 0, 3, <<SortCall>>)
        BY <1>5 DEF SortLeave
    <2>3. SortFrame(c, c, 3 - 1, 0, 0, <<SortCall>>)' /\ On(67 + 1)' /\ registers'[7] = 0
          /\ UNCHANGED <<build, scanned>>
        BY <1>1, <2>1, <2>2, SortPop
    <2>4. SortLeave(68, c)'
        BY <1>2, <2>3 DEF SortLeave
    <2> QED
        BY <1>3, <2>1, <2>4, NoRet DEF LeaveLines
<1>6. CASE k = 68
    <2>1. At(68, "popl", 12, 0, 0)
        BY <1>1, <1>2, <1>6, OnIs DEF SortCode
    <2>2. SortFrame(c, c, 2, 0, 0, <<SortCall>>)
        BY <1>6 DEF SortLeave
    <2>3. SortFrame(c, c, 2 - 1, 0, 0, <<SortCall>>)' /\ On(68 + 1)' /\ registers'[12] = 0
          /\ UNCHANGED <<build, scanned>>
        BY <1>1, <2>1, <2>2, SortPop
    <2>4. SortLeave(69, c)'
        BY <1>2, <2>3 DEF SortLeave
    <2> QED
        BY <1>3, <2>1, <2>4, NoRet DEF LeaveLines
<1>7. CASE k = 69
    <2>1. At(69, "ret", 0, 0, 0)
        BY <1>1, <1>2, <1>7, OnIs DEF SortCode
    <2>2. /\ SortFrame(c, c, 1, 0, 0, <<SortCall>>) /\ registers[12] = 0
          /\ registers[6] = STACK_SIZE - 36 /\ WordAt(memory, STACK_SIZE - 36) = 4 * (11 - 1)
          /\ registers[1] = 0 /\ registers[7] = 0 /\ calls = <<SortCall>>
        BY <1>1, <1>7 DEF SortLeave, SortFrame, Pushed
    <2>3. /\ Goes(11) /\ Writes(6, registers[6] + 4)
          /\ calls' = IF calls = <<>> THEN <<>> ELSE SubSeq(calls, 1, Len(calls) - 1)
          /\ UNCHANGED <<memory, scanned, printed, compared>>
        <3>1. registers[6] >= 0 /\ registers[6] + 4 <= STACK_SIZE /\ 11 \in Nat \ {0}
              /\ 11 <= Len(instructions)
              /\ WordAt(memory, registers[6]) = 4 * (11 - 1)
            BY <1>1, <2>2
        <3> QED
            BY <1>1, <2>1, <3>1, RetLine
    <2>4. calls # <<>> /\ calls[Len(calls)] = SortCall /\ calls' = <<>>
        BY <2>2, <2>3, CallsAre
    <2>5. Keeps0(0, STACK_SIZE - 32)' /\ registers'[1] = 0 /\ registers'[6] = STACK_SIZE - 32
          /\ registers'[7] = 0 /\ registers'[12] = 0
        BY <1>1, <2>2, <2>3 DEF Writes, Keeps0
    <2>6. On(11)' /\ UNCHANGED build /\ program_counter' = 40
        BY <1>1, <2>3, GoesOn DEF Goes
    <2>7. SortPrint(11, c)'
        BY <1>2, <2>2, <2>3, <2>4, <2>5, <2>6 DEF SortPrint, SortFrame
    <2>8. Returns
        <3>1. Kept(registers') = Saved(0, STACK_SIZE - 32, 0, 0)
            BY <2>5, KeptIs
        <3>2. registers[ESP] # STACK_SIZE
            BY <1>1, <2>2 DEF ESP
        <3> QED
            BY <2>4, <2>6, <3>1, <3>2 DEF Returns, SortCall
    <2> QED
        BY <2>7, <2>8, SortStays
<1> QED
    BY <1>4, <1>5, <1>6, <1>7 DEF LeaveLines

\* Small numbers, and the places of the array, are words.
LEMMA SortSigned ==
    ASSUME NEW q \in 0 .. 3
    PROVE  /\ Signed(q) = q /\ Signed(q + 1) = q + 1 /\ Signed(4 * q) = 4 * q
           /\ Signed(STACK_SIZE - 32 + 4 * q) = STACK_SIZE - 32 + 4 * q
           /\ q <= 2 => OnStack(STACK_SIZE - 32 + 4 * q)
<1>1. STACK_SIZE \in Nat /\ STACK_SIZE >= 64 /\ WORD = 4
    BY Machine
<1> DEFINE q1 == q + 1
           q4 == 4 * q
           qs == STACK_SIZE - 32 + 4 * q
<1>2. /\ q \in Int /\ q >= -4 /\ q <= STACK_SIZE
      /\ q1 \in Int /\ q1 >= -4 /\ q1 <= STACK_SIZE
      /\ q4 \in Int /\ q4 >= -4 /\ q4 <= STACK_SIZE
      /\ qs \in Int /\ qs >= -4 /\ qs <= STACK_SIZE
      /\ q <= 2 => OnStack(qs)
    BY <1>1 DEF OnStack
<1> HIDE DEF q1, q4, qs
<1>3. Signed(q) = q /\ Signed(q1) = q1 /\ Signed(q4) = q4 /\ Signed(qs) = qs
    BY <1>2, StackPointer
<1> QED
    BY <1>2, <1>3 DEF q1, q4, qs

\* A step of the outer loop, around the search for the least number and the swap ...
LEMMA SortOuterStep ==
    ASSUME TestsInv, program = "sort", Next, NEW k \in OuterLines, NEW c, NEW i, SortOuter(k, c, i)
    PROVE  SortInv' /\ Returns
<1>1. SortCode(instructions) /\ Len(instructions) = 69 /\ Short /\ STACK_SIZE \in Nat /\ STACK_SIZE >= 64
    BY SortIs, Machine
<1>2. /\ On(k) /\ i \in 0 .. 3 /\ LeftSorted(build, scanned, c, i)
         /\ SortFrame(c, c, 4, STACK_SIZE - 32, 3, <<SortCall>>)
      /\ c \in [0 .. 2 -> Word] /\ registers[7] = 3
    BY DEF SortOuter, SortFrame
<1>3. ASSUME NEW l \in OuterLines, SortOuter(l, c, i)' PROVE SortInv'
    BY <1>3, SortStays
<1>4. Signed(i) = i /\ Signed(i + 1) = i + 1 /\ i \in Nat
    BY <1>2, SortSigned
<1>5. CASE k = 40
    <2>1. At(40, "movl_imm_reg", 12, 0, 1)
        BY <1>1, <1>2, <1>5, OnIs DEF SortCode
    <2>2. Sets(40 + 1, 12, 1)
        BY <1>1, <1>2, <1>4, <2>1, MovlImmLine
    <2>3. /\ SortFrame(c, c, 4, STACK_SIZE - 32, 3, <<SortCall>>)' /\ On(41)' /\ registers'[12] = 1
          /\ \A q \in Nat : q # 12 /\ q <= 16 => registers'[q] = registers[q]
          /\ UNCHANGED <<build, scanned, compared>>
        BY <1>1, <1>2, <2>2, SortKeeps
    <2>4. SortOuter(41, c, i)'
        BY <1>2, <1>5, <2>3 DEF SortOuter
    <2> QED
        BY <1>3, <2>1, <2>4, NoRet DEF OuterLines
<1>6. CASE k = 41
    <2>1. At(41, "addl_reg_reg", 4, 12, 0)
        BY <1>1, <1>2, <1>6, OnIs DEF SortCode
    <2>2. registers[4] = i /\ registers[12] = 1
        BY <1>1, <1>6 DEF SortOuter
    <2>3. Sets(41 + 1, 12, i + 1)
        BY <1>1, <1>2, <1>4, <2>1, <2>2, AddlRegLine
    <2>4. /\ SortFrame(c, c, 4, STACK_SIZE - 32, 3, <<SortCall>>)' /\ On(42)' /\ registers'[12] = i + 1
          /\ \A q \in Nat : q # 12 /\ q <= 16 => registers'[q] = registers[q]
          /\ UNCHANGED <<build, scanned, compared>>
        BY <1>1, <1>2, <2>3, SortKeeps
    <2>5. SortOuter(42, c, i)'
        BY <1>2, <1>6, <2>4 DEF SortOuter
    <2> QED
        BY <1>3, <2>1, <2>5, NoRet DEF OuterLines
<1>7. CASE k = 42
    <2>1. At(42, "movl_reg_reg", 4, 3, 0)
        BY <1>1, <1>2, <1>7, OnIs DEF SortCode
    <2>2. registers[4] = i
        BY <1>1, <1>7 DEF SortOuter
    <2>3. Sets(42 + 1, 3, i)
        BY <1>1, <1>2, <1>4, <2>1, <2>2, MovlRegLine
    <2>4. /\ SortFrame(c, c, 4, STACK_SIZE - 32, 3, <<SortCall>>)' /\ On(43)' /\ registers'[3] = i
          /\ \A q \in Nat : q # 3 /\ q <= 16 => registers'[q] = registers[q]
          /\ UNCHANGED <<build, scanned, compared>>
        BY <1>1, <1>2, <2>3, SortKeeps
    <2>5. SortOuter(43, c, i)'
        BY <1>2, <1>7, <2>4 DEF SortOuter
    <2> QED
        BY <1>3, <2>1, <2>5, NoRet DEF OuterLines
<1>8. CASE k = 43
    <2>1. At(43, "movl_reg_reg", 12, 0, 0)
        BY <1>1, <1>2, <1>8, OnIs DEF SortCode
    <2>2. registers[12] = i + 1
        BY <1>1, <1>8 DEF SortOuter
    <2>3. Sets(43 + 1, 0, i + 1)
        BY <1>1, <1>2, <1>4, <2>1, <2>2, MovlRegLine
    <2>4. /\ SortFrame(c, c, 4, STACK_SIZE - 32, 3, <<SortCall>>)' /\ On(44)' /\ registers'[0] = i + 1
          /\ \A q \in Nat : q # 0 /\ q <= 16 => registers'[q] = registers[q]
          /\ UNCHANGED <<build, scanned, compared>>
        BY <1>1, <1>2, <2>3, SortKeeps
    <2>5. SortOuter(44, c, i)'
        BY <1>2, <1>8, <2>4 DEF SortOuter
    <2> QED
        BY <1>3, <2>1, <2>5, NoRet DEF OuterLines
<1>9. CASE k = 44
    <2>1. At(44, "jmp", 0, 0, 56)
        BY <1>1, <1>2, <1>9, OnIs DEF SortCode
    <2>2. i <= 2 /\ registers[4] = i /\ registers[12] = i + 1 /\ registers[3] = i /\ registers[0] = i + 1
        BY <1>9 DEF SortOuter
    <2>3. Registers(59, registers)
        <3>1. 59 \in Nat \ {0} /\ 59 <= Len(instructions) /\ 56 = 4 * (59 - 44 - 1)
            BY <1>1
        <3> QED
            BY <1>1, <2>1, <3>1, JmpLine
    <2>4. Goes(59) /\ UNCHANGED <<registers, memory, scanned, printed, calls>>
        BY <2>3 DEF Registers
    <2>5. SortFrame(c, c, 4, STACK_SIZE - 32, 3, <<SortCall>>)' /\ On(59)' /\ UNCHANGED build
        BY <1>1, <1>2, <2>4, SortKeepsAll
    <2>6. LeastFrom(build, scanned, c, i, i, i + 1) /\ i \in 0 .. 2 /\ i \in i .. 2 /\ i + 1 \in i + 1 .. 3
        <3>1. c[i] <= c[i] /\ \A q \in 0 .. 2 : i <= q /\ q < i + 1 => q = i
            BY <1>2, <1>4, <2>2, Width DEF Word
        <3> QED
            BY <1>2, <2>2, <3>1 DEF LeastFrom
    <2>7. SortInner(59, c, i, i, i + 1)'
        BY <1>2, <2>2, <2>4, <2>5, <2>6 DEF SortInner
    <2>8. SortInv'
        BY <2>7, SortStays DEF InnerLines
    <2> QED
        BY <2>1, <2>8, NoRet
<1>10. CASE k = 63
    <2>1. At(63, "movl_reg_reg", 12, 4, 0)
        BY <1>1, <1>2, <1>10, OnIs DEF SortCode
    <2>2. registers[12] = i
        BY <1>1, <1>10 DEF SortOuter
    <2>3. Sets(63 + 1, 4, i)
        BY <1>1, <1>2, <1>4, <2>1, <2>2, MovlRegLine
    <2>4. /\ SortFrame(c, c, 4, STACK_SIZE - 32, 3, <<SortCall>>)' /\ On(64)' /\ registers'[4] = i
          /\ \A q \in Nat : q # 4 /\ q <= 16 => registers'[q] = registers[q]
          /\ UNCHANGED <<build, scanned, compared>>
        BY <1>1, <1>2, <2>3, SortKeeps
    <2>5. SortOuter(64, c, i)'
        BY <1>2, <1>10, <2>4 DEF SortOuter
    <2> QED
        BY <1>3, <2>1, <2>5, NoRet DEF OuterLines
<1>11. CASE k = 64
    <2>1. At(64, "cmpl", 7, 4, 0)
        BY <1>1, <1>2, <1>11, OnIs DEF SortCode
    <2>2. registers[4] = i
        BY <1>11 DEF SortOuter
    <2>3. /\ Goes(64 + 1) /\ \A s \in Nat : s < 16 => registers'[s] = registers[s]
          /\ compared' = <<3, i>> /\ UNCHANGED <<memory, scanned, printed, calls>>
        BY <1>1, <1>2, <2>1, <2>2, CmplLine DEF TestsInv, FlagsInv
    <2>4. SortFrame(c, c, 4, STACK_SIZE - 32, 3, <<SortCall>>)' /\ On(65)' /\ registers'[4] = i
          /\ UNCHANGED build
        BY <1>1, <1>2, <2>2, <2>3, SortKeepsAll
    <2>5. SortOuter(65, c, i)'
        BY <1>2, <2>3, <2>4 DEF SortOuter
    <2> QED
        BY <1>3, <2>1, <2>5, NoRet DEF OuterLines
<1>12. CASE k = 65
    <2>1. At(65, "jl", 0, 0, -104)
        BY <1>1, <1>2, <1>12, OnIs DEF SortCode
    <2>2. registers[4] = i /\ compared = <<3, i>>
        BY <1>12 DEF SortOuter
    <2>3. (i < 3 => Registers(40, registers)) /\ (~(i < 3) => Registers(65 + 1, registers))
        <3>1. 40 \in Nat \ {0} /\ 40 <= Len(instructions) /\ -104 = 4 * (40 - 65 - 1) /\ "jl" \in Conditional
            BY <1>1 DEF Conditional
        <3>2. ~Misjudged(build, 3, i) /\ (Holds("jl", 3, i) <=> i < 3)
            BY <1>4, Machine DEF Misjudged, Holds
        <3> QED
            BY <1>1, <1>4, <2>1, <2>2, <3>1, <3>2, SortDecides
    <2>4. ASSUME NEW l \in {40, 66}, Registers(l, registers)
          PROVE  SortFrame(c, c, 4, STACK_SIZE - 32, 3, <<SortCall>>)' /\ On(l)'
                 /\ UNCHANGED <<registers, build, scanned>>
        <3>1. Goes(l) /\ UNCHANGED <<registers, memory, scanned, printed, calls>>
            BY <2>4 DEF Registers
        <3> QED
            BY <1>1, <1>2, <3>1, SortKeepsAll
    <2>5. CASE i < 3
        <3>1. SortOuter(40, c, i)'
            BY <1>2, <2>2, <2>3, <2>4, <2>5 DEF SortOuter
        <3> QED
            BY <1>3, <2>1, <3>1, NoRet DEF OuterLines
    <2>6. CASE ~(i < 3)
        <3>1. i = 3
            BY <1>2, <2>6
        <3>2. SortLeave(66, c)'
            BY <1>2, <2>3, <2>4, <3>1 DEF SortLeave
        <3>3. SortInv'
            BY <3>2, SortStays DEF LeaveLines
        <3> QED
            BY <2>1, <3>3, NoRet
    <2> QED
        BY <2>5, <2>6
<1> QED
    BY <1>5, <1>6, <1>7, <1>8, <1>9, <1>10, <1>11, <1>12 DEF OuterLines

\* Two numbers of the array that the flags misjudge are among those read.
LEMMA SortMisjudged ==
    ASSUME NEW how, NEW s, NEW c, Three(s), Shuffled(c, s), NEW m \in 0 .. 2, NEW j \in 0 .. 2,
           Misjudged(how, c[m], c[j])
    PROVE  Excused(how, s)
<1>1. c[m] = INT_MIN /\ c[j] = 0 /\ how = "wraps"
    BY DEF Misjudged
<1>2. DOMAIN s = 1 .. 3
    BY DEF Three
<1>3. \A q \in 0 .. 2 : c[q] \in {s[1], s[2], s[3]}
    BY DEF Shuffled
<1>4. \A q \in 0 .. 2 : c[q] \in {s[i] : i \in DOMAIN s}
    BY <1>2, <1>3
<1> QED
    BY <1>1, <1>4 DEF Excused

\* ... a step of the inner loop, which reads each number and keeps the index of the
\* least one so far ...
LEMMA SortInnerStep ==
    ASSUME TestsInv, program = "sort", Next, NEW k \in InnerLines, NEW c, NEW i, NEW m, NEW j,
           SortInner(k, c, i, m, j)
    PROVE  SortInv' /\ Returns
<1>1. SortCode(instructions) /\ Len(instructions) = 69 /\ Short /\ STACK_SIZE \in Nat /\ STACK_SIZE >= 64
    BY SortIs, Machine
<1>2. /\ On(k) /\ i \in 0 .. 2 /\ m \in i .. 2 /\ j \in i + 1 .. 3 /\ LeftSorted(build, scanned, c, i)
      /\ SortFrame(c, c, 4, STACK_SIZE - 32, 3, <<SortCall>>) /\ c \in [0 .. 2 -> Word]
      /\ registers[1] = STACK_SIZE - 32 /\ registers[7] = 3 /\ registers[4] = i /\ registers[12] = i + 1
      /\ registers[0] = j /\ registers[3] = m
    BY DEF SortInner, SortFrame
<1>3. ASSUME NEW l \in InnerLines, NEW m1, NEW j1, SortInner(l, c, i, m1, j1)' PROVE SortInv'
    BY <1>3, SortStays
<1>4. /\ i \in Nat /\ m \in Nat /\ j \in Nat /\ m \in 0 .. 3 /\ j \in 0 .. 3
      /\ Signed(j + 1) = j + 1 /\ Signed(4 * m) = 4 * m /\ Signed(4 * j) = 4 * j
      /\ Signed(STACK_SIZE - 32 + 4 * m) = STACK_SIZE - 32 + 4 * m
         /\ Signed(STACK_SIZE - 32 + 4 * j) = STACK_SIZE - 32 + 4 * j
      /\ m \in 0 .. 2 /\ OnStack(STACK_SIZE - 32 + 4 * m)
         /\ (j <= 2 => OnStack(STACK_SIZE - 32 + 4 * j) /\ j \in 0 .. 2)
    <2>1. m \in 0 .. 3 /\ j \in 0 .. 3 /\ i \in Nat /\ m \in 0 .. 2 /\ (j <= 2 => j \in 0 .. 2)
        BY <1>2
    <2> QED
        BY <2>1, SortSigned
<1>5. k # 58 => LeastFrom(build, scanned, c, i, m, j)
    BY DEF SortInner
<1>6. \A q \in 0 .. 2 : WordAt(memory, STACK_SIZE - 32 + 4 * q) = c[q] /\ c[q] \in Int
    BY <1>2, Width DEF SortFrame, ArrayIs, Word
<1>7. CASE k = 45
    <2>1. At(45, "movl_reg_reg", 0, 5, 0)
        BY <1>1, <1>2, <1>7, OnIs DEF SortCode
    <2>2. j <= 2
        BY <1>7 DEF SortInner
    <2>3. Sets(45 + 1, 5, j)
        BY <1>1, <1>2, <1>4, <2>1, <2>2, MovlRegLine
    <2>4. /\ SortFrame(c, c, 4, STACK_SIZE - 32, 3, <<SortCall>>)' /\ On(46)' /\ registers'[5] = j
          /\ \A q \in Nat : q # 5 /\ q <= 16 => registers'[q] = registers[q]
          /\ UNCHANGED <<build, scanned, compared>>
        BY <1>1, <1>2, <2>3, SortKeeps
    <2>5. SortInner(46, c, i, m, j)'
        BY <1>2, <1>5, <1>7, <2>2, <2>4 DEF SortInner
    <2> QED
        BY <1>3, <2>1, <2>5, NoRet DEF InnerLines
<1>8. CASE k = 46
    <2>1. At(46, "movl_reg_reg", 3, 2, 0)
        BY <1>1, <1>2, <1>8, OnIs DEF SortCode
    <2>2. j <= 2 /\ registers[5] = j
        BY <1>8 DEF SortInner
    <2>3. Sets(46 + 1, 2, m)
        BY <1>1, <1>2, <1>4, <2>1, <2>2, MovlRegLine
    <2>4. /\ SortFrame(c, c, 4, STACK_SIZE - 32, 3, <<SortCall>>)' /\ On(47)' /\ registers'[2] = m
          /\ \A q \in Nat : q # 2 /\ q <= 16 => registers'[q] = registers[q]
          /\ UNCHANGED <<build, scanned, compared>>
        BY <1>1, <1>2, <2>3, SortKeeps
    <2>5. SortInner(47, c, i, m, j)'
        BY <1>2, <1>5, <1>8, <2>2, <2>4 DEF SortInner
    <2> QED
        BY <1>3, <2>1, <2>5, NoRet DEF InnerLines
<1>9. CASE k = 47
    <2>1. At(47, "movl_imm_reg", 8, 0, 4)
        BY <1>1, <1>2, <1>9, OnIs DEF SortCode
    <2>2. j <= 2 /\ registers[5] = j /\ registers[2] = m
        BY <1>9 DEF SortInner
    <2>3. Sets(47 + 1, 8, 4)
        BY <1>1, <1>2, <1>4, <2>1, <2>2, MovlImmLine
    <2>4. /\ SortFrame(c, c, 4, STACK_SIZE - 32, 3, <<SortCall>>)' /\ On(48)' /\ registers'[8] = 4
          /\ \A q \in Nat : q # 8 /\ q <= 16 => registers'[q] = registers[q]
          /\ UNCHANGED <<build, scanned, compared>>
        BY <1>1, <1>2, <2>3, SortKeeps
    <2>5. SortInner(48, c, i, m, j)'
        BY <1>2, <1>5, <1>9, <2>2, <2>4 DEF SortInner
    <2> QED
        BY <1>3, <2>1, <2>5, NoRet DEF InnerLines
<1>10. CASE k = 48
    <2>1. At(48, "imull", 2, 8, 0)
        BY <1>1, <1>2, <1>10, OnIs DEF SortCode
    <2>2. j <= 2 /\ registers[5] = j /\ registers[2] = m /\ registers[8] = 4
        BY <1>10 DEF SortInner
    <2>3. registers[2] * registers[8] = 4 * m
        BY <1>1, <1>2, <1>4, <1>6, <2>2
    <2>4. Sets(48 + 1, 8, 4 * m)
        BY <1>1, <1>2, <1>4, <2>1, <2>2, <2>3, ImullLine
    <2>5. /\ SortFrame(c, c, 4, STACK_SIZE - 32, 3, <<SortCall>>)' /\ On(49)' /\ registers'[8] = 4 * m
          /\ \A q \in Nat : q # 8 /\ q <= 16 => registers'[q] = registers[q]
          /\ UNCHANGED <<build, scanned, compared>>
        BY <1>1, <1>2, <2>4, SortKeeps
    <2>6. SortInner(49, c, i, m, j)'
        BY <1>2, <1>5, <1>10, <2>2, <2>5 DEF SortInner
    <2> QED
        BY <1>3, <2>1, <2>6, NoRet DEF InnerLines
<1>11. CASE k = 49
    <2>1. At(49, "addl_reg_reg", 1, 8, 0)
        BY <1>1, <1>2, <1>11, OnIs DEF SortCode
    <2>2. j <= 2 /\ registers[5] = j /\ registers[8] = 4 * m
        BY <1>11 DEF SortInner
    <2>3. registers[1] + registers[8] = STACK_SIZE - 32 + 4 * m
        BY <1>1, <1>2, <1>4, <1>6, <2>2
    <2>4. Sets(49 + 1, 8, STACK_SIZE - 32 + 4 * m)
        BY <1>1, <1>2, <1>4, <2>1, <2>2, <2>3, AddlRegLine
    <2>5. /\ SortFrame(c, c, 4, STACK_SIZE - 32, 3, <<SortCall>>)' /\ On(50)'
             /\ registers'[8] = STACK_SIZE - 32 + 4 * m
          /\ \A q \in Nat : q # 8 /\ q <= 16 => registers'[q] = registers[q]
          /\ UNCHANGED <<build, scanned, compared>>
        BY <1>1, <1>2, <2>4, SortKeeps
    <2>6. SortInner(50, c, i, m, j)'
        BY <1>2, <1>5, <1>11, <2>2, <2>5 DEF SortInner
    <2> QED
        BY <1>3, <2>1, <2>6, NoRet DEF InnerLines
<1>12. CASE k = 50
    <2>1. At(50, "movl_deref_reg", 8, 2, 0)
        BY <1>1, <1>2, <1>12, OnIs DEF SortCode
    <2>2. j <= 2 /\ registers[5] = j /\ registers[8] = STACK_SIZE - 32 + 4 * m
        BY <1>12 DEF SortInner
    <2>3. registers[8] + 0 = STACK_SIZE - 32 + 4 * m /\ WordAt(memory, STACK_SIZE - 32 + 4 * m) = c[m]
        BY <1>1, <1>2, <1>4, <1>6, <2>2
    <2>4. Sets(50 + 1, 2, c[m])
        BY <1>1, <1>2, <1>4, <2>1, <2>2, <2>3, LoadLine
    <2>5. /\ SortFrame(c, c, 4, STACK_SIZE - 32, 3, <<SortCall>>)' /\ On(51)' /\ registers'[2] = c[m]
          /\ \A q \in Nat : q # 2 /\ q <= 16 => registers'[q] = registers[q]
          /\ UNCHANGED <<build, scanned, compared>>
        BY <1>1, <1>2, <2>4, SortKeeps
    <2>6. SortInner(51, c, i, m, j)'
        BY <1>2, <1>5, <1>12, <2>2, <2>5 DEF SortInner
    <2> QED
        BY <1>3, <2>1, <2>6, NoRet DEF InnerLines
<1>13. CASE k = 51
    <2>1. At(51, "movl_imm_reg", 8, 0, 4)
        BY <1>1, <1>2, <1>13, OnIs DEF SortCode
    <2>2. j <= 2 /\ registers[5] = j /\ registers[2] = c[m]
        BY <1>13 DEF SortInner
    <2>3. Sets(51 + 1, 8, 4)
        BY <1>1, <1>2, <1>4, <2>1, <2>2, MovlImmLine
    <2>4. /\ SortFrame(c, c, 4, STACK_SIZE - 32, 3, <<SortCall>>)' /\ On(52)' /\ registers'[8] = 4
          /\ \A q \in Nat : q # 8 /\ q <= 16 => registers'[q] = registers[q]
          /\ UNCHANGED <<build, scanned, compared>>
        BY <1>1, <1>2, <2>3, SortKeeps
    <2>5. SortInner(52, c, i, m, j)'
        BY <1>2, <1>5, <1>13, <2>2, <2>4 DEF SortInner
    <2> QED
        BY <1>3, <2>1, <2>5, NoRet DEF InnerLines
<1>14. CASE k = 52
    <2>1. At(52, "imull", 5, 8, 0)
        BY <1>1, <1>2, <1>14, OnIs DEF SortCode
    <2>2. j <= 2 /\ registers[5] = j /\ registers[2] = c[m] /\ registers[8] = 4
        BY <1>14 DEF SortInner
    <2>3. registers[5] * registers[8] = 4 * j
        BY <1>1, <1>2, <1>4, <1>6, <2>2
    <2>4. Sets(52 + 1, 8, 4 * j)
        BY <1>1, <1>2, <1>4, <2>1, <2>2, <2>3, ImullLine
    <2>5. /\ SortFrame(c, c, 4, STACK_SIZE - 32, 3, <<SortCall>>)' /\ On(53)' /\ registers'[8] = 4 * j
          /\ \A q \in Nat : q # 8 /\ q <= 16 => registers'[q] = registers[q]
          /\ UNCHANGED <<build, scanned, compared>>
        BY <1>1, <1>2, <2>4, SortKeeps
    <2>6. SortInner(53, c, i, m, j)'
        BY <1>2, <1>5, <1>14, <2>2, <2>5 DEF SortInner
    <2> QED
        BY <1>3, <2>1, <2>6, NoRet DEF InnerLines
<1>15. CASE k = 53
    <2>1. At(53, "addl_reg_reg", 1, 8, 0)
        BY <1>1, <1>2, <1>15, OnIs DEF SortCode
    <2>2. j <= 2 /\ registers[2] = c[m] /\ registers[8] = 4 * j
        BY <1>15 DEF SortInner
    <2>3. registers[1] + registers[8] = STACK_SIZE - 32 + 4 * j
        BY <1>1, <1>2, <1>4, <1>6, <2>2
    <2>4. Sets(53 + 1, 8, STACK_SIZE - 32 + 4 * j)
        BY <1>1, <1>2, <1>4, <2>1, <2>2, <2>3, AddlRegLine
    <2>5. /\ SortFrame(c, c, 4, STACK_SIZE - 32, 3, <<SortCall>>)' /\ On(54)'
             /\ registers'[8] = STACK_SIZE - 32 + 4 * j
          /\ \A q \in Nat : q # 8 /\ q <= 16 => registers'[q] = registers[q]
          /\ UNCHANGED <<build, scanned, compared>>
        BY <1>1, <1>2, <2>4, SortKeeps
    <2>6. SortInner(54, c, i, m, j)'
        BY <1>2, <1>5, <1>15, <2>2, <2>5 DEF SortInner
    <2> QED
        BY <1>3, <2>1, <2>6, NoRet DEF InnerLines
<1>16. CASE k = 54
    <2>1. At(54, "movl_deref_reg", 8, 8, 0)
        BY <1>1, <1>2, <1>16, OnIs DEF SortCode
    <2>2. j <= 2 /\ registers[2] = c[m] /\ registers[8] = STACK_SIZE - 32 + 4 * j
        BY <1>16 DEF SortInner
    <2>3. registers[8] + 0 = STACK_SIZE - 32 + 4 * j /\ WordAt(memory, STACK_SIZE - 32 + 4 * j) = c[j]
        BY <1>1, <1>2, <1>4, <1>6, <2>2
    <2>4. Sets(54 + 1, 8, c[j])
        BY <1>1, <1>2, <1>4, <2>1, <2>2, <2>3, LoadLine
    <2>5. /\ SortFrame(c, c, 4, STACK_SIZE - 32, 3, <<SortCall>>)' /\ On(55)' /\ registers'[8] = c[j]
          /\ \A q \in Nat : q # 8 /\ q <= 16 => registers'[q] = registers[q]
          /\ UNCHANGED <<build, scanned, compared>>
        BY <1>1, <1>2, <2>4, SortKeeps
    <2>6. SortInner(55, c, i, m, j)'
        BY <1>2, <1>5, <1>16, <2>2, <2>5 DEF SortInner
    <2> QED
        BY <1>3, <2>1, <2>6, NoRet DEF InnerLines
<1>17. CASE k = 55
    <2>1. At(55, "cmpl", 2, 8, 0)
        BY <1>1, <1>2, <1>17, OnIs DEF SortCode
    <2>2. j <= 2 /\ registers[2] = c[m] /\ registers[8] = c[j]
        BY <1>17 DEF SortInner
    <2>3. /\ Goes(55 + 1) /\ \A s \in Nat : s < 16 => registers'[s] = registers[s]
          /\ compared' = <<c[m], c[j]>> /\ UNCHANGED <<memory, scanned, printed, calls>>
        <3>1. /\ Goes(55 + 1) /\ \A s \in Nat : s < 16 => registers'[s] = registers[s]
              /\ compared' = <<registers[2], registers[8]>> /\ UNCHANGED <<memory, scanned, printed, calls>>
            BY <1>1, <2>1, CmplLine DEF TestsInv, FlagsInv
        <3> QED
            BY <2>2, <3>1
    <2>4. SortFrame(c, c, 4, STACK_SIZE - 32, 3, <<SortCall>>)' /\ On(56)' /\ UNCHANGED build
        BY <1>1, <1>2, <2>3, SortKeepsAll
    <2>5. SortInner(56, c, i, m, j)'
        BY <1>2, <1>5, <1>17, <2>2, <2>3, <2>4 DEF SortInner
    <2> QED
        BY <1>3, <2>1, <2>5, NoRet DEF InnerLines
<1>18. CASE k = 56
    <2>1. At(56, "jge", 0, 0, 4)
        BY <1>1, <1>2, <1>18, OnIs DEF SortCode
    <2>2. j <= 2 /\ compared = <<c[m], c[j]>> /\ LeastFrom(build, scanned, c, i, m, j)
        BY <1>5, <1>18 DEF SortInner
    <2>3. 58 \in Nat \ {0} /\ 58 <= Len(instructions) /\ 4 = 4 * (58 - 56 - 1) /\ "jge" \in Conditional
        BY <1>1 DEF Conditional
    <2>4. \/ Registers(58, registers) /\ (Excused(build, scanned) \/ c[m] <= c[j])
          \/ Registers(56 + 1, registers) /\ (Excused(build, scanned) \/ c[j] < c[m])
        <3>1. CASE Excused(build, scanned)
            <4>1. Registers(58, registers) \/ Registers(56 + 1, registers)
                BY <1>1, <2>1, <2>3, JccLine
            <4> QED
                BY <3>1, <4>1
        <3>2. CASE ~Excused(build, scanned)
            <4>1. ~Misjudged(build, c[m], c[j])
                BY <1>2, <1>4, <2>2, <3>2, SortMisjudged DEF SortFrame
            <4>2. Holds("jge", c[m], c[j]) <=> c[j] >= c[m]
                BY DEF Holds
            <4> DEFINE x == c[m]
                       y == c[j]
            <4>3. x \in Int /\ y \in Int /\ compared = <<x, y>> /\ ~Misjudged(build, x, y)
                BY <1>4, <1>6, <2>2, <4>1
            <4> HIDE DEF x, y
            <4>4. /\ Holds("jge", x, y) => Registers(58, registers)
                  /\ ~Holds("jge", x, y) => Registers(56 + 1, registers)
                BY <1>1, <2>1, <2>3, <4>3, SortDecides
            <4> QED
                BY <4>2, <4>3, <4>4 DEF x, y
        <3> QED
            BY <3>1, <3>2
    <2>5. ASSUME NEW l \in {57, 58}, Registers(l, registers)
          PROVE  SortFrame(c, c, 4, STACK_SIZE - 32, 3, <<SortCall>>)' /\ On(l)'
                 /\ UNCHANGED <<registers, build, scanned>>
        <3>1. Goes(l) /\ UNCHANGED <<registers, memory, scanned, printed, calls>>
            BY <2>5 DEF Registers
        <3> QED
            BY <1>1, <1>2, <3>1, SortKeepsAll
    <2>6. CASE Registers(58, registers) /\ (Excused(build, scanned) \/ c[m] <= c[j])
        <3>1. LeastFrom(build, scanned, c, i, m, j + 1)
            BY <1>2, <1>4, <2>2, <2>6 DEF LeastFrom
        <3>2. SortInner(58, c, i, m, j)'
            BY <1>2, <2>2, <2>5, <2>6, <3>1 DEF SortInner
        <3> QED
            BY <1>3, <2>1, <3>2, NoRet DEF InnerLines
    <2>7. CASE Registers(56 + 1, registers) /\ (Excused(build, scanned) \/ c[j] < c[m])
        <3>1. SortInner(57, c, i, m, j)'
            BY <1>2, <2>2, <2>5, <2>7 DEF SortInner
        <3> QED
            BY <1>3, <2>1, <3>1, NoRet DEF InnerLines
    <2> QED
        BY <2>4, <2>6, <2>7
<1>19. CASE k = 57
    <2>1. At(57, "movl_reg_reg", 0, 3, 0)
        BY <1>1, <1>2, <1>19, OnIs DEF SortCode
    <2>2. j <= 2 /\ (Excused(build, scanned) \/ c[j] < c[m]) /\ LeastFrom(build, scanned, c, i, m, j)
        BY <1>5, <1>19 DEF SortInner
    <2>3. Sets(57 + 1, 3, j)
        BY <1>1, <1>2, <2>1, MovlRegLine
    <2>4. /\ SortFrame(c, c, 4, STACK_SIZE - 32, 3, <<SortCall>>)' /\ On(58)' /\ registers'[3] = j
          /\ \A q \in Nat : q # 3 /\ q <= 16 => registers'[q] = registers[q]
          /\ UNCHANGED <<build, scanned, compared>>
        BY <1>1, <1>2, <2>3, SortKeeps
    <2>5. LeastFrom(build, scanned, c, i, j, j + 1) /\ j \in i .. 2
        <3>1. CASE Excused(build, scanned)
            BY <1>2, <1>4, <2>2, <3>1 DEF LeastFrom
        <3>2. CASE ~Excused(build, scanned)
            <4>1. ASSUME NEW q \in 0 .. 2, i <= q, q < j + 1 PROVE c[j] <= c[q]
                <5>1. c[j] \in Int /\ c[q] \in Int /\ c[m] \in Int /\ c[j] < c[m]
                    BY <1>4, <1>6, <2>2, <3>2
                <5>2. q < j => c[m] <= c[q]
                    BY <2>2, <3>2, <4>1 DEF LeastFrom
                <5>3. q < j \/ q = j
                    BY <1>4, <4>1
                <5> QED
                    BY <5>1, <5>2, <5>3
            <4>2. j \in i .. 2
                BY <1>2, <1>4, <2>2
            <4> QED
                BY <4>1, <4>2 DEF LeastFrom
        <3> QED
            BY <3>1, <3>2
    <2>6. SortInner(58, c, i, j, j)'
        BY <1>2, <2>2, <2>4, <2>5 DEF SortInner
    <2> QED
        BY <1>3, <2>1, <2>6, NoRet DEF InnerLines
<1>20. CASE k = 58
    <2>1. At(58, "addl_imm_reg", 0, 0, 1)
        BY <1>1, <1>2, <1>20, OnIs DEF SortCode
    <2>2. j <= 2 /\ LeastFrom(build, scanned, c, i, m, j + 1)
        BY <1>20 DEF SortInner
    <2>3. Sets(58 + 1, 0, j + 1)
        BY <1>1, <1>2, <1>4, <2>1, AddlImmLine
    <2>4. /\ SortFrame(c, c, 4, STACK_SIZE - 32, 3, <<SortCall>>)' /\ On(59)' /\ registers'[0] = j + 1
          /\ \A q \in Nat : q # 0 /\ q <= 16 => registers'[q] = registers[q]
          /\ UNCHANGED <<build, scanned, compared>>
        BY <1>1, <1>2, <2>3, SortKeeps
    <2>5. j + 1 \in i + 1 .. 3
        BY <1>2, <1>4, <2>2
    <2>6. SortInner(59, c, i, m, j + 1)'
        BY <1>2, <2>2, <2>4, <2>5 DEF SortInner
    <2> QED
        BY <1>3, <2>1, <2>6, NoRet DEF InnerLines
<1>21. CASE k = 59
    <2>1. At(59, "cmpl", 7, 0, 0)
        BY <1>1, <1>2, <1>21, OnIs DEF SortCode
    <2>2. /\ Goes(59 + 1) /\ \A s \in Nat : s < 16 => registers'[s] = registers[s]
          /\ compared' = <<3, j>> /\ UNCHANGED <<memory, scanned, printed, calls>>
        BY <1>1, <1>2, <2>1, CmplLine DEF TestsInv, FlagsInv
    <2>3. SortFrame(c, c, 4, STACK_SIZE - 32, 3, <<SortCall>>)' /\ On(60)' /\ UNCHANGED build
        BY <1>1, <1>2, <2>2, SortKeepsAll
    <2>4. SortInner(60, c, i, m, j)'
        BY <1>2, <1>5, <1>21, <2>2, <2>3 DEF SortInner
    <2> QED
        BY <1>3, <2>1, <2>4, NoRet DEF InnerLines
<1>22. CASE k = 60
    <2>1. At(60, "jl", 0, 0, -64)
        BY <1>1, <1>2, <1>22, OnIs DEF SortCode
    <2>2. compared = <<3, j>> /\ LeastFrom(build, scanned, c, i, m, j)
        BY <1>5, <1>22 DEF SortInner
    <2>3. (j < 3 => Registers(45, registers)) /\ (~(j < 3) => Registers(60 + 1, registers))
        <3>1. 45 \in Nat \ {0} /\ 45 <= Len(instructions) /\ -64 = 4 * (45 - 60 - 1) /\ "jl" \in Conditional
            BY <1>1 DEF Conditional
        <3>2. ~Misjudged(build, 3, j) /\ (Holds("jl", 3, j) <=> j < 3)
            BY <1>4, Machine DEF Misjudged, Holds
        <3> QED
            BY <1>1, <1>4, <2>1, <2>2, <3>1, <3>2, SortDecides
    <2>4. ASSUME NEW l \in {45, 61}, Registers(l, registers)
          PROVE  SortFrame(c, c, 4, STACK_SIZE - 32, 3, <<SortCall>>)' /\ On(l)'
                 /\ UNCHANGED <<registers, build, scanned>>
        <3>1. Goes(l) /\ UNCHANGED <<registers, memory, scanned, printed, calls>>
            BY <2>4 DEF Registers
        <3> QED
            BY <1>1, <1>2, <3>1, SortKeepsAll
    <2>5. CASE j < 3
        <3>1. SortInner(45, c, i, m, j)'
            BY <1>2, <1>4, <2>2, <2>3, <2>4, <2>5 DEF SortInner
        <3> QED
            BY <1>3, <2>1, <3>1, NoRet DEF InnerLines
    <2>6. CASE ~(j < 3)
        <3>1. j = 3
            BY <1>2, <1>4, <2>6
        <3>2. SortInner(61, c, i, m, j)'
            BY <1>2, <2>2, <2>3, <2>4, <2>6, <3>1 DEF SortInner
        <3> QED
            BY <1>3, <2>1, <3>2, NoRet DEF InnerLines
    <2> QED
        BY <2>5, <2>6
<1>23. CASE k = 61
    <2>1. At(61, "movl_reg_reg", 1, 5, 0)
        BY <1>1, <1>2, <1>23, OnIs DEF SortCode
    <2>2. j = 3
        BY <1>23 DEF SortInner
    <2>3. Sets(61 + 1, 5, STACK_SIZE - 32)
        BY <1>1, <1>2, <1>4, <2>1, <2>2, MovlRegLine
    <2>4. /\ SortFrame(c, c, 4, STACK_SIZE - 32, 3, <<SortCall>>)' /\ On(62)'
             /\ registers'[5] = STACK_SIZE - 32
          /\ \A q \in Nat : q # 5 /\ q <= 16 => registers'[q] = registers[q]
          /\ UNCHANGED <<build, scanned, compared>>
        BY <1>1, <1>2, <2>3, SortKeeps
    <2>5. SortInner(62, c, i, m, j)'
        BY <1>2, <1>5, <1>23, <2>2, <2>4 DEF SortInner
    <2> QED
        BY <1>3, <2>1, <2>5, NoRet DEF InnerLines
<1>24. CASE k = 62
    <2>1. At(62, "call", 0, 0, -176)
        BY <1>1, <1>2, <1>24, OnIs DEF SortCode
    <2>2. /\ j = 3 /\ registers[5] = STACK_SIZE - 32 /\ LeastFrom(build, scanned, c, i, m, 3)
          /\ registers[6] = STACK_SIZE - 48 /\ calls = <<SortCall>> /\ Pushed(memory, 4) /\ ArrayIs(memory, c)
        BY <1>1, <1>5, <1>24 DEF SortInner, SortFrame
    <2>3. /\ Goes(19) /\ Writes(6, STACK_SIZE - 52) /\ Stores(STACK_SIZE - 52, 248)
          /\ calls' = Append(calls, [pc |-> 248, kept |-> Kept(registers)])
          /\ UNCHANGED <<scanned, printed, compared>>
        <3>1. CallsFrom(62, 19, 248)
              /\ registers[6] >= 0 /\ registers[6] <= STACK_SIZE /\ registers[6] >= 4
              /\ registers[6] - 4 = STACK_SIZE - 52
            BY <1>1, <2>2, <2>1 DEF CallsFrom
        <3>2. /\ Goes(19) /\ Writes(6, registers[6] - 4) /\ Stores(registers[6] - 4, 248)
              /\ calls' = Append(calls, [pc |-> 248, kept |-> Kept(registers)])
              /\ UNCHANGED <<scanned, printed, compared>>
            BY <1>1, <3>1, CallLine
        <3> QED
            BY <3>1, <3>2
    <2>4. calls' = <<SortCall, SwapCall(i)>>
        <3>1. Kept(registers) = Saved(STACK_SIZE - 32, STACK_SIZE - 48, 3, i + 1)
            BY <1>2, <2>2, KeptIs
        <3>2. calls' = Append(<<SortCall>>, SwapCall(i))
            BY <2>2, <2>3, <3>1 DEF SwapCall
        <3> QED
            BY <3>2, CallsAre
    <2>5. ArrayIs(memory', c) /\ Pushed(memory', 5)
        <3> DEFINE e == STACK_SIZE - 52
                   x1 == STACK_SIZE - 36
                   x2 == STACK_SIZE - 40
                   x3 == STACK_SIZE - 44
                   x4 == STACK_SIZE - 48
        <3>1. \A x \in Nat : x + 4 <= STACK_SIZE /\ e + 4 <= x => WordAt(memory', x) = WordAt(memory, x)
            BY <2>3 DEF Stores
        <3>2. /\ x1 \in Nat /\ x1 + 4 <= STACK_SIZE /\ e + 4 <= x1 /\ x2 \in Nat
                 /\ x2 + 4 <= STACK_SIZE /\ e + 4 <= x2
              /\ x3 \in Nat /\ x3 + 4 <= STACK_SIZE /\ e + 4 <= x3 /\ x4 \in Nat
                 /\ x4 + 4 <= STACK_SIZE /\ e + 4 <= x4
            BY <1>1
        <3>3. \A q \in 0 .. 2 : WordAt(memory', STACK_SIZE - 32 + 4 * q) = c[q]
            <4> TAKE q \in 0 .. 2
            <4> DEFINE x == STACK_SIZE - 32 + 4 * q
            <4>1. x \in Nat /\ x + 4 <= STACK_SIZE /\ e + 4 <= x
                BY <1>1
            <4> HIDE DEF x, e
            <4>2. WordAt(memory', x) = WordAt(memory, x)
                BY <3>1, <4>1
            <4> QED
                BY <2>2, <4>2 DEF ArrayIs, x
        <3>4. WordAt(memory', e) = 248
            BY <2>3 DEF Stores
        <3> HIDE DEF e, x1, x2, x3, x4
        <3>5. /\ WordAt(memory', x1) = WordAt(memory, x1) /\ WordAt(memory', x2) = WordAt(memory, x2)
              /\ WordAt(memory', x3) = WordAt(memory, x3) /\ WordAt(memory', x4) = WordAt(memory, x4)
            BY <3>1, <3>2
        <3>6. Pushed(memory', 5)
            BY <2>2, <3>4, <3>5 DEF Pushed, x1, x2, x3, x4, e
        <3> QED
            BY <3>3, <3>6 DEF ArrayIs
    <2>6. /\ registers'[6] = STACK_SIZE - 52 /\ \A q \in Nat : q # 6
             /\ q <= 16 => registers'[q] = registers[q]
          /\ On(19)' /\ UNCHANGED build
        BY <1>1, <2>3, GoesOn DEF Writes, Goes
    <2>7. SortFrame(c, c, 5, STACK_SIZE - 32, 3, <<SortCall, SwapCall(i)>>)'
        <3>1. registers'[1] = STACK_SIZE - 32 /\ registers'[7] = 3 /\ registers'[6] = STACK_SIZE - 32 - 4 * 5
            BY <1>1, <1>2, <2>6
        <3>2. Three(scanned) /\ printed = <<>> /\ Shuffled(c, scanned)
            BY <1>2 DEF SortFrame
        <3> QED
            BY <1>2, <2>3, <2>4, <2>5, <3>1, <3>2 DEF SortFrame
    <2>8. SortSwap(19, c, i, m)'
        BY <1>2, <2>2, <2>3, <2>6, <2>7 DEF SortSwap
    <2>9. SortInv'
        BY <2>8, SortStays DEF SwapLines
    <2> QED
        BY <2>1, <2>9, NoRet
<1> QED
    BY <1>7, <1>8, <1>9, <1>10, <1>11, <1>12, <1>13, <1>14, <1>15, <1>16, <1>17, <1>18, <1>19, <1>20,
       <1>21, <1>22, <1>23, <1>24 DEF InnerLines

\* The array d is the array a with v at index q.
Put(d, a, q, v) == \A x \in 0 .. 2 : d[x] = IF x = q THEN v ELSE a[x]

\* swap writes one word of the array at a time.
LEMMA SortStore ==
    ASSUME Short, Len(instructions) = 69, NEW c, NEW a, NEW d, NEW b, NEW p, NEW f,
           SortFrame(c, a, 5, b, p, f), NEW l \in Nat \ {0}, l <= 69, Goes(l),
           NEW q \in 0 .. 2, NEW v, Stores(STACK_SIZE - 32 + 4 * q, v),
           UNCHANGED <<registers, scanned, printed, calls>>,
           Put(d, a, q, v)
    PROVE  SortFrame(c, d, 5, b, p, f)' /\ On(l)' /\ UNCHANGED build
<1>1. On(l)' /\ UNCHANGED build
    BY GoesOn DEF Goes
<1>2. STACK_SIZE \in Nat /\ STACK_SIZE >= 64
    BY Machine
<1> DEFINE e == STACK_SIZE - 32 + 4 * q
<1>3. \A x \in Nat : x + 4 <= STACK_SIZE
      /\ (x + 4 <= e \/ e + 4 <= x) => WordAt(memory', x) = WordAt(memory, x)
    BY DEF Stores
<1>4. ArrayIs(memory', d)
    <2> SUFFICES ASSUME NEW x \in 0 .. 2 PROVE WordAt(memory', STACK_SIZE - 32 + 4 * x) = d[x]
        BY DEF ArrayIs
    <2>1. CASE x = q
        BY <2>1 DEF Stores, Put
    <2>2. CASE x # q
        <3> DEFINE y == STACK_SIZE - 32 + 4 * x
        <3>1. y \in Nat /\ y + 4 <= STACK_SIZE /\ (y + 4 <= e \/ e + 4 <= y)
            BY <1>2, <2>2
        <3>2. WordAt(memory, y) = a[x]
            BY DEF SortFrame, ArrayIs
        <3> HIDE DEF y, e
        <3>3. WordAt(memory', y) = WordAt(memory, y)
            BY <1>3, <3>1
        <3> QED
            BY <2>2, <3>2, <3>3 DEF y, Put
    <2> QED
        BY <2>1, <2>2
<1>5. Pushed(memory', 5)
    <2> DEFINE x1 == STACK_SIZE - 36
               x2 == STACK_SIZE - 40
               x3 == STACK_SIZE - 44
               x4 == STACK_SIZE - 48
               x5 == STACK_SIZE - 52
    <2>1. /\ x1 \in Nat /\ x1 + 4 <= STACK_SIZE /\ x1 + 4 <= e /\ x2 \in Nat /\ x2 + 4 <= STACK_SIZE
             /\ x2 + 4 <= e
          /\ x3 \in Nat /\ x3 + 4 <= STACK_SIZE /\ x3 + 4 <= e /\ x4 \in Nat /\ x4 + 4 <= STACK_SIZE
             /\ x4 + 4 <= e
          /\ x5 \in Nat /\ x5 + 4 <= STACK_SIZE /\ x5 + 4 <= e
        BY <1>2
    <2>2. Pushed(memory, 5)
        BY DEF SortFrame
    <2> HIDE DEF e, x1, x2, x3, x4, x5
    <2>3. /\ WordAt(memory', x1) = WordAt(memory, x1) /\ WordAt(memory', x2) = WordAt(memory, x2)
          /\ WordAt(memory', x3) = WordAt(memory, x3) /\ WordAt(memory', x4) = WordAt(memory, x4)
          /\ WordAt(memory', x5) = WordAt(memory, x5)
        BY <1>3, <2>1
    <2> QED
        BY <2>2, <2>3 DEF Pushed, x1, x2, x3, x4, x5
<1>6. SortFrame(c, d, 5, b, p, f)'
    BY <1>4, <1>5 DEF SortFrame
<1> QED
    BY <1>1, <1>6

\* ... and a step of swap, which the array between its two stores shows half done.
LEMMA SortSwapStep ==
    ASSUME TestsInv, program = "sort", Next, NEW k \in SwapLines, NEW c, NEW i, NEW m, SortSwap(k, c, i, m)
    PROVE  SortInv' /\ Returns
<1>1. SortCode(instructions) /\ Len(instructions) = 69 /\ Short /\ STACK_SIZE \in Nat /\ STACK_SIZE >= 64
    BY SortIs, Machine
<1>2. /\ On(k) /\ i \in 0 .. 2 /\ m \in i .. 2 /\ LeftSorted(build, scanned, c, i)
      /\ LeastFrom(build, scanned, c, i, m, 3) /\ registers[12] = i + 1
      /\ c \in [0 .. 2 -> Word] /\ Three(scanned) /\ printed = <<>> /\ Shuffled(c, scanned)
      /\ registers[1] = STACK_SIZE - 32 /\ registers[7] = 3 /\ registers[6] = STACK_SIZE - 52
      /\ Pushed(memory, 5) /\ calls = <<SortCall, SwapCall(i)>>
    <2>1. STACK_SIZE - 32 - 4 * 5 = STACK_SIZE - 52
        BY <1>1
    <2> QED
        BY <2>1 DEF SortSwap, SortFrame
<1>3. ASSUME NEW l \in SwapLines, SortSwap(l, c, i, m)' PROVE SortInv'
    BY <1>3, SortStays
<1>4. /\ i \in Nat /\ m \in Nat /\ i \in 0 .. 2 /\ m \in 0 .. 2
      /\ Signed(4 * m) = 4 * m /\ Signed(4 * i) = 4 * i
      /\ Signed(STACK_SIZE - 32 + 4 * m) = STACK_SIZE - 32 + 4 * m
         /\ Signed(STACK_SIZE - 32 + 4 * i) = STACK_SIZE - 32 + 4 * i
      /\ OnStack(STACK_SIZE - 32 + 4 * m) /\ OnStack(STACK_SIZE - 32 + 4 * i)
    <2>1. m \in 0 .. 3 /\ i \in 0 .. 3 /\ i \in Nat /\ m \in Nat /\ m \in 0 .. 2 /\ m <= 2 /\ i <= 2
        BY <1>2
    <2> QED
        BY <1>2, <2>1, SortSigned
<1>5. k \notin {28, 29} => SortFrame(c, c, 5, STACK_SIZE - 32, 3, <<SortCall, SwapCall(i)>>)
      /\ WordAt(memory, STACK_SIZE - 32 + 4 * i) = c[i] /\ WordAt(memory, STACK_SIZE - 32 + 4 * m) = c[m]
    BY <1>4 DEF SortSwap, SortFrame, ArrayIs
<1>6. CASE k = 19
    <2>1. At(19, "movl_imm_reg", 2, 0, 4)
        BY <1>1, <1>2, <1>6, OnIs DEF SortCode
    <2>2. SortFrame(c, c, 5, STACK_SIZE - 32, 3, <<SortCall, SwapCall(i)>>)
          /\ registers[5] = STACK_SIZE - 32 /\ registers[4] = i /\ registers[3] = m
        BY <1>5, <1>6 DEF SortSwap
    <2>3. Sets(19 + 1, 2, 4)
        BY <1>1, <2>1, <2>2, MovlImmLine
    <2>4. /\ SortFrame(c, c, 5, STACK_SIZE - 32, 3, <<SortCall, SwapCall(i)>>)' /\ On(20)'
             /\ registers'[2] = 4
          /\ \A q \in Nat : q # 2 /\ q <= 16 => registers'[q] = registers[q]
          /\ UNCHANGED <<build, scanned, compared>>
        BY <1>1, <2>2, <2>3, SortKeeps
    <2>5. SortSwap(20, c, i, m)'
        BY <1>2, <1>6, <2>2, <2>4 DEF SortSwap
    <2> QED
        BY <1>3, <2>1, <2>5, NoRet DEF SwapLines
<1>7. CASE k = 20
    <2>1. At(20, "imull", 4, 2, 0)
        BY <1>1, <1>2, <1>7, OnIs DEF SortCode
    <2>2. SortFrame(c, c, 5, STACK_SIZE - 32, 3, <<SortCall, SwapCall(i)>>)
          /\ registers[5] = STACK_SIZE - 32 /\ registers[4] = i /\ registers[3] = m /\ registers[2] = 4
        BY <1>5, <1>7 DEF SortSwap
    <2>3. registers[4] * registers[2] = 4 * i
        BY <1>1, <1>2, <1>4, <1>5, <1>7, <2>2
    <2>4. Sets(20 + 1, 2, 4 * i)
        BY <1>1, <1>2, <1>4, <2>1, <2>2, <2>3, ImullLine
    <2>5. /\ SortFrame(c, c, 5, STACK_SIZE - 32, 3, <<SortCall, SwapCall(i)>>)' /\ On(21)'
             /\ registers'[2] = 4 * i
          /\ \A q \in Nat : q # 2 /\ q <= 16 => registers'[q] = registers[q]
          /\ UNCHANGED <<build, scanned, compared>>
        BY <1>1, <2>2, <2>4, SortKeeps
    <2>6. SortSwap(21, c, i, m)'
        BY <1>2, <1>7, <2>2, <2>5 DEF SortSwap
    <2> QED
        BY <1>3, <2>1, <2>6, NoRet DEF SwapLines
<1>8. CASE k = 21
    <2>1. At(21, "addl_reg_reg", 5, 2, 0)
        BY <1>1, <1>2, <1>8, OnIs DEF SortCode
    <2>2. SortFrame(c, c, 5, STACK_SIZE - 32, 3, <<SortCall, SwapCall(i)>>)
          /\ registers[5] = STACK_SIZE - 32 /\ registers[4] = i /\ registers[3] = m /\ registers[2] = 4 * i
        BY <1>5, <1>8 DEF SortSwap
    <2>3. registers[5] + registers[2] = STACK_SIZE - 32 + 4 * i
        BY <1>1, <1>2, <1>4, <1>5, <1>8, <2>2
    <2>4. Sets(21 + 1, 2, STACK_SIZE - 32 + 4 * i)
        BY <1>1, <1>2, <1>4, <2>1, <2>2, <2>3, AddlRegLine
    <2>5. /\ SortFrame(c, c, 5, STACK_SIZE - 32, 3, <<SortCall, SwapCall(i)>>)' /\ On(22)'
             /\ registers'[2] = STACK_SIZE - 32 + 4 * i
          /\ \A q \in Nat : q # 2 /\ q <= 16 => registers'[q] = registers[q]
          /\ UNCHANGED <<build, scanned, compared>>
        BY <1>1, <2>2, <2>4, SortKeeps
    <2>6. SortSwap(22, c, i, m)'
        BY <1>2, <1>8, <2>2, <2>5 DEF SortSwap
    <2> QED
        BY <1>3, <2>1, <2>6, NoRet DEF SwapLines
<1>9. CASE k = 22
    <2>1. At(22, "movl_deref_reg", 2, 4, 0)
        BY <1>1, <1>2, <1>9, OnIs DEF SortCode
    <2>2. SortFrame(c, c, 5, STACK_SIZE - 32, 3, <<SortCall, SwapCall(i)>>)
          /\ registers[5] = STACK_SIZE - 32 /\ registers[3] = m /\ registers[2] = STACK_SIZE - 32 + 4 * i
        BY <1>5, <1>9 DEF SortSwap
    <2>3. registers[2] + 0 = STACK_SIZE - 32 + 4 * i /\ WordAt(memory, STACK_SIZE - 32 + 4 * i) = c[i]
        BY <1>1, <1>2, <1>4, <1>5, <1>9, <2>2
    <2>4. Sets(22 + 1, 4, c[i])
        BY <1>1, <1>2, <1>4, <2>1, <2>2, <2>3, LoadLine
    <2>5. /\ SortFrame(c, c, 5, STACK_SIZE - 32, 3, <<SortCall, SwapCall(i)>>)' /\ On(23)'
             /\ registers'[4] = c[i]
          /\ \A q \in Nat : q # 4 /\ q <= 16 => registers'[q] = registers[q]
          /\ UNCHANGED <<build, scanned, compared>>
        BY <1>1, <2>2, <2>4, SortKeeps
    <2>6. SortSwap(23, c, i, m)'
        BY <1>2, <1>9, <2>2, <2>5 DEF SortSwap
    <2> QED
        BY <1>3, <2>1, <2>6, NoRet DEF SwapLines
<1>10. CASE k = 23
    <2>1. At(23, "movl_imm_reg", 0, 0, 4)
        BY <1>1, <1>2, <1>10, OnIs DEF SortCode
    <2>2. SortFrame(c, c, 5, STACK_SIZE - 32, 3, <<SortCall, SwapCall(i)>>)
          /\ registers[5] = STACK_SIZE - 32 /\ registers[3] = m
          /\ registers[2] = STACK_SIZE - 32 + 4 * i /\ registers[4] = c[i]
        BY <1>5, <1>10 DEF SortSwap
    <2>3. Sets(23 + 1, 0, 4)
        BY <1>1, <2>1, <2>2, MovlImmLine
    <2>4. /\ SortFrame(c, c, 5, STACK_SIZE - 32, 3, <<SortCall, SwapCall(i)>>)' /\ On(24)'
             /\ registers'[0] = 4
          /\ \A q \in Nat : q # 0 /\ q <= 16 => registers'[q] = registers[q]
          /\ UNCHANGED <<build, scanned, compared>>
        BY <1>1, <2>2, <2>3, SortKeeps
    <2>5. SortSwap(24, c, i, m)'
        BY <1>2, <1>10, <2>2, <2>4 DEF SortSwap
    <2> QED
        BY <1>3, <2>1, <2>5, NoRet DEF SwapLines
<1>11. CASE k = 24
    <2>1. At(24, "imull", 3, 0, 0)
        BY <1>1, <1>2, <1>11, OnIs DEF SortCode
    <2>2. SortFrame(c, c, 5, STACK_SIZE - 32, 3, <<SortCall, SwapCall(i)>>)
          /\ registers[5] = STACK_SIZE - 32 /\ registers[3] = m
          /\ registers[2] = STACK_SIZE - 32 + 4 * i /\ registers[4] = c[i] /\ registers[0] = 4
        BY <1>5, <1>11 DEF SortSwap
    <2>3. registers[3] * registers[0] = 4 * m
        BY <1>1, <1>2, <1>4, <1>5, <1>11, <2>2
    <2>4. Sets(24 + 1, 0, 4 * m)
        BY <1>1, <1>2, <1>4, <2>1, <2>2, <2>3, ImullLine
    <2>5. /\ SortFrame(c, c, 5, STACK_SIZE - 32, 3, <<SortCall, SwapCall(i)>>)' /\ On(25)'
             /\ registers'[0] = 4 * m
          /\ \A q \in Nat : q # 0 /\ q <= 16 => registers'[q] = registers[q]
          /\ UNCHANGED <<build, scanned, compared>>
        BY <1>1, <2>2, <2>4, SortKeeps
    <2>6. SortSwap(25, c, i, m)'
        BY <1>2, <1>11, <2>2, <2>5 DEF SortSwap
    <2> QED
        BY <1>3, <2>1, <2>6, NoRet DEF SwapLines
<1>12. CASE k = 25
    <2>1. At(25, "addl_reg_reg", 5, 0, 0)
        BY <1>1, <1>2, <1>12, OnIs DEF SortCode
    <2>2. SortFrame(c, c, 5, STACK_SIZE - 32, 3, <<SortCall, SwapCall(i)>>)
          /\ registers[5] = STACK_SIZE - 32 /\ registers[3] = m
          /\ registers[2] = STACK_SIZE - 32 + 4 * i /\ registers[4] = c[i] /\ registers[0] = 4 * m
        BY <1>5, <1>12 DEF SortSwap
    <2>3. registers[5] + registers[0] = STACK_SIZE - 32 + 4 * m
        BY <1>1, <1>2, <1>4, <1>5, <1>12, <2>2
    <2>4. Sets(25 + 1, 0, STACK_SIZE - 32 + 4 * m)
        BY <1>1, <1>2, <1>4, <2>1, <2>2, <2>3, AddlRegLine
    <2>5. /\ SortFrame(c, c, 5, STACK_SIZE - 32, 3, <<SortCall, SwapCall(i)>>)' /\ On(26)'
             /\ registers'[0] = STACK_SIZE - 32 + 4 * m
          /\ \A q \in Nat : q # 0 /\ q <= 16 => registers'[q] = registers[q]
          /\ UNCHANGED <<build, scanned, compared>>
        BY <1>1, <2>2, <2>4, SortKeeps
    <2>6. SortSwap(26, c, i, m)'
        BY <1>2, <1>12, <2>2, <2>5 DEF SortSwap
    <2> QED
        BY <1>3, <2>1, <2>6, NoRet DEF SwapLines
<1>13. CASE k = 26
    <2>1. At(26, "movl_deref_reg", 0, 3, 0)
        BY <1>1, <1>2, <1>13, OnIs DEF SortCode
    <2>2. SortFrame(c, c, 5, STACK_SIZE - 32, 3, <<SortCall, SwapCall(i)>>)
          /\ registers[2] = STACK_SIZE - 32 + 4 * i /\ registers[4] = c[i]
          /\ registers[0] = STACK_SIZE - 32 + 4 * m
        BY <1>5, <1>13 DEF SortSwap
    <2>3. registers[0] + 0 = STACK_SIZE - 32 + 4 * m /\ WordAt(memory, STACK_SIZE - 32 + 4 * m) = c[m]
        BY <1>1, <1>2, <1>4, <1>5, <1>13, <2>2
    <2>4. Sets(26 + 1, 3, c[m])
        BY <1>1, <1>2, <1>4, <2>1, <2>2, <2>3, LoadLine
    <2>5. /\ SortFrame(c, c, 5, STACK_SIZE - 32, 3, <<SortCall, SwapCall(i)>>)' /\ On(27)'
             /\ registers'[3] = c[m]
          /\ \A q \in Nat : q # 3 /\ q <= 16 => registers'[q] = registers[q]
          /\ UNCHANGED <<build, scanned, compared>>
        BY <1>1, <2>2, <2>4, SortKeeps
    <2>6. SortSwap(27, c, i, m)'
        BY <1>2, <1>13, <2>2, <2>5 DEF SortSwap
    <2> QED
        BY <1>3, <2>1, <2>6, NoRet DEF SwapLines
<1>14. CASE k = 27
    <2>1. At(27, "movl_reg_deref", 3, 2, 0)
        BY <1>1, <1>2, <1>14, OnIs DEF SortCode
    <2>2. SortFrame(c, c, 5, STACK_SIZE - 32, 3, <<SortCall, SwapCall(i)>>)
          /\ registers[2] = STACK_SIZE - 32 + 4 * i /\ registers[3] = c[m] /\ registers[4] = c[i]
          /\ registers[0] = STACK_SIZE - 32 + 4 * m
        BY <1>5, <1>14 DEF SortSwap
    <2>3. registers[2] + 0 = STACK_SIZE - 32 + 4 * i
        BY <1>1, <1>4, <2>2
    <2>4. /\ Goes(27 + 1) /\ Stores(STACK_SIZE - 32 + 4 * i, c[m])
          /\ UNCHANGED <<registers, scanned, printed, compared, calls>>
        BY <1>1, <1>4, <2>1, <2>2, <2>3, StoreLine
    <2>5. SortFrame(c, Overwritten(c, i, m), 5, STACK_SIZE - 32, 3, <<SortCall, SwapCall(i)>>)'
          /\ On(28)' /\ UNCHANGED build
        <3>1. PICK a, d, v, f : a = c /\ d = Overwritten(c, i, m) /\ v = c[m] /\ f = <<SortCall, SwapCall(i)>>
            OBVIOUS
        <3>2. Put(d, a, i, v)
            BY <1>4, <3>1 DEF Overwritten, Swapped, Put
        <3>3. SortFrame(c, a, 5, STACK_SIZE - 32, 3, f)
            BY <2>2, <3>1
        <3>4. Stores(STACK_SIZE - 32 + 4 * i, v) /\ UNCHANGED <<registers, scanned, printed, calls>>
            BY <2>4, <3>1
        <3>5. 28 \in Nat \ {0} /\ 28 <= 69 /\ Goes(28) /\ i \in 0 .. 2
            BY <1>4, <2>4
        <3>6. SortFrame(c, d, 5, STACK_SIZE - 32, 3, f)' /\ On(28)' /\ UNCHANGED build
            <4>1. PICK b, l : b = STACK_SIZE - 32 /\ l = 28
                OBVIOUS
            <4>2. Short /\ Len(instructions) = 69 /\ SortFrame(c, a, 5, b, 3, f)
                  /\ l \in Nat \ {0} /\ l <= 69 /\ Goes(l) /\ Put(d, a, i, v)
                BY <1>1, <3>2, <3>3, <3>5, <4>1
            <4>3. SortFrame(c, d, 5, b, 3, f)' /\ On(l)' /\ UNCHANGED build
                BY <3>4, <3>5, <4>2, SortStore
            <4> QED
                BY <4>1, <4>3
        <3> QED
            BY <3>1, <3>6
    <2>6. SortSwap(28, c, i, m)'
        BY <1>2, <2>2, <2>4, <2>5 DEF SortSwap
    <2> QED
        BY <1>3, <2>1, <2>6, NoRet DEF SwapLines
<1>15. CASE k = 28
    <2>1. At(28, "movl_reg_deref", 4, 0, 0)
        BY <1>1, <1>2, <1>15, OnIs DEF SortCode
    <2>2. SortFrame(c, Overwritten(c, i, m), 5, STACK_SIZE - 32, 3, <<SortCall, SwapCall(i)>>)
          /\ registers[0] = STACK_SIZE - 32 + 4 * m /\ registers[4] = c[i]
        BY <1>5, <1>15 DEF SortSwap
    <2>3. registers[0] + 0 = STACK_SIZE - 32 + 4 * m
        BY <1>1, <1>4, <2>2
    <2>4. /\ Goes(28 + 1) /\ Stores(STACK_SIZE - 32 + 4 * m, c[i])
          /\ UNCHANGED <<registers, scanned, printed, compared, calls>>
        BY <1>1, <1>4, <2>1, <2>2, <2>3, StoreLine
    <2>5. SortFrame(c, Swapped(c, i, m), 5, STACK_SIZE - 32, 3, <<SortCall, SwapCall(i)>>)'
          /\ On(29)' /\ UNCHANGED build
        <3>1. PICK a, d, v, f : a = Overwritten(c, i, m) /\ d = Swapped(c, i, m) /\ v = c[i]
              /\ f = <<SortCall, SwapCall(i)>>
            OBVIOUS
        <3>2. Put(d, a, m, v)
            BY <1>4, <3>1 DEF Overwritten, Swapped, Put
        <3>3. SortFrame(c, a, 5, STACK_SIZE - 32, 3, f)
            BY <2>2, <3>1
        <3>4. Stores(STACK_SIZE - 32 + 4 * m, v) /\ UNCHANGED <<registers, scanned, printed, calls>>
            BY <2>4, <3>1
        <3>5. 29 \in Nat \ {0} /\ 29 <= 69 /\ Goes(29) /\ m \in 0 .. 2
            BY <1>4, <2>4
        <3>6. SortFrame(c, d, 5, STACK_SIZE - 32, 3, f)' /\ On(29)' /\ UNCHANGED build
            <4>1. PICK b, l : b = STACK_SIZE - 32 /\ l = 29
                OBVIOUS
            <4>2. Short /\ Len(instructions) = 69 /\ SortFrame(c, a, 5, b, 3, f)
                  /\ l \in Nat \ {0} /\ l <= 69 /\ Goes(l) /\ Put(d, a, m, v)
                BY <1>1, <3>2, <3>3, <3>5, <4>1
            <4>3. SortFrame(c, d, 5, b, 3, f)' /\ On(l)' /\ UNCHANGED build
                BY <3>4, <3>5, <4>2, SortStore
            <4> QED
                BY <4>1, <4>3
        <3> QED
            BY <3>1, <3>6
    <2>6. SortSwap(29, c, i, m)'
        BY <1>2, <2>2, <2>4, <2>5 DEF SortSwap
    <2> QED
        BY <1>3, <2>1, <2>6, NoRet DEF SwapLines
<1>16. CASE k = 29
    <2>1. At(29, "ret", 0, 0, 0)
        BY <1>1, <1>2, <1>16, OnIs DEF SortCode
    <2>2. ArrayIs(memory, Swapped(c, i, m))
        BY <1>16 DEF SortSwap, SortFrame
    <2>3. /\ Goes(63) /\ Writes(6, registers[6] + 4)
          /\ calls' = IF calls = <<>> THEN <<>> ELSE SubSeq(calls, 1, Len(calls) - 1)
          /\ UNCHANGED <<memory, scanned, printed, compared>>
        <3>1. /\ registers[6] >= 0 /\ registers[6] + 4 <= STACK_SIZE /\ 63 \in Nat \ {0}
                 /\ 63 <= Len(instructions)
              /\ WordAt(memory, registers[6]) = 4 * (63 - 1)
            BY <1>1, <1>2 DEF Pushed
        <3> QED
            BY <1>1, <2>1, <3>1, RetLine
    <2>4. calls # <<>> /\ calls[Len(calls)] = SwapCall(i) /\ calls' = <<SortCall>>
        BY <1>2, <2>3, CallsAre
    <2>5. /\ registers'[1] = STACK_SIZE - 32 /\ registers'[6] = STACK_SIZE - 48
          /\ registers'[7] = 3 /\ registers'[12] = i + 1
        BY <1>1, <1>2, <2>3 DEF Writes
    <2>6. On(63)' /\ UNCHANGED build /\ program_counter' = 248
        BY <1>1, <2>3, GoesOn DEF Goes
    <2>7. Returns
        <3>1. Kept(registers') = Saved(STACK_SIZE - 32, STACK_SIZE - 48, 3, i + 1)
            BY <2>5, KeptIs
        <3>2. registers[ESP] # STACK_SIZE
            BY <1>1, <1>2 DEF ESP
        <3> QED
            BY <2>4, <2>6, <3>1, <3>2 DEF Returns, SwapCall
    <2> DEFINE d == Swapped(c, i, m)
    <2>8. d \in [0 .. 2 -> Word] /\ Shuffled(d, scanned) /\ LeftSorted(build, scanned, d, i + 1)
        BY <1>2, SwapSorts
    <2>9. ArrayIs(memory', d) /\ Pushed(memory', 4)
        BY <1>2, <2>2, <2>3 DEF Pushed
    <2> HIDE DEF d
    <2>10. SortFrame(d, d, 4, STACK_SIZE - 32, 3, <<SortCall>>)'
        <3>1. registers'[6] = STACK_SIZE - 32 - 4 * 4
            BY <1>1, <2>5
        <3> QED
            BY <1>2, <2>3, <2>4, <2>5, <2>8, <2>9, <3>1 DEF SortFrame
    <2>11. SortOuter(63, d, i + 1)'
        <3>1. i + 1 \in 0 .. 3
            BY <1>2
        <3> QED
            BY <2>3, <2>5, <2>6, <2>8, <2>10, <3>1 DEF SortOuter
    <2>12. SortInv'
        BY <2>11, SortStays DEF OuterLines
    <2> QED
        BY <2>7, <2>12
<1> QED
    BY <1>6, <1>7, <1>8, <1>9, <1>10, <1>11, <1>12, <1>13, <1>14, <1>15, <1>16 DEF SwapLines

\* The run of sort begins where SortInv says ...
LEMMA SortStart == ASSUME Init, TestsInv, program = "sort" PROVE SortInv
<1>1. On(1) /\ status = "running"
    <2>1. Len(instructions) = 69
        BY SortIs
    <2> QED
        BY <2>1, StartsOn
<1>2. Keeps0(0, STACK_SIZE) /\ calls = <<>> /\ scanned = <<>> /\ printed = <<>>
    BY DEF Init, Keeps0, ESP, NUM_REGS
<1>3. SortRead(1)
    BY <1>1, <1>2 DEF SortRead
<1> QED
    BY <1>1, <1>3 DEF SortInv

\* ... and stays there.
LEMMA SortStep ==
    ASSUME TestsInv, SortInv, Next, program = "sort"
    PROVE  SortInv' /\ Returns
<1>1. \/ \E k \in 1 .. 10 : SortRead(k)
      \/ \E c : \/ \E k \in EnterLines : SortEnter(k, c)
                \/ \E i : \E k \in OuterLines : SortOuter(k, c, i)
                \/ \E i, m, j : \E k \in InnerLines : SortInner(k, c, i, m, j)
                \/ \E i, m : \E k \in SwapLines : SortSwap(k, c, i, m)
                \/ \E k \in LeaveLines : SortLeave(k, c)
                \/ \E k \in 11 .. 18 : SortPrint(k, c)
    BY NextDoes DEF SortInv
<1>2. ASSUME NEW k \in 1 .. 10, SortRead(k) PROVE SortInv' /\ Returns
    <2>1. CASE k = 10
        <3>1. Returns /\ \E c : SortEnter(30, c)'
            BY <1>2, <2>1, SortReadStep
        <3> QED
            BY <3>1, SortStays DEF EnterLines
    <2>2. CASE k # 10
        <3>1. Returns /\ SortRead(k + 1)' /\ k + 1 \in 1 .. 10
            BY <1>2, <2>2, SortReadStep
        <3>2. status' = "running"
            BY <3>1 DEF SortRead, On
        <3> QED
            BY <3>1, <3>2 DEF SortInv
    <2> QED
        BY <2>1, <2>2
<1>3. ASSUME NEW c, NEW k \in 11 .. 18, SortPrint(k, c) PROVE SortInv' /\ Returns
    <2>1. CASE k = 18
        <3>1. /\ Returns /\ status' = "done" /\ printed' = <<c[0], c[1], c[2]>>
                 /\ UNCHANGED <<scanned, build>>
            BY <1>3, <2>1, SortPrintStep
        <3>2. /\ Three(scanned) /\ Shuffled(c, scanned) /\ LeftSorted(build, scanned, c, 3)
              /\ c[0] \in Word /\ c[1] \in Word /\ c[2] \in Word
            BY <1>3 DEF SortPrint
        <3>3. Permuted(scanned, printed')
            BY <3>1, <3>2, ShuffledIsPermuted
        <3>4. ~Excused(build, scanned) => Ascending(printed')
            BY <3>1, <3>2, LeftSortedIsAscending
        <3> QED
            BY <3>1, <3>3, <3>4 DEF SortInv
    <2>2. CASE k # 18
        <3>1. Returns /\ SortPrint(k + 1, c)' /\ k + 1 \in 11 .. 18
            BY <1>3, <2>2, SortPrintStep
        <3> QED
            BY <3>1, SortStays
    <2> QED
        BY <2>1, <2>2
<1> QED
    BY <1>1, <1>2, <1>3, SortEnterStep, SortOuterStep, SortInnerStep, SortSwapStep, SortLeaveStep

-----------------------------------------------------------------------------
(* All of the tests.                                                       *)

\* Whatever program has been loaded, its run is where the invariant of that
\* program says.
ProgramsInv ==
    /\ TestsInv
    /\ program = "factorial" => FactorialInv
    /\ program = "log2" => Log2Inv
    /\ program = "sort" => SortInv
    /\ program = "comparisons" => ComparisonsInv
    /\ program = "cmpl" => CmplInv
    /\ \A l \in {0, 1} : Unaligned(l) => UnalignedInv(l)
    /\ program = "wild_stack" => WildStackInv

\* Where run_program is called the program is at its first line.
LEMMA ProgramsStart == Init => ProgramsInv
<1> SUFFICES ASSUME Init PROVE ProgramsInv
    OBVIOUS
<1>1. TestsInv
    BY TestsStart
<1> QED
    BY <1>1, FactorialStart, Log2Start, SortStart, ComparisonsStart, CmplStart, UnalignedStart,
       WildStackStart
    DEF ProgramsInv

\* An iteration of run_program keeps it there, and a ret is what ReturnsToCaller
\* says.
LEMMA ProgramsNext == ASSUME ProgramsInv, Next PROVE ProgramsInv' /\ Returns
<1>1. TestsInv /\ TestsInv' /\ program' = program
    BY TestsStep DEF ProgramsInv
<1>2. CASE program = "factorial"
    BY <1>1, <1>2, FactorialStep DEF ProgramsInv, Unaligned
<1>3. CASE program = "log2"
    BY <1>1, <1>3, Log2Step DEF ProgramsInv, Unaligned
<1>4. CASE program = "sort"
    BY <1>1, <1>4, SortStep DEF ProgramsInv, Unaligned
<1>5. CASE program = "comparisons"
    BY <1>1, <1>5, ComparisonsStep DEF ProgramsInv, Unaligned
<1>11. CASE program = "cmpl"
    BY <1>1, <1>11, CmplStep DEF ProgramsInv, Unaligned
<1>6. ASSUME NEW l \in {0, 1}, Unaligned(l) PROVE ProgramsInv' /\ Returns
    <2>1. UnalignedInv(l)' /\ Returns
        BY <1>1, <1>6, UnalignedStep DEF ProgramsInv
    <2>2. \A m \in {0, 1} : Unaligned(m)' => m = l
        BY <1>1, <1>6 DEF Unaligned
    <2>3. program' \notin {"factorial", "log2", "sort", "comparisons", "cmpl", "wild_stack"}
        BY <1>1, <1>6 DEF Unaligned
    <2> QED
        BY <1>1, <2>1, <2>2, <2>3 DEF ProgramsInv
<1>7. CASE program = "wild_stack"
    BY <1>1, <1>7, WildStackStep DEF ProgramsInv, Unaligned
<1>8. CASE program \in {"wild_pointer", "wild_jump"}
    BY <1>1, <1>8, WildWithoutRet DEF ProgramsInv, Unaligned
<1>9. program \in DOMAIN SmallPrograms
    BY <1>1, TestBytes DEF TestsInv, FlagsInv, CpuInv
<1>10. CASE program \in {"unaligned1", "unaligned2"}
    <2>1. Unaligned(1) \/ Unaligned(0)
        BY <1>10 DEF Unaligned
    <2> QED
        BY <1>6, <2>1
<1> QED
    BY <1>2, <1>3, <1>4, <1>5, <1>7, <1>8, <1>9, <1>10, <1>11, TestNames

\* After its end the program is where it was.
LEMMA ProgramsStutter == ASSUME ProgramsInv, UNCHANGED vars PROVE ProgramsInv'
<1>1. /\ UNCHANGED <<program, build, instructions, program_counter, registers>>
      /\ UNCHANGED <<memory, status, scanned, printed, compared, calls>>
    BY DEF vars, io, history
<1>2. TestsInv'
    BY TestsStep DEF ProgramsInv
<1>3. \A k : On(k)' = On(k)
    BY <1>1 DEF On
<1>4. \A a : WordAt(memory', a) = WordAt(memory, a)
    BY <1>1
<1>5. \A k : MainAt(k)' = MainAt(k)
    BY <1>1, <1>3 DEF MainAt, Keeps0, Result
<1>6. FactorialInv' = FactorialInv
    <2>1. \A n, d : FactCalls(n, d)' = FactCalls(n, d)
        BY <1>1 DEF FactCalls
    <2>2. \A n, d, b : FactFrame(n, d, b)' = FactFrame(n, d, b)
        BY <1>1, <2>1 DEF FactFrame, Keeps0
    <2>3. \A n, d : FactEnter(n, d)' = FactEnter(n, d)
        BY <1>1, <1>3, <2>1 DEF FactEnter, Keeps0
    <2>4. \A n, d : FactLeave(n, d)' = FactLeave(n, d)
        BY <1>1, <1>3, <2>1 DEF FactLeave, Keeps0
    <2>5. \A k, n, d : FactDown(k, n, d)' = FactDown(k, n, d)
        BY <1>1, <1>3, <2>2 DEF FactDown
    <2>6. \A k, n, d : FactUp(k, n, d)' = FactUp(k, n, d)
        BY <1>1, <1>3, <2>2 DEF FactUp
    <2> QED
        BY <1>1, <1>5, <2>3, <2>4, <2>5, <2>6 DEF FactorialInv
<1>7. Log2Inv' = Log2Inv
    <2>1. \A n, d, s : Log2Frame(n, d, s)' = Log2Frame(n, d, s)
        BY <1>1 DEF Log2Frame, Keeps0
    <2>2. \A k, n, d : Log2Down(k, n, d)' = Log2Down(k, n, d)
        BY <1>1, <1>3, <2>1 DEF Log2Down
    <2>3. \A k, n, d : Log2Up(k, n, d)' = Log2Up(k, n, d)
        BY <1>1, <1>3, <2>1 DEF Log2Up
    <2> QED
        BY <1>1, <1>5, <2>2, <2>3 DEF Log2Inv
<1>8. SortInv' = SortInv
    <2>1. \A c, a, n, b, p, f : SortFrame(c, a, n, b, p, f)' = SortFrame(c, a, n, b, p, f)
        BY <1>1 DEF SortFrame
    <2>2. \A k : SortRead(k)' = SortRead(k)
        BY <1>1, <1>3 DEF SortRead, Keeps0
    <2>3. \A k, c : SortEnter(k, c)' = SortEnter(k, c)
        BY <1>1, <1>3, <2>1 DEF SortEnter
    <2>4. \A k, c, i : SortOuter(k, c, i)' = SortOuter(k, c, i)
        BY <1>1, <1>3, <2>1 DEF SortOuter
    <2>5. \A k, c, i, m, j : SortInner(k, c, i, m, j)' = SortInner(k, c, i, m, j)
        BY <1>1, <1>3, <2>1 DEF SortInner
    <2>6. \A k, c, i, m : SortSwap(k, c, i, m)' = SortSwap(k, c, i, m)
        BY <1>1, <1>3, <2>1 DEF SortSwap
    <2>7. \A k, c : SortLeave(k, c)' = SortLeave(k, c)
        BY <1>1, <1>3, <2>1 DEF SortLeave
    <2>8. \A k, c : SortPrint(k, c)' = SortPrint(k, c)
        BY <1>1, <1>3 DEF SortPrint, Keeps0
    <2> QED
        BY <1>1, <2>2, <2>3, <2>4, <2>5, <2>6, <2>7, <2>8 DEF SortInv
<1>9. ComparisonsInv' = ComparisonsInv
    BY <1>1, <1>3 DEF ComparisonsInv
<1>10. \A l : UnalignedInv(l)' = UnalignedInv(l)
    <2>1. \A k, l : UnalignedAt(k, l)' = UnalignedAt(k, l)
        BY <1>1, <1>3 DEF UnalignedAt
    <2> QED
        BY <1>1, <2>1 DEF UnalignedInv
<1>11. WildStackInv' = WildStackInv
    BY <1>1, <1>3 DEF WildStackInv, WildStackAt
<1>12. \A l : Unaligned(l)' = Unaligned(l)
    BY <1>1 DEF Unaligned
<1>13. CmplInv' = CmplInv
    <2>1. \A m : FlagsShown(m)' = FlagsShown(m)
        BY <1>1 DEF FlagsShown
    <2>2. \A k : CmplAt(k)' = CmplAt(k)
        BY <1>1, <1>3, <2>1 DEF CmplAt, CmplHolds
    <2> QED
        BY <1>1, <2>1, <2>2 DEF CmplInv
<1> QED
    BY <1>1, <1>2, <1>6, <1>7, <1>8, <1>9, <1>10, <1>11, <1>12, <1>13 DEF ProgramsInv

\* Both, for the proofs below.
LEMMA ProgramsStep == ProgramsInv /\ [Next]_vars => ProgramsInv'
BY ProgramsNext, ProgramsStutter

\* Every test that ends has printed what its C program computes.
THEOREM PrintsTheResultCorrect == Spec => []PrintsTheResult
<1>1. ProgramsInv => PrintsTheResult
    <2> SUFFICES ASSUME ProgramsInv, status = "done" PROVE PrintsTheResult
        BY DEF PrintsTheResult
    <2>1. CASE program = "factorial"
        BY <2>1 DEF ProgramsInv, FactorialInv, PrintsTheResult
    <2>2. CASE program = "log2"
        BY <2>2 DEF ProgramsInv, Log2Inv, PrintsTheResult
    <2>3. CASE program = "sort"
        BY <2>3 DEF ProgramsInv, SortInv, Excused, PrintsTheResult
    <2>4. CASE program = "unaligned1"
        BY <2>4 DEF ProgramsInv, Unaligned, UnalignedInv, Shifted, PrintsTheResult
    <2>5. CASE program = "unaligned2"
        BY <2>5 DEF ProgramsInv, Unaligned, UnalignedInv, Shifted, PrintsTheResult
    <2>7. CASE program = "cmpl"
        BY <2>7, CmplReads DEF ProgramsInv, CmplInv, PrintsTheResult
    <2>6. CASE program \notin {"factorial", "log2", "sort", "cmpl", "unaligned1", "unaligned2"}
        BY <2>6 DEF PrintsTheResult
    <2> QED
        BY <2>1, <2>2, <2>3, <2>4, <2>5, <2>6, <2>7
<1> QED
    BY <1>1, ProgramsStart, ProgramsStep, PTL DEF Spec

\* Only the tests that set out to leave the memory of run_program leave it, and
\* factorial given a number that is below 2 or too deep for the stack.
THEOREM StaysOnStackCorrect == Spec => []StaysOnStack
<1>1. ProgramsInv => StaysOnStack
    <2> SUFFICES ASSUME ProgramsInv, status = "stray", program \notin Wild
                 PROVE  program = "factorial" /\ scanned[1] \notin 2 .. Deepest
        BY DEF StaysOnStack
    <2>1. program \in DOMAIN SmallPrograms
        BY TestBytes DEF ProgramsInv, TestsInv, FlagsInv, CpuInv
    <2>2. program \in {"factorial", "log2", "sort", "comparisons", "cmpl", "unaligned1", "unaligned2"}
        BY <2>1, TestNames DEF Wild
    <2> QED
        BY <2>2 DEF ProgramsInv, FactorialInv, Log2Inv, SortInv, ComparisonsInv, CmplInv, Unaligned,
                      UnalignedInv
<1> QED
    BY <1>1, ProgramsStart, ProgramsStep, PTL DEF Spec

\* A ret of any of the tests goes back behind the call under way, with the stack
\* pointer and the registers its caller keeps.
THEOREM ReturnsToCallerCorrect == Spec => ReturnsToCaller
<1>1. ProgramsInv /\ [Next]_vars => [Returns]_vars
    BY ProgramsNext
<1> QED
    BY <1>1, ProgramsStart, ProgramsStep, PTL DEF Spec, ReturnsToCaller, Returns

\* The jumps of the tests are taken as cmpl compared, and the wrong way where it
\* misjudges: no line of a test does more with the register of the flags than print
\* it.
THEOREM TestsCompare == Spec => JumpsCompare
BY TestsPrivate, JumpsCompareCorrect
=============================================================================
