---------------------------------- MODULE MCCpu ----------------------------------
(***************************************************************************)
(* Cpu with the programs of simulator/tests: factorial.s, log2.s and       *)
(* sort.s, the last with three numbers instead of six, unaligned1.s and    *)
(* unaligned2.s with the number they store read from the input, cmpl.s,    *)
(* and the comparisons of je.s to jle.s in one program, of two numbers     *)
(* read; and three programs that go wrong.                                 *)
(***************************************************************************)
EXTENDS Cpu, FiniteSets

\* The assembler, of which there is only a binary: registers, instructions, and
\* jumps to the line of a label, relative to the instruction after the jump.
eax == 0    ebx == 1    ecx == 2    edx == 3    esi == 4
edi == 5    esp == 6    ebp == 7    r8d == 8    r12d == 12    eflags == 16

Op(op, a, b, n) == [op |-> op, r1 |-> a, r2 |-> b, imm |-> n, label |-> 0]
One(op, a) == Op(op, a, 0, 0)
Two(op, a, b) == Op(op, a, b, 0)
Imm(op, n, a) == Op(op, a, 0, n)
Ret == Op("ret", 0, 0, 0)
To(op, line) == [Op(op, 0, 0, 0) EXCEPT !.label = line]

Assemble(lines) == [i \in DOMAIN lines |->
    LET l == lines[i]
        number == (CHOOSE n \in DOMAIN Opcodes : Opcodes[n] = l.op) - 1
        offset == IF l.label = 0 THEN l.imm ELSE WORD * (l.label - i - 1)
    IN  [hi |-> number * 2^11 + l.r1 * 2^6 + l.r2 * 2, lo |-> offset % 2^16]]

-----------------------------------------------------------------------------
factorial == <<
    Imm("subl", 8, esp), One("readr", edi), To("call", 7), One("printr", eax),
    Imm("addl_imm_reg", 8, esp), Ret, One("pushl", ebx),
    Two("movl_reg_reg", edi, ebx), Imm("movl_imm_reg", 2, r8d),
    Two("cmpl", r8d, edi), To("je", 16), Imm("subl", 1, edi), To("call", 7),
    Two("imull", ebx, eax), To("jmp", 17), Imm("movl_imm_reg", 2, eax),
    One("popl", ebx), Ret>>

log2 == <<
    Imm("subl", 8, esp), One("readr", edi), To("call", 7), One("printr", eax),
    Imm("addl_imm_reg", 8, esp), Ret, Imm("movl_imm_reg", 2, r8d),
    Two("cmpl", r8d, edi), To("jbe", 15), Imm("subl", 8, esp),
    One("shrl", edi), To("call", 7), Imm("addl_imm_reg", 1, eax),
    To("jmp", 17), Imm("movl_imm_reg", 1, eax), Ret,
    Imm("addl_imm_reg", 8, esp), Ret>>

sort == <<
    Imm("subl", 32, esp), One("readr", r8d), Op("movl_reg_deref", r8d, esp, 0),
    One("readr", r8d), Op("movl_reg_deref", r8d, esp, 4), One("readr", r8d),
    Op("movl_reg_deref", r8d, esp, 8), Imm("movl_imm_reg", 3, esi),
    Two("movl_reg_reg", esp, edi), To("call", 30),
    Op("movl_deref_reg", esp, r8d, 0), One("printr", r8d),
    Op("movl_deref_reg", esp, r8d, 4), One("printr", r8d),
    Op("movl_deref_reg", esp, r8d, 8), One("printr", r8d),
    Imm("addl_imm_reg", 32, esp), Ret, Imm("movl_imm_reg", 4, ecx),
    Two("imull", esi, ecx), Two("addl_reg_reg", edi, ecx),
    Op("movl_deref_reg", ecx, esi, 0), Imm("movl_imm_reg", 4, eax),
    Two("imull", edx, eax), Two("addl_reg_reg", edi, eax),
    Op("movl_deref_reg", eax, edx, 0), Op("movl_reg_deref", edx, ecx, 0),
    Op("movl_reg_deref", esi, eax, 0), Ret, One("pushl", r12d),
    One("pushl", ebp), One("pushl", ebx), Two("movl_reg_reg", esi, ebp),
    Imm("movl_imm_reg", 1, r8d), Two("cmpl", r8d, esi), To("jle", 66),
    Two("movl_reg_reg", edi, ebx), Imm("movl_imm_reg", 0, esi), To("jmp", 64),
    Imm("movl_imm_reg", 1, r12d), Two("addl_reg_reg", esi, r12d),
    Two("movl_reg_reg", esi, edx), Two("movl_reg_reg", r12d, eax),
    To("jmp", 59), Two("movl_reg_reg", eax, edi),
    Two("movl_reg_reg", edx, ecx), Imm("movl_imm_reg", 4, r8d),
    Two("imull", ecx, r8d), Two("addl_reg_reg", ebx, r8d),
    Op("movl_deref_reg", r8d, ecx, 0), Imm("movl_imm_reg", 4, r8d),
    Two("imull", edi, r8d), Two("addl_reg_reg", ebx, r8d),
    Op("movl_deref_reg", r8d, r8d, 0), Two("cmpl", ecx, r8d), To("jge", 58),
    Two("movl_reg_reg", eax, edx), Imm("addl_imm_reg", 1, eax),
    Two("cmpl", ebp, eax), To("jl", 45), Two("movl_reg_reg", ebx, edi),
    To("call", 19), Two("movl_reg_reg", r12d, esi), Two("cmpl", ebp, esi),
    To("jl", 40), One("popl", ebx), One("popl", ebp), One("popl", r12d), Ret>>

comparisons == <<
    One("readr", eax), One("readr", ebx), Two("cmpl", eax, ebx),
    To("je", 6), One("printr", eax), To("jl", 8), One("printr", eax),
    To("jle", 10), One("printr", eax), To("jge", 12), One("printr", eax),
    To("jbe", 14), One("printr", eax)>>

unaligned1 == <<
    One("readr", ebx), One("printr", ebx),
    Op("movl_reg_deref", ebx, eax, 0), Op("movl_deref_reg", eax, eax, 1),
    One("printr", eax)>>

unaligned2 == <<
    One("readr", ebx), One("printr", ebx),
    Op("movl_reg_deref", ebx, eax, 1), Op("movl_deref_reg", eax, eax, 0),
    One("printr", eax)>>

flags == <<
    Imm("movl_imm_reg", 1, eax), Imm("movl_imm_reg", 2, ebx),
    Imm("movl_imm_reg", -1, ecx), Imm("movl_imm_reg", -2, edx),
    Two("cmpl", eax, eax), One("printr", eflags),
    Two("cmpl", ecx, ecx), One("printr", eflags),
    Two("cmpl", eax, ebx), One("printr", eflags),
    Two("cmpl", ebx, eax), One("printr", eflags),
    Two("cmpl", eax, ecx), One("printr", eflags),
    Two("cmpl", ecx, eax), One("printr", eflags),
    Two("cmpl", ecx, edx), One("printr", eflags),
    Two("cmpl", edx, ecx), One("printr", eflags),
    Imm("movl_imm_reg", -1, esi), One("shrl", esi),
    Two("cmpl", edx, esi), One("printr", eflags),
    Imm("subl", -1, esi), Two("cmpl", eax, esi), One("printr", eflags), Ret>>

\* Programs that leave their memory, by each way there is.
wild_pointer == <<
    One("readr", ebx), Op("movl_reg_deref", ebx, ebx, 0),
    Op("movl_deref_reg", ebx, eax, 1), One("popl", eax)>>

wild_stack == <<One("readr", esp), One("pushl", eax), One("popl", eax), Ret>>

wild_jump == <<To("jmp", 3)>>

Wild == {"wild_pointer", "wild_stack", "wild_jump"}

\* The deepest recursion of factorial that the stack has room for.
Deepest == (STACK_SIZE - 8) \div (2 * WORD) + 1

Edges == {INT_MIN, INT_MIN + 1, -1, 0, 1, INT_MAX - 1, INT_MAX}

Run(lines, inputs) == [bytes |-> Assemble(lines), inputs |-> inputs]

SmallPrograms ==
    [factorial   |-> Run(factorial, Edges \cup {2, 3, 6, Deepest, Deepest + 1}),
     log2        |-> Run(log2, Edges \cup {2, 3, 4, 5, 8, 100}),
     sort        |-> Run(sort, {INT_MIN, -4, 0, 7, INT_MAX}),
     comparisons |-> Run(comparisons, Edges),
     cmpl        |-> Run(flags, {}),
     unaligned1  |-> Run(unaligned1, Edges \cup {668}),
     unaligned2  |-> Run(unaligned2, Edges \cup {668}),
     wild_pointer |-> Run(wild_pointer, Edges \cup {STACK_SIZE - WORD}),
     wild_stack   |-> Run(wild_stack, {2, STACK_SIZE - 2, STACK_SIZE}),
     wild_jump    |-> Run(wild_jump, {})]

-----------------------------------------------------------------------------
\* factorial.c, in ints that wrap around, and log2.c.
Fact[n \in 2 .. Deepest] == IF n = 2 THEN 2 ELSE Signed(n * Fact[n-1])

Log2[n \in 0 .. WordValues - 1] == IF n <= 2 THEN 1 ELSE 1 + Log2[n \div 2]

\* What the programs of the tests need of the machine, which the real one, with
\* words of 4 bytes and a stack of 1024, has: pointers of 4 bytes, addresses for
\* the longest program, and a stack for sort and for the deepest recursion of log2.
\* The equations of the powers of BYTE are those of any number; they are stated
\* because the provers know none.  Any inputs will do, except for the wild programs.
ASSUME TestsAssumption ==
    /\ WORD = 4 /\ BYTE >= 8 /\ STACK_SIZE >= 64
    /\ BYTE ^ 0 = 1 /\ \A k \in 1 .. WORD : BYTE ^ k = BYTE ^ (k - 1) * BYTE
    /\ \A n \in 0 .. WordValues - 1 : 12 * Log2[n] <= STACK_SIZE
    /\ \A name \in DOMAIN Programs :
          /\ name \in DOMAIN SmallPrograms
          /\ Programs[name].bytes = SmallPrograms[name].bytes
          /\ name \in Wild => Programs[name].inputs \subseteq SmallPrograms[name].inputs

Ascending(s) == \A i, j \in DOMAIN s : i < j => s[i] <= s[j]

Permuted(s, t) ==
    /\ Len(s) = Len(t)
    /\ \A val \in {s[i] : i \in DOMAIN s} :
          Cardinality({i \in DOMAIN s : s[i] = val}) = Cardinality({i \in DOMAIN t : t[i] = val})

\* cmpl.expected, 64 to 2048; and what the build that compares exact values prints,
\* which never notices an overflow.
cmpl_expected == <<ZF, ZF, 0, CF + SF, SF, CF, CF + SF, 0, CF + SF + OF, OF>>
CmplResult(how) == IF how = "wraps" THEN cmpl_expected
                   ELSE [cmpl_expected EXCEPT ![9] = CF, ![10] = SF]

\* tests/complex/README, and the C programs the tests were compiled from: a
\* program that ends has printed the factorial, the logarithm, the numbers in
\* ascending order, and the number shifted by a byte.  sort fails where the flags
\* do: given 0 and the least integer, in a build that wraps around.  cmpl.s prints
\* what cmpl.expected says in that build only.
PrintsTheResult == status = "done" =>
    CASE program = "factorial" -> printed = <<Fact[scanned[1]]>>
      [] program = "log2" -> printed = <<Log2[Unsigned(scanned[1])]>>
      [] program = "sort" ->
            /\ Permuted(scanned, printed)
            /\ Ascending(printed) \/ (build = "wraps" /\ {0, INT_MIN} \subseteq
                                          {scanned[i] : i \in DOMAIN scanned})
      [] program = "cmpl" ->
            /\ Len(printed) = 10
            /\ \A n \in 1 .. 10 : Unsigned(printed[n]) = CmplResult(build)[n]
      [] program = "unaligned1" -> printed[2] = Unsigned(scanned[1]) \div BYTE
      [] program = "unaligned2" -> printed[2] = Signed(scanned[1] * BYTE)
      [] OTHER -> TRUE

\* tests/complex/README:9 "Sorts them in ascending order": whatever the numbers.
SortsAscending == status = "done" /\ program = "sort" => Ascending(printed)

\* The only one of the tests that leaves its memory is factorial, whose recursion
\* does not stop at 1: for a number that is below 2 or too large for the stack.
StaysOnStack ==
    status = "stray" => \/ program \in Wild
                        \/ program = "factorial" /\ scanned[1] \notin 2 .. Deepest
=============================================================================
