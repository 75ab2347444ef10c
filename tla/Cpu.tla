----------------------------------- MODULE Cpu -----------------------------------
(***************************************************************************)
(* The processor of Simulator/simulator.c: decode_instructions, the loop   *)
(* of main and execute_instruction, one action per opcode.                 *)
(*                                                                         *)
(* A word has WORD bytes of BYTE values each; registers hold it as the     *)
(* signed int of the code, the program counter as an unsigned one.  The    *)
(* file of instructions is one that the assembler makes: every opcode and  *)
(* register number exists.                                                 *)
(*                                                                         *)
(* An access outside of the stack's memory, or a program counter outside   *)
(* of the program, is undefined: status becomes "stray" and nothing is     *)
(* said of what follows.  The signed overflow of the difference in cmpl is *)
(* undefined too; it is resolved by the build, once and for all, in one of *)
(* the two ways that gcc makes of this code: -O0 wraps it around, -O1 and  *)
(* up compare the exact values (reg2 < reg1 for reg2 - reg1 < 0), in the   *)
(* sign flag and in the overflow flag.  Other compilers might mix the two. *)
(* Sums and products wrap around in both.                                  *)
(***************************************************************************)
EXTENDS Integers, Sequences

CONSTANTS WORD, BYTE,       \* bytes of a word: 4; values of a byte: 256
          STACK_SIZE,       \* 1024
          CF, ZF, SF, OF,   \* weights of the flags: bits 0, 6, 7 and 11
          Programs          \* name -> [bytes, inputs], the programs to run

ASSUME CpuAssumption ==
    /\ {WORD, BYTE, STACK_SIZE, CF, ZF, SF, OF} \subseteq Nat \ {0}
    /\ 2 * STACK_SIZE < BYTE ^ WORD
    /\ \A k \in 0 .. WORD : BYTE ^ k \in Nat \ {0}
    /\ (BYTE ^ WORD) % 2 = 0
    /\ ZF % (2 * CF) = 0 /\ SF % (2 * ZF) = 0 /\ OF % (2 * SF) = 0 /\ 2 * OF <= BYTE ^ WORD

VARIABLES program,          \* name of the program
          build,            \* "wraps" or "exact": what the compiler made of cmpl
          instructions, program_counter, registers, memory,
          status,           \* "running", "done" or "stray"
          scanned, printed, \* values read and printed so far
          compared,         \* history: reg1 and reg2 of the last cmpl
          calls             \* history: what the calls under way must find again

io == <<scanned, printed>>
history == <<compared, calls>>
vars == <<program, build, instructions, program_counter, registers, memory, status, io, history>>

ESP == 6
EFLAGS == 16
NUM_REGS == 17

WordValues == BYTE ^ WORD
INT_MIN == -(WordValues \div 2)
INT_MAX == -INT_MIN - 1

\* An int and an unsigned int with the low bits of n.
Signed(n) == ((n - INT_MIN) % WordValues) + INT_MIN
Unsigned(n) == n % WordValues

-----------------------------------------------------------------------------
(* Instructions are 32 bits, given as two halves hi and lo: opcode and     *)
(* register numbers of five bits, a bit of no use, 16 bits of immediate.   *)

Opcodes == <<"subl", "addl_reg_reg", "addl_imm_reg", "imull", "shrl",
             "movl_reg_reg", "movl_deref_reg", "movl_reg_deref", "movl_imm_reg",
             "cmpl", "je", "jl", "jle", "jge", "jbe", "jmp", "call", "ret",
             "pushl", "popl", "printr", "readr">>

Bits(n, from, count) == (n \div 2 ^ from) % 2 ^ count

decode_instructions(bytes) ==
    [i \in DOMAIN bytes |->
        [opcode |-> Opcodes[Bits(bytes[i].hi, 11, 5) + 1],
         first_register |-> Bits(bytes[i].hi, 6, 5),
         second_register |-> Bits(bytes[i].hi, 1, 5),
         immediate |-> ((bytes[i].lo + 2 ^ 15) % 2 ^ 16) - 2 ^ 15]]

Instruction == [opcode : {Opcodes[n] : n \in DOMAIN Opcodes},
                first_register : 0 .. NUM_REGS - 1, second_register : 0 .. NUM_REGS - 1,
                immediate : 1 - WordValues .. WordValues - 1]

\* Programs are what the assembler makes, inputs are ints.
ASSUME ProgramsAssumption == \A name \in DOMAIN Programs :
    /\ decode_instructions(Programs[name].bytes) \in Seq(Instruction)
    /\ Programs[name].inputs \subseteq INT_MIN .. INT_MAX

-----------------------------------------------------------------------------
(* Memory is bytes, the least significant byte of a word first.            *)

OnStack(a) == a \in 0 .. STACK_SIZE - WORD

Load(a) == LET sum[i \in 0 .. WORD] ==
                   IF i = 0 THEN 0 ELSE sum[i-1] + memory[a + i - 1] * BYTE ^ (i-1)
           IN  Signed(sum[WORD])

\* Mutant of Store: the bytes are not cut off.
Store_uncut(a, val) == [b \in DOMAIN memory |->
                           IF b \in a .. a + WORD - 1 THEN Unsigned(val) \div BYTE ^ (b - a)
                           ELSE memory[b]]

Store(a, val) == [b \in DOMAIN memory |->
                     IF b \in a .. a + WORD - 1 THEN (Unsigned(val) \div BYTE ^ (b - a)) % BYTE
                     ELSE memory[b]]

-----------------------------------------------------------------------------
Init ==
    /\ program \in DOMAIN Programs
    /\ build \in {"wraps", "exact"}
    /\ instructions = decode_instructions(Programs[program].bytes)
    /\ program_counter = 0
    /\ registers = [r \in 0 .. NUM_REGS - 1 |-> IF r = ESP THEN STACK_SIZE ELSE 0]
    /\ memory = [a \in 0 .. STACK_SIZE - 1 |-> 0]
    /\ status = IF instructions = <<>> THEN "done" ELSE "running"
    /\ scanned = <<>> /\ printed = <<>> /\ compared = <<>> /\ calls = <<>>

instr == instructions[program_counter \div WORD + 1]
r1 == instr.first_register
r2 == instr.second_register
imm == instr.immediate

Executes(opcode) ==
    /\ status = "running" /\ instr.opcode = opcode
    /\ UNCHANGED <<program, build, instructions>>

\* The loop of main: on to the instruction at pc, unless that is the end.
Goto(pc) ==
    /\ program_counter' = Unsigned(pc)
    /\ status' = CASE program_counter' = WORD * Len(instructions) -> "done"
                   [] program_counter' \div WORD < Len(instructions) -> "running"
                   [] OTHER -> "stray"

NextInstruction == Goto(program_counter + WORD)

Set(regs, r, val) == [regs EXCEPT ![r] = Signed(val)]

\* The access to address a is carried out if it is one to the stack's memory.
Access(a, A) ==
    \/ OnStack(a) /\ A
    \/ ~OnStack(a) /\ status' = "stray" /\ UNCHANGED <<program_counter, registers, memory, io, history>>

Computes(opcode, r, val) ==
    /\ Executes(opcode)
    /\ registers' = Set(registers, r, val)
    /\ NextInstruction
    /\ UNCHANGED <<memory, io, history>>

\* Mutant of Jumps: relative to the jump itself.
Jumps_here(opcode, cond) ==
    /\ Executes(opcode)
    /\ Goto(program_counter + (IF cond THEN imm ELSE WORD))
    /\ UNCHANGED <<registers, memory, io, history>>

Jumps(opcode, cond) ==
    /\ Executes(opcode)
    /\ Goto(program_counter + (IF cond THEN imm ELSE 0) + WORD)
    /\ UNCHANGED <<registers, memory, io, history>>

-----------------------------------------------------------------------------
(* Arithmetic and moves.                                                   *)

subl == Computes("subl", r1, registers[r1] - imm)

addl_reg_reg == Computes("addl_reg_reg", r2, registers[r1] + registers[r2])

addl_imm_reg == Computes("addl_imm_reg", r1, registers[r1] + imm)

imull == Computes("imull", r2, registers[r1] * registers[r2])

\* Mutant of shrl: an arithmetic shift.
shrl_signed == Computes("shrl", r1, registers[r1] \div 2)

shrl == Computes("shrl", r1, Unsigned(registers[r1]) \div 2)

movl_reg_reg == Computes("movl_reg_reg", r2, registers[r1])

movl_imm_reg == Computes("movl_imm_reg", r1, imm)

movl_deref_reg ==
    /\ Executes("movl_deref_reg")
    /\ Access(registers[r1] + imm,
              Computes("movl_deref_reg", r2, Load(registers[r1] + imm)))

movl_reg_deref ==
    /\ Executes("movl_reg_deref")
    /\ Access(registers[r2] + imm,
              /\ memory' = Store(registers[r2] + imm, registers[r1])
              /\ NextInstruction
              /\ UNCHANGED <<registers, io, history>>)

-----------------------------------------------------------------------------
(* Comparison and jumps.                                                   *)

\* reg2 - reg1 in a build that treats overflow as how says: gcc -O0, or -O1 and up.
Diff(how, reg1, reg2) == IF how = "wraps" THEN Signed(reg2 - reg1) ELSE reg2 - reg1

\* Mutant of Overflows: one of the two directions is forgotten.
Overflows_down(how, reg1, reg2) == reg1 > 0 /\ reg2 < 0 /\ Diff(how, reg1, reg2) > 0

Overflows(how, reg1, reg2) ==
    \/ reg1 > 0 /\ reg2 < 0 /\ Diff(how, reg1, reg2) > 0
    \/ reg1 < 0 /\ reg2 > 0 /\ Diff(how, reg1, reg2) < 0

Flags(how, reg1, reg2) ==
    (IF Unsigned(reg1) > Unsigned(reg2) THEN CF ELSE 0)
    + (IF reg1 = reg2 THEN ZF ELSE 0)
    + (IF Diff(how, reg1, reg2) < 0 THEN SF ELSE 0)
    + (IF Overflows(how, reg1, reg2) THEN OF ELSE 0)

\* eflags is cleared before the operands are read.
cmpl ==
    LET cleared == Set(registers, EFLAGS, 0)
        reg1 == cleared[r1]
        reg2 == cleared[r2]
    IN  /\ Executes("cmpl")
        /\ registers' = Set(cleared, EFLAGS, Flags(build, reg1, reg2))
        /\ compared' = <<reg1, reg2>>
        /\ NextInstruction
        /\ UNCHANGED <<memory, io, calls>>

HasFlag(eflags, weight) == (eflags \div weight) % 2 = 1

\* Mutant of Taken: below for below or equal.
Taken_below(opcode, eflags) ==
    LET zero == HasFlag(eflags, ZF)
        less == HasFlag(eflags, SF) # HasFlag(eflags, OF)
    IN  CASE opcode = "je"  -> zero
          [] opcode = "jl"  -> less
          [] opcode = "jle" -> less \/ zero
          [] opcode = "jge" -> ~less
          [] opcode = "jbe" -> HasFlag(eflags, CF)

Taken(opcode, eflags) ==
    LET carry == HasFlag(eflags, CF)    zero == HasFlag(eflags, ZF)
        sign == HasFlag(eflags, SF)     overflow == HasFlag(eflags, OF)
    IN  CASE opcode = "je"  -> zero
          [] opcode = "jl"  -> sign # overflow
          [] opcode = "jle" -> (overflow # sign) \/ zero
          [] opcode = "jge" -> ~(sign # overflow)
          [] opcode = "jbe" -> carry \/ zero

Conditional == {"je", "jl", "jle", "jge", "jbe"}

jcc == \E opcode \in Conditional :
    Jumps(opcode, Taken(opcode, Unsigned(registers[EFLAGS])))

jmp == Jumps("jmp", TRUE)

-----------------------------------------------------------------------------
(* Calls and the stack.                                                    *)

\* What a program keeps for its caller: ebx, ebp, r12d and the stack pointer.
Kept(regs) == [r \in {1, ESP, 7, 12} |-> regs[r]]

\* Mutant of call: it returns to itself.
call_again ==
    LET esp == Signed(registers[ESP] - WORD) IN
    /\ Executes("call")
    /\ Access(esp,
              /\ registers' = Set(registers, ESP, esp)
              /\ memory' = Store(esp, program_counter)
              /\ calls' = Append(calls, [pc |-> program_counter + WORD, kept |-> Kept(registers)])
              /\ Goto(program_counter + imm + WORD)
              /\ UNCHANGED <<io, compared>>)

call ==
    LET esp == Signed(registers[ESP] - WORD) IN
    /\ Executes("call")
    /\ Access(esp,
              /\ registers' = Set(registers, ESP, esp)
              /\ memory' = Store(esp, program_counter + WORD)
              /\ calls' = Append(calls, [pc |-> program_counter + WORD, kept |-> Kept(registers)])
              /\ Goto(program_counter + imm + WORD)
              /\ UNCHANGED <<io, compared>>)

\* At the bottom of the stack the program exits.
ret ==
    /\ Executes("ret")
    /\ \/ /\ registers[ESP] = STACK_SIZE
          /\ status' = "done"
          /\ UNCHANGED <<program_counter, registers, memory, io, history>>
       \/ /\ registers[ESP] # STACK_SIZE
          /\ Access(registers[ESP],
                    /\ registers' = Set(registers, ESP, registers[ESP] + WORD)
                    /\ calls' = IF calls = <<>> THEN <<>> ELSE SubSeq(calls, 1, Len(calls) - 1)
                    /\ Goto(Load(registers[ESP]))
                    /\ UNCHANGED <<memory, io, compared>>)

pushl ==
    LET moved == Set(registers, ESP, registers[ESP] - WORD) IN
    /\ Executes("pushl")
    /\ Access(moved[ESP],
              /\ registers' = moved
              /\ memory' = Store(moved[ESP], moved[r1])
              /\ NextInstruction
              /\ UNCHANGED <<io, history>>)

popl ==
    LET loaded == Set(registers, r1, Load(registers[ESP])) IN
    /\ Executes("popl")
    /\ Access(registers[ESP],
              /\ registers' = Set(loaded, ESP, loaded[ESP] + WORD)
              /\ NextInstruction
              /\ UNCHANGED <<memory, io, history>>)

-----------------------------------------------------------------------------
(* Input and output.                                                       *)

printr ==
    /\ Executes("printr")
    /\ printed' = Append(printed, registers[r1])
    /\ NextInstruction
    /\ UNCHANGED <<registers, memory, scanned, history>>

\* At the end of the input scanf leaves the register as it is.
readr ==
    /\ Executes("readr")
    /\ \E val \in Programs[program].inputs \cup {registers[r1]} :
          /\ registers' = Set(registers, r1, val)
          /\ scanned' = Append(scanned, val)
    /\ NextInstruction
    /\ UNCHANGED <<memory, printed, history>>

-----------------------------------------------------------------------------
Next ==
    \/ subl \/ addl_reg_reg \/ addl_imm_reg \/ imull \/ shrl
    \/ movl_reg_reg \/ movl_imm_reg \/ movl_deref_reg \/ movl_reg_deref
    \/ cmpl \/ jcc \/ jmp
    \/ call \/ ret \/ pushl \/ popl
    \/ printr \/ readr

\* main runs one instruction after the other.
Spec == Init /\ [][Next]_vars /\ WF_vars(Next)

-----------------------------------------------------------------------------
\* The types of the variables.
TypeOK ==
    /\ program_counter \in 0 .. WordValues - 1
    /\ registers \in [0 .. NUM_REGS - 1 -> INT_MIN .. INT_MAX]
    /\ memory \in [0 .. STACK_SIZE - 1 -> 0 .. BYTE - 1]
    /\ status \in {"running", "done", "stray"}

\* The comparison a conditional jump is named for, of reg2 with reg1.
Holds(opcode, reg1, reg2) ==
    CASE opcode = "je"  -> reg2 = reg1
      [] opcode = "jl"  -> reg2 < reg1
      [] opcode = "jle" -> reg2 <= reg1
      [] opcode = "jge" -> reg2 >= reg1
      [] opcode = "jbe" -> Unsigned(reg2) <= Unsigned(reg1)

\* The one comparison the flags get wrong: 0 with the least integer, in a build
\* that wraps around, where the sign is wrong and the overflow not noticed.
Misjudged(how, reg1, reg2) == how = "wraps" /\ reg1 = INT_MIN /\ reg2 = 0

\* What a jump takes the comparison for: on the misjudged pair, those that read
\* sign and overflow take the opposite.
Judged(how, opcode, reg1, reg2) ==
    IF Misjudged(how, reg1, reg2) /\ opcode \in {"jl", "jle", "jge"}
    THEN ~Holds(opcode, reg1, reg2)
    ELSE Holds(opcode, reg1, reg2)

\* A conditional jump is taken exactly when the comparison of the last cmpl holds,
\* whatever ran in between and in both builds, which is what the tables of Specs.md
\* (lines 338-349 and 390-396) come to; and jl, jle and jge of 0 and the least
\* integer, where they come to the same, go the wrong way in a build that wraps.
JumpsCompare ==
    [][\A opcode \in Conditional :
          Executes(opcode) /\ imm # 0 /\ compared # <<>>
          => (program_counter' = Unsigned(program_counter + imm + WORD)
                <=> Judged(build, opcode, compared[1], compared[2]))]_vars

\* A ret goes back behind the call that is under way, with the stack pointer and
\* the registers of the caller, through recursion and across whatever the callee
\* pushed; at the bottom of the stack no call is under way.
ReturnsToCaller ==
    [][Executes("ret") /\ status' # "stray" =>
          IF registers[ESP] = STACK_SIZE THEN calls = <<>>
          ELSE /\ calls # <<>>
               /\ program_counter' = calls[Len(calls)].pc
               /\ Kept(registers') = calls[Len(calls)].kept]_vars

\* Every program comes to its end, or runs off its memory; none runs for ever.
Ends == <>(status # "running")
=============================================================================
