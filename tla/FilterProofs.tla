---------------------------- MODULE FilterProofs ----------------------------
(***************************************************************************)
(* The device filter is compiled correctly: for any number of paths, in    *)
(* any order and however often they occur, the program that the kernel     *)
(* runs answers what the member's claims grant.                            *)
(*                                                                         *)
(* The invariant says where control may be and what the registers hold     *)
(* there: before rule i no earlier rule matches, and each test that was    *)
(* passed holds.                                                           *)
(***************************************************************************)
EXTENDS DeviceFilter, FiniteSetTheorems, TLAPS

-----------------------------------------------------------------------------
(* The invariant.                                                          *)

Grants == {DEVCG_ACC_READ + DEVCG_ACC_WRITE, AllAccess}

RuleSet == [type : {DEVCG_DEV_BLOCK, DEVCG_DEV_CHAR}, major : Number, minor : Number,
            access : Grants]

Within(rule, a) == And(a.bits, HalfWord - 1 - rule.access) = 0

Matches(rule, a) ==
    /\ Within(rule, a)
    /\ a.device.type = rule.type /\ a.device.major = rule.major /\ a.device.minor = rule.minor

Word == access.bits * HalfWord + access.device.type

NoneOf(R, i) == \A j \in 1 .. i : ~Matches(R[j], access)

Loaded == regs[2] = Word /\ regs[3] = access.device.major /\ regs[4] = access.device.minor

\* Control is at offset o of the block of rule i, counted from 0.
InBlock(R, i, o) ==
    /\ pc = 3 + i * 10 + o /\ Loaded /\ NoneOf(R, i)
    /\ o \in {1, 5} => regs[6] = Word
    /\ o = 2 => regs[6] = access.bits
    /\ o = 3 => regs[6] = And(access.bits, HalfWord - 1 - R[i + 1].access)
    /\ o = 6 => regs[6] = access.device.type
    /\ o >= 4 => Within(R[i + 1], access)
    /\ o >= 7 => access.device.type = R[i + 1].type
    /\ o >= 8 => access.device.major = R[i + 1].major
    /\ o >= 9 => access.device.minor = R[i + 1].minor

InPrologue ==
    \/ pc = 0
    \/ pc = 1 /\ regs[2] = Word
    \/ pc = 2 /\ regs[2] = Word /\ regs[3] = access.device.major

InEpilogue(R) ==
    LET allow == 3 + Len(R) * 10
    IN  \/ pc = allow /\ ~NoneOf(R, Len(R))
        \/ pc = allow + 1 /\ ~NoneOf(R, Len(R)) /\ regs[0] = 1
        \/ pc = allow + 2 /\ NoneOf(R, Len(R))
        \/ pc = allow + 3 /\ NoneOf(R, Len(R)) /\ regs[0] = 0

Position(R) ==
    IF R = <<>> THEN pc = 0 \/ (pc = 1 /\ regs[0] = 0)
    ELSE \/ InPrologue \/ InEpilogue(R)
         \/ \E i \in 0 .. Len(R) - 1, o \in 0 .. 9 : InBlock(R, i, o)

\* The attached program is that of these paths, and a member with claims has its own.
Filters(paths) ==
    /\ program = compile(DeviceRules(paths))
    /\ access # None => Position(DeviceRules(paths))
    /\ claim \notin {None, <<>>} => paths = claim

FilterInv ==
    /\ claim = None => access = None
    /\ access # None => access \in Access /\ program # None
    /\ program # None => \E paths \in MemberClaims : Filters(paths)
    /\ regs \in [Registers -> Nat \cup {None}]

-----------------------------------------------------------------------------
(* Words and instructions.                                                 *)

\* The arithmetic of the tests: the two halves of the kernel's word, and what
\* the mask of a grant leaves of a request.
LEMMA Words ==
    ASSUME NEW bits \in 1 .. AllAccess, NEW type \in {DEVCG_DEV_BLOCK, DEVCG_DEV_CHAR}
    PROVE  /\ bits * HalfWord + type \in Nat
           /\ (bits * HalfWord + type) \div 2 ^ 16 = bits
           /\ And(bits * HalfWord + type, HalfWord - 1) = type
           /\ \A granted \in Grants :
                 /\ And(bits, HalfWord - 1 - granted) \in Nat
                 /\ And(bits, HalfWord - 1 - granted) = 0
                       <=> granted = AllAccess \/ And(bits, DEVCG_ACC_MKNOD) = 0
<1> USE DEF AllAccess, DEVCG_ACC_READ, DEVCG_ACC_WRITE, DEVCG_ACC_MKNOD, DEVCG_DEV_BLOCK,
            DEVCG_DEV_CHAR, HalfWord, Grants
<1>1. bits * HalfWord + type \in Nat /\ (bits * HalfWord + type) \div 2 ^ 16 = bits
  OBVIOUS
<1>2. And(bits * HalfWord + type, HalfWord - 1) = type
  BY DEF And, Bit
<1>3. And(bits, HalfWord - 1 - 7) = 0
  BY DEF And, Bit
<1>4. And(bits, HalfWord - 1 - 6) \in Nat /\ (And(bits, HalfWord - 1 - 6) = 0 <=> bits % 2 = 0)
  BY DEF And, Bit
<1>5. And(bits, 1) = 0 <=> bits % 2 = 0
  BY DEF And, Bit
<1> QED
  BY <1>1, <1>2, <1>3, <1>4, <1>5

\* What one instruction does.
LEMMA Load ==
    ASSUME NEW d, NEW byte, Current = load_ctx_word(d, byte), Execute
    PROVE  pc' = pc + 1 /\ regs' = [regs EXCEPT ![d] = CtxWord(byte)]
BY DEF Execute, Write, load_ctx_word, Insn

\* The same of a constant.
LEMMA MoveImm ==
    ASSUME NEW d, NEW imm, Current = mov_imm(d, imm), Execute
    PROVE  pc' = pc + 1 /\ regs' = [regs EXCEPT ![d] = imm]
BY DEF Execute, Write, mov_imm, Insn

\* The same of a register.
LEMMA MoveReg ==
    ASSUME NEW d, NEW r, Current = mov_reg(d, r), Execute
    PROVE  pc' = pc + 1 /\ regs' = [regs EXCEPT ![d] = regs[r]]
BY DEF Execute, Write, mov_reg, Insn

\* The same of a mask.
LEMMA Mask ==
    ASSUME NEW d, NEW imm, Current = and_imm(d, imm), Execute
    PROVE  pc' = pc + 1 /\ regs' = [regs EXCEPT ![d] = And(regs[d], imm)]
BY DEF Execute, Write, and_imm, Insn

\* The same of a shift.
LEMMA Shift ==
    ASSUME NEW d, NEW imm, Current = rsh_imm(d, imm), Execute
    PROVE  pc' = pc + 1 /\ regs' = [regs EXCEPT ![d] = regs[d] \div 2 ^ imm]
BY DEF Execute, Write, rsh_imm, Insn

\* An offset that fits is the distance.
LEMMA ShortJump ==
    ASSUME NEW from \in Nat, NEW target \in Nat, from < target, target - from <= 32768
    PROVE  jump_to(from, target) = target - from - 1
<1>1. HalfWord = 65536 /\ HalfWord \div 2 = 32768
  BY DEF HalfWord
<1>2. PICK k \in Nat : k = target - from - 1 /\ k < 32768
  OBVIOUS
<1>3. (k + 32768) % 65536 = k + 32768
  BY <1>2
<1> QED
  BY <1>1, <1>2, <1>3 DEF jump_to

\* A test at address pc goes on when it holds, and to its target otherwise.
LEMMA Test ==
    ASSUME pc \in Nat, NEW d, NEW target \in Nat, NEW imm, pc < target, target - pc <= 32768,
           Current = jne(pc, d, target, imm), Execute
    PROVE  regs' = regs /\ pc' = IF regs[d] # imm THEN target ELSE pc + 1
<1>1. jump_to(pc, target) \in Int /\ pc + 1 + jump_to(pc, target) = target
  BY ShortJump
<1> QED
  BY <1>1 DEF Execute, jne, Insn

\* The jump of a rule that matches.
LEMMA Jump ==
    ASSUME pc \in Nat, NEW target \in Nat, pc < target, target - pc <= 32768,
           Current = Insn("ja", 0, 0, jump_to(pc, target), 0), Execute
    PROVE  regs' = regs /\ pc' = target
<1>1. jump_to(pc, target) \in Int /\ pc + 1 + jump_to(pc, target) = target
  BY ShortJump
<1> QED
  BY <1>1 DEF Execute, Insn

-----------------------------------------------------------------------------
(* The layout of a program.                                                *)

\* A function on an initial segment is a sequence.
LEMMA SegmentIsSeq ==
    ASSUME NEW S, NEW n \in Nat, NEW f \in [1 .. n -> S]
    PROVE  f \in Seq(S) /\ Len(f) = n
OBVIOUS

\* A sequence of three parts.
LEMMA ThreeParts ==
    ASSUME NEW S, NEW a \in Seq(S), NEW b \in Seq(S), NEW c \in Seq(S)
    PROVE  /\ DOMAIN (a \o b \o c) = 1 .. Len(a) + Len(b) + Len(c)
           /\ \A k \in 1 .. Len(a) : (a \o b \o c)[k] = a[k]
           /\ \A k \in 1 .. Len(b) : (a \o b \o c)[Len(a) + k] = b[k]
           /\ \A k \in 1 .. Len(c) : (a \o b \o c)[Len(a) + Len(b) + k] = c[k]
OBVIOUS

\* compile: prologue, ten instructions per rule, epilogue.
LEMMA Layout ==
    ASSUME NEW R \in Seq(RuleSet), R # <<>>
    PROVE  LET P == compile(R)
               allow == 3 + Len(R) * 10
               next(i) == IF i + 1 < Len(R) THEN 3 + i * 10 + 10 ELSE allow + 2
           IN  /\ DOMAIN P = 1 .. allow + 4
               /\ P[1] = load_ctx_word(2, 0) /\ P[2] = load_ctx_word(3, 4)
               /\ P[3] = load_ctx_word(4, 8)
               /\ \A i \in 0 .. Len(R) - 1, o \in 0 .. 9 :
                     P[3 + i * 10 + o + 1] = RuleBlock(R[i + 1], 3 + i * 10, next(i), allow)[o + 1]
               /\ P[allow + 1] = mov_imm(0, 1) /\ P[allow + 2] = exit
               /\ P[allow + 3] = mov_imm(0, 0) /\ P[allow + 4] = exit
<1> DEFINE P == compile(R)
           allow == 3 + Len(R) * 10
           next(i) == IF i + 1 < Len(R) THEN 3 + i * 10 + 10 ELSE allow + 2
           block(i) == RuleBlock(R[i + 1], 3 + i * 10, next(i), allow)
           middle == [k \in 1 .. Len(R) * 10 |-> block((k - 1) \div 10)[((k - 1) % 10) + 1]]
<1>1. P = prologue \o middle \o epilogue
  BY DEF compile, prologue
<1>2. Len(R) \in Nat
  OBVIOUS
<1>3. \A i \in 0 .. Len(R) - 1, o \in 0 .. 9 : middle[i * 10 + o + 1] = block(i)[o + 1]
  <2> SUFFICES ASSUME NEW i \in 0 .. Len(R) - 1, NEW o \in 0 .. 9
               PROVE  middle[i * 10 + o + 1] = block(i)[o + 1]
    OBVIOUS
  <2>1. i * 10 + o + 1 \in 1 .. Len(R) * 10
    BY <1>2
  <2>2. (i * 10 + o + 1 - 1) \div 10 = i /\ (i * 10 + o + 1 - 1) % 10 = o
    BY <1>2
  <2> HIDE DEF block
  <2> QED
    BY <2>1, <2>2
<1> DEFINE m == Len(R) * 10
           S == {middle[k] : k \in 1 .. m} \cup {prologue[k] : k \in 1 .. 3}
                \cup {epilogue[k] : k \in 1 .. 4}
<1>4. m \in Nat /\ middle \in [1 .. m -> S]
  <2>1. m \in Nat /\ DOMAIN middle = 1 .. m /\ middle = [k \in 1 .. m |-> middle[k]]
    BY <1>2
  <2> HIDE DEF middle, m
  <2> QED
    BY <2>1
<1>5. prologue \in [1 .. 3 -> S] /\ epilogue \in [1 .. 4 -> S]
  BY DEF prologue, epilogue
<1> HIDE DEF middle, block, S, m
<1>6. /\ middle \in Seq(S) /\ Len(middle) = m
      /\ prologue \in Seq(S) /\ Len(prologue) = 3
      /\ epilogue \in Seq(S) /\ Len(epilogue) = 4
  BY <1>4, <1>5, SegmentIsSeq
<1>7. /\ DOMAIN P = 1 .. 3 + m + 4
      /\ \A k \in 1 .. 3 : P[k] = prologue[k]
      /\ \A k \in 1 .. m : P[3 + k] = middle[k]
      /\ \A k \in 1 .. 4 : P[3 + m + k] = epilogue[k]
  <2> DEFINE J == prologue \o middle \o epilogue
  <2>1. /\ DOMAIN J = 1 .. Len(prologue) + Len(middle) + Len(epilogue)
        /\ \A k \in 1 .. Len(prologue) : J[k] = prologue[k]
        /\ \A k \in 1 .. Len(middle) : J[Len(prologue) + k] = middle[k]
        /\ \A k \in 1 .. Len(epilogue) : J[Len(prologue) + Len(middle) + k] = epilogue[k]
    <3>1. middle \in Seq(S) /\ prologue \in Seq(S) /\ epilogue \in Seq(S)
      BY <1>6
    <3> QED
      BY <3>1, ThreeParts
  <2>2. P = J
    BY <1>1
  <2> HIDE DEF J, P
  <2> QED
    BY <2>1, <2>2, <1>6
<1>8. allow = 3 + m
  BY DEF m
<1>9. \A i \in 0 .. Len(R) - 1, o \in 0 .. 9 : P[3 + i * 10 + o + 1] = block(i)[o + 1]
  <2> SUFFICES ASSUME NEW i \in 0 .. Len(R) - 1, NEW o \in 0 .. 9
               PROVE  P[3 + i * 10 + o + 1] = block(i)[o + 1]
    OBVIOUS
  <2>1. PICK k \in Nat : k = i * 10 + o + 1
    BY <1>2
  <2>2. k \in 1 .. m /\ 3 + k = 3 + i * 10 + o + 1
    BY <1>2, <2>1 DEF m
  <2>3. P[3 + k] = middle[k]
    BY <1>7, <2>2, Zenon
  <2>4. middle[k] = block(i)[o + 1]
    BY <1>3, <2>1, Zenon
  <2> QED
    BY <2>2, <2>3, <2>4, Zenon
<1>10. /\ P[1] = load_ctx_word(2, 0) /\ P[2] = load_ctx_word(3, 4) /\ P[3] = load_ctx_word(4, 8)
  <2> HIDE DEF P
  <2> QED
    BY <1>7 DEF prologue
<1>11. /\ P[allow + 1] = mov_imm(0, 1) /\ P[allow + 2] = exit
       /\ P[allow + 3] = mov_imm(0, 0) /\ P[allow + 4] = exit
  <2> HIDE DEF P, allow
  <2> QED
    BY <1>7, <1>8 DEF epilogue
<1> QED
  BY <1>7, <1>8, <1>9, <1>10, <1>11, <1>4 DEF block

-----------------------------------------------------------------------------
(* The steps of a program.                                                 *)

Ready(R) ==
    /\ program = compile(R) /\ access \in Access /\ access' = access /\ Execute
    /\ regs \in [Registers -> Nat \cup {None}]

Goes(R) == Position(R)' /\ regs' \in [Registers -> Nat \cup {None}]

\* What the kernel's words are.
LEMMA Context ==
    ASSUME access \in Access
    PROVE  /\ access.bits \in 1 .. AllAccess /\ access.device \in DeviceNumbers
           /\ access.device.type \in {DEVCG_DEV_BLOCK, DEVCG_DEV_CHAR}
           /\ access.device.type \in Nat /\ access.device.major \in Nat /\ access.device.minor \in Nat
           /\ Word \in Nat /\ Word \div 2 ^ 16 = access.bits /\ And(Word, HalfWord - 1) = access.device.type
           /\ CtxWord(0) = Word /\ CtxWord(4) = access.device.major
           /\ CtxWord(8) = access.device.minor
<1>1. /\ access.bits \in 1 .. AllAccess /\ access.device \in DeviceNumbers
      /\ access.device.type \in {DEVCG_DEV_BLOCK, DEVCG_DEV_CHAR}
      /\ access.device.major \in Nat /\ access.device.minor \in Nat
  BY FilterAssumption DEF Access, DeviceNumbers
<1>2. access.device.type \in Nat
  BY <1>1 DEF DEVCG_DEV_BLOCK, DEVCG_DEV_CHAR
<1>3. Word \in Nat /\ Word \div 2 ^ 16 = access.bits /\ And(Word, HalfWord - 1) = access.device.type
  BY <1>1, Words DEF Word
<1>4. CtxWord(0) = Word /\ CtxWord(4) = access.device.major /\ CtxWord(8) = access.device.minor
  BY DEF CtxWord, Word
<1> QED
  BY <1>1, <1>2, <1>3, <1>4

\* Without rules the program denies.
LEMMA EmptyStep ==
    ASSUME Ready(<<>>), pc = 0
    PROVE  Goes(<<>>)
<1>1. Current = mov_imm(0, 0)
  BY DEF Ready, compile, Current
<1>2. pc' = 1 /\ regs' = [regs EXCEPT ![0] = 0]
  BY <1>1, MoveImm DEF Ready
<1> QED
  BY <1>2 DEF Goes, Position, Ready, Registers

\* The prologue loads the three words.
LEMMA PrologueStep ==
    ASSUME NEW R \in Seq(RuleSet), R # <<>>, Ready(R), InPrologue
    PROVE  Goes(R)
<1> USE Context DEF Ready
<1>1. CASE pc = 0
  <2>1. Current = load_ctx_word(2, 0)
    BY <1>1, Layout DEF Current
  <2>2. pc' = 1 /\ regs' = [regs EXCEPT ![2] = Word]
    BY <1>1, <2>1, Load
  <2> QED
    BY <2>2 DEF Goes, Position, InPrologue, Registers, Word
<1>2. CASE pc = 1 /\ regs[2] = Word
  <2>1. Current = load_ctx_word(3, 4)
    BY <1>2, Layout DEF Current
  <2>2. pc' = 2 /\ regs' = [regs EXCEPT ![3] = access.device.major]
    BY <1>2, <2>1, Load
  <2> QED
    BY <1>2, <2>2 DEF Goes, Position, InPrologue, Registers, Word
<1>3. CASE pc = 2 /\ regs[2] = Word /\ regs[3] = access.device.major
  <2>1. Current = load_ctx_word(4, 8)
    BY <1>3, Layout DEF Current
  <2>2. pc' = 3 /\ regs' = [regs EXCEPT ![4] = access.device.minor]
    BY <1>3, <2>1, Load
  <2>3. InBlock(R, 0, 0)'
    BY <1>3, <2>2 DEF InBlock, Loaded, NoneOf, Registers, Word
  <2>4. 0 \in 0 .. Len(R) - 1 /\ 0 \in 0 .. 9
    OBVIOUS
  <2>5. regs' \in [Registers -> Nat \cup {None}]
    BY <2>2 DEF Registers
  <2> QED
    BY <2>3, <2>4, <2>5, Zenon DEF Goes, Position
<1> QED
  BY <1>1, <1>2, <1>3 DEF InPrologue

\* The epilogue answers.
LEMMA EpilogueStep ==
    ASSUME NEW R \in Seq(RuleSet), R # <<>>, Ready(R), InEpilogue(R), ~Exiting, Running
    PROVE  Goes(R)
<1> DEFINE allow == 3 + Len(R) * 10
<1>1. program = compile(R) /\ access' = access
  BY DEF Ready
<1>2. allow \in Nat
  OBVIOUS
<1>3. NoneOf(R, Len(R))' = NoneOf(R, Len(R))
  BY <1>1 DEF NoneOf
<1>4. ASSUME NEW v \in {0, 1}, Current = mov_imm(0, v)
      PROVE  pc' = pc + 1 /\ regs'[0] = v /\ regs' \in [Registers -> Nat \cup {None}]
  BY <1>4, MoveImm DEF Ready, Registers
<1>5. ~(Current = exit)
  BY DEF Exiting, exit, Insn
<1>6. CASE pc = allow /\ ~NoneOf(R, Len(R))
  <2>1. Current = mov_imm(0, 1)
    BY <1>1, <1>6, Layout DEF Current
  <2> QED
    BY <1>2, <1>3, <1>4, <1>6, <2>1 DEF Goes, Position, InEpilogue
<1>7. CASE pc = allow + 2 /\ NoneOf(R, Len(R))
  <2>1. Current = mov_imm(0, 0)
    BY <1>1, <1>2, <1>7, Layout DEF Current
  <2> QED
    BY <1>2, <1>3, <1>4, <1>7, <2>1 DEF Goes, Position, InEpilogue
<1>8. CASE pc = allow + 1 \/ pc = allow + 3
  <2>1. Current = exit
    BY <1>1, <1>2, <1>8, Layout DEF Current
  <2> QED
    BY <2>1, <1>5
<1> QED
  BY <1>6, <1>7, <1>8 DEF InEpilogue

\* A rule's block: each test that fails goes on to the next rule, or after the
\* last one to the denial, and a match jumps to the grant.
LEMMA BlockStep ==
    ASSUME NEW R \in Seq(RuleSet), R # <<>>, Len(R) <= MaxRules, Ready(R),
           NEW i \in 0 .. Len(R) - 1, NEW o \in 0 .. 9, InBlock(R, i, o)
    PROVE  Goes(R)
<1> DEFINE rule == R[i + 1]
           s == 3 + i * 10
           allow == 3 + Len(R) * 10
           next == IF i + 1 < Len(R) THEN 3 + i * 10 + 10 ELSE allow + 2
           Typed == regs' \in [Registers -> Nat \cup {None}]
<1>1. /\ rule.type \in {DEVCG_DEV_BLOCK, DEVCG_DEV_CHAR} /\ rule.major \in Nat /\ rule.minor \in Nat
      /\ rule.access \in Grants
  <2>1. rule \in RuleSet
    OBVIOUS
  <2> QED
    BY <2>1, FilterAssumption DEF RuleSet
<1>2. i \in Nat /\ s \in Nat /\ pc = s + o /\ Len(R) \in Nat
  BY DEF InBlock
<1>3. Current = RuleBlock(rule, s, next, allow)[o + 1]
  BY <1>2, Layout DEF Ready, Current
<1>4. /\ next \in Nat /\ s + 10 <= next /\ next - s <= 32768
      /\ allow \in Nat /\ s + 10 <= allow /\ allow - (s + 9) <= 32768
  BY <1>2 DEF MaxRules
<1>5. /\ access' = access /\ regs \in [Registers -> Nat \cup {None}] /\ access \in Access /\ Execute
      /\ Loaded /\ NoneOf(R, i) /\ Word' = Word
  BY DEF Ready, InBlock, Word
<1>6. ASSUME pc' = next, regs' = regs, ~Matches(rule, access)
      PROVE  Goes(R)
  <2>1. NoneOf(R, i + 1)' /\ Loaded' /\ Typed
    BY <1>2, <1>5, <1>6 DEF NoneOf, Loaded, Registers
  <2>2. CASE i + 1 < Len(R)
    <3>1. InBlock(R, i + 1, 0)'
      BY <1>2, <1>6, <2>1, <2>2 DEF InBlock
    <3>2. i + 1 \in 0 .. Len(R) - 1 /\ 0 \in 0 .. 9
      BY <2>2, <1>2
    <3> QED
      BY <2>1, <3>1, <3>2, Zenon DEF Goes, Position
  <2>3. CASE ~(i + 1 < Len(R))
    <3>1. i + 1 = Len(R)
      BY <2>3, <1>2
    <3>2. InEpilogue(R)'
      BY <1>6, <2>1, <2>3, <3>1 DEF InEpilogue
    <3> QED
      BY <2>1, <3>2, Zenon DEF Goes, Position
  <2> QED
    BY <2>2, <2>3
<1>7. ASSUME NEW n \in 0 .. 9, InBlock(R, i, n)', Typed
      PROVE  Goes(R)
  BY <1>7, Zenon DEF Goes, Position
<1>8. /\ Word \in Nat /\ Word \div 2 ^ 16 = access.bits /\ And(Word, HalfWord - 1) = access.device.type
      /\ access.bits \in Nat /\ access.device.type \in Nat /\ access.device.major \in Nat
      /\ access.device.minor \in Nat
      /\ And(access.bits, HalfWord - 1 - rule.access) \in Nat
  <2>1. access.bits \in 1 .. AllAccess /\ access.device.type \in {DEVCG_DEV_BLOCK, DEVCG_DEV_CHAR}
    BY <1>5, Context
  <2>2. And(access.bits, HalfWord - 1 - rule.access) \in Nat
    BY <1>1, <2>1, Words
  <2>3. access.bits \in Nat
    BY <2>1 DEF AllAccess, DEVCG_ACC_READ, DEVCG_ACC_WRITE, DEVCG_ACC_MKNOD
  <2> QED
    BY <1>5, <2>2, <2>3, Context
<1>9. ASSUME NEW v \in Nat, pc' = pc + 1, regs' = [regs EXCEPT ![6] = v]
      PROVE  Typed /\ Loaded' /\ NoneOf(R, i)' /\ regs'[6] = v /\ pc' = s + o + 1
  BY <1>2, <1>5, <1>9 DEF Loaded, NoneOf, Registers
<1>10. ASSUME regs' = regs
       PROVE  Typed /\ Loaded' /\ NoneOf(R, i)'
  BY <1>5, <1>10 DEF Loaded, NoneOf
<1> HIDE DEF next, allow, Typed
<1>11. CASE o = 0
  <2>1. Current = mov_reg(6, 2)
    BY <1>3, <1>11 DEF RuleBlock
  <2>3. pc' = pc + 1 /\ regs' = [regs EXCEPT ![6] = Word]
    BY <2>1, <1>5, MoveReg DEF Loaded
  <2>4. Typed /\ Loaded' /\ NoneOf(R, i)' /\ regs'[6] = Word /\ pc' = s + o + 1
    BY <1>8, <1>9, <2>3
  <2>5. InBlock(R, i, 1)'
    BY <1>2, <1>5, <1>11, <2>4 DEF InBlock
  <2> QED
    BY <1>7, <2>4, <2>5
<1>12. CASE o = 1
  <2>1. Current = rsh_imm(6, 16)
    BY <1>3, <1>12 DEF RuleBlock
  <2>2. regs[6] = Word
    BY <1>12 DEF InBlock
  <2>3. pc' = pc + 1 /\ regs' = [regs EXCEPT ![6] = access.bits]
    <3>1. pc' = pc + 1 /\ regs' = [regs EXCEPT ![6] = regs[6] \div 2 ^ 16]
      BY <2>1, <1>5, Shift
    <3> QED
      BY <3>1, <2>2, <1>8
  <2>4. Typed /\ Loaded' /\ NoneOf(R, i)' /\ regs'[6] = access.bits /\ pc' = s + o + 1
    BY <1>8, <1>9, <2>3
  <2>5. InBlock(R, i, 2)'
    BY <1>2, <1>5, <1>12, <2>4 DEF InBlock
  <2> QED
    BY <1>7, <2>4, <2>5
<1>13. CASE o = 2
  <2>1. Current = and_imm(6, HalfWord - 1 - rule.access)
    BY <1>3, <1>13 DEF RuleBlock
  <2>2. regs[6] = access.bits
    BY <1>13 DEF InBlock
  <2>3. pc' = pc + 1 /\ regs' = [regs EXCEPT ![6] = And(access.bits, HalfWord - 1 - rule.access)]
    <3>1. pc' = pc + 1 /\ regs' = [regs EXCEPT ![6] = And(regs[6], HalfWord - 1 - rule.access)]
      BY <2>1, <1>5, Mask
    <3> QED
      BY <3>1, <2>2, <1>8
  <2>4. Typed /\ Loaded' /\ NoneOf(R, i)' /\ regs'[6] = And(access.bits, HalfWord - 1 - rule.access) /\ pc' = s + o + 1
    BY <1>8, <1>9, <2>3
  <2>5. InBlock(R, i, 3)'
    BY <1>2, <1>5, <1>13, <2>4 DEF InBlock
  <2> QED
    BY <1>7, <2>4, <2>5
<1>14. CASE o = 4
  <2>1. Current = mov_reg(6, 2)
    BY <1>3, <1>14 DEF RuleBlock
  <2>3. pc' = pc + 1 /\ regs' = [regs EXCEPT ![6] = Word]
    BY <2>1, <1>5, MoveReg DEF Loaded
  <2>4. Typed /\ Loaded' /\ NoneOf(R, i)' /\ regs'[6] = Word /\ pc' = s + o + 1
    BY <1>8, <1>9, <2>3
  <2>5. InBlock(R, i, 5)'
    BY <1>2, <1>5, <1>14, <2>4 DEF InBlock, Within
  <2> QED
    BY <1>7, <2>4, <2>5
<1>15. CASE o = 5
  <2>1. Current = and_imm(6, HalfWord - 1)
    BY <1>3, <1>15 DEF RuleBlock
  <2>2. regs[6] = Word
    BY <1>15 DEF InBlock
  <2>3. pc' = pc + 1 /\ regs' = [regs EXCEPT ![6] = access.device.type]
    <3>1. pc' = pc + 1 /\ regs' = [regs EXCEPT ![6] = And(regs[6], HalfWord - 1)]
      BY <2>1, <1>5, Mask
    <3> QED
      BY <3>1, <2>2, <1>8
  <2>4. Typed /\ Loaded' /\ NoneOf(R, i)' /\ regs'[6] = access.device.type /\ pc' = s + o + 1
    BY <1>8, <1>9, <2>3
  <2>5. InBlock(R, i, 6)'
    BY <1>2, <1>5, <1>15, <2>4 DEF InBlock, Within
  <2> QED
    BY <1>7, <2>4, <2>5
<1>16. ASSUME NEW d, NEW imm, Current = jne(pc, d, next, imm), o < 9
       PROVE  regs' = regs /\ pc' = IF regs[d] # imm THEN next ELSE pc + 1
  <2>1. pc \in Nat /\ pc < next /\ next - pc <= 32768 /\ next \in Nat
    BY <1>2, <1>4, <1>16
  <2> QED
    BY <1>5, <1>16, <2>1, Test
<1>17. CASE o = 3
  <2>1. Current = jne(pc, 6, next, 0)
    BY <1>2, <1>3, <1>17 DEF RuleBlock
  <2>2. regs' = regs /\ pc' = IF regs[6] # 0 THEN next ELSE pc + 1
    BY <1>16, <1>17, <2>1
  <2>3. regs[6] = 0 <=> Within(rule, access)
    BY <1>17 DEF InBlock, Within
  <2>4. CASE ~Within(rule, access)
    BY <1>6, <2>2, <2>3, <2>4 DEF Matches
  <2>5. CASE Within(rule, access)
    <3>1. InBlock(R, i, 4)' /\ Typed
      BY <1>2, <1>5, <1>10, <1>17, <2>2, <2>3, <2>5 DEF InBlock
    <3> QED
      BY <1>7, <3>1
  <2> QED
    BY <2>4, <2>5
<1>18. CASE o = 6
  <2>1. Current = jne(pc, 6, next, rule.type)
    BY <1>2, <1>3, <1>18 DEF RuleBlock
  <2>2. regs' = regs /\ pc' = IF access.device.type # rule.type THEN next ELSE pc + 1
    BY <1>16, <1>18, <2>1 DEF InBlock
  <2>3. CASE access.device.type # rule.type
    BY <1>6, <2>2, <2>3 DEF Matches
  <2>4. CASE access.device.type = rule.type
    <3>1. InBlock(R, i, 7)' /\ Typed
      BY <1>2, <1>5, <1>10, <1>18, <2>2, <2>4 DEF InBlock, Within
    <3> QED
      BY <1>7, <3>1
  <2> QED
    BY <2>3, <2>4
<1>19. CASE o = 7
  <2>1. Current = jne(pc, 3, next, rule.major)
    BY <1>2, <1>3, <1>19 DEF RuleBlock
  <2>2. regs' = regs /\ pc' = IF access.device.major # rule.major THEN next ELSE pc + 1
    BY <1>5, <1>16, <1>19, <2>1 DEF Loaded
  <2>3. CASE access.device.major # rule.major
    BY <1>6, <2>2, <2>3 DEF Matches
  <2>4. CASE access.device.major = rule.major
    <3>1. InBlock(R, i, 8)' /\ Typed
      BY <1>2, <1>5, <1>10, <1>19, <2>2, <2>4 DEF InBlock, Within
    <3> QED
      BY <1>7, <3>1
  <2> QED
    BY <2>3, <2>4
<1>20. CASE o = 8
  <2>1. Current = jne(pc, 4, next, rule.minor)
    BY <1>2, <1>3, <1>20 DEF RuleBlock
  <2>2. regs' = regs /\ pc' = IF access.device.minor # rule.minor THEN next ELSE pc + 1
    BY <1>5, <1>16, <1>20, <2>1 DEF Loaded
  <2>3. CASE access.device.minor # rule.minor
    BY <1>6, <2>2, <2>3 DEF Matches
  <2>4. CASE access.device.minor = rule.minor
    <3>1. InBlock(R, i, 9)' /\ Typed
      BY <1>2, <1>5, <1>10, <1>20, <2>2, <2>4 DEF InBlock, Within
    <3> QED
      BY <1>7, <3>1
  <2> QED
    BY <2>3, <2>4
<1>21. CASE o = 9
  <2>1. Current = Insn("ja", 0, 0, jump_to(pc, allow), 0)
    BY <1>2, <1>3, <1>21 DEF RuleBlock
  <2>2. regs' = regs /\ pc' = allow
    BY <1>2, <1>4, <1>5, <1>21, <2>1, Jump
  <2>3. Matches(rule, access)
    BY <1>21 DEF InBlock, Matches
  <2>4. ~NoneOf(R, Len(R))'
    <3>1. i + 1 \in 1 .. Len(R)
      BY <1>2
    <3> QED
      BY <1>5, <2>3, <3>1 DEF NoneOf
  <2>5. InEpilogue(R)'
    BY <2>2, <2>4 DEF InEpilogue, allow
  <2>6. Typed
    BY <1>10, <2>2
  <2> QED
    BY <2>5, <2>6, Zenon DEF Goes, Position, Typed
<1> QED
  BY <1>11, <1>12, <1>13, <1>15, <1>14, <1>17, <1>18, <1>19, <1>20, <1>21

-----------------------------------------------------------------------------
(* The rules of a claim.                                                   *)

RuleOf(number, granted) ==
    [type |-> number.type, major |-> number.major, minor |-> number.minor, access |-> granted]

\* A set of naturals that is not empty has a least element.
LEMMA LeastExists ==
    ASSUME NEW S \in SUBSET Nat, S # {}
    PROVE  \E x \in S : \A y \in S : x <= y
<1> DEFINE Less == {p \in Nat \X Nat : p[1] < p[2]}
<1>1. IsWellFoundedOn(Less, Nat)
  BY NatLessThanWellFounded, Zenon DEF OpToRel
<1> HIDE DEF Less
<1>2. PICK x \in S : \A y \in S : <<y, x>> \notin Less
  BY <1>1, WFMin, Zenon
<1>3. ASSUME NEW y \in S PROVE x <= y
  <2>1. x \in Nat /\ y \in Nat /\ <<y, x>> \notin Less
    BY <1>2
  <2> QED
    BY <2>1 DEF Less
<1> QED
  BY <1>3

\* The elements of a finite set of naturals, counted in their order.
LEMMA Ranks ==
    ASSUME NEW n \in Nat, NEW S \in SUBSET (1 .. n)
    PROVE  /\ Cardinality(S) \in Nat /\ Cardinality(S) <= n
           /\ \A i \in S : Cardinality({j \in S : j <= i}) \in 1 .. Cardinality(S)
           /\ \A k \in 1 .. Cardinality(S) : \E i \in S : Cardinality({j \in S : j <= i}) = k
           /\ \A a, b \in S : Cardinality({j \in S : j <= a}) = Cardinality({j \in S : j <= b}) => a = b
<1> DEFINE upto(i) == {j \in S : j <= i}
           c == Cardinality(S)
<1>1. 1 \in Int /\ n \in Int /\ IsFiniteSet(1 .. n) /\ Cardinality(1 .. n) = n
  <2>1. 1 \in Int /\ n \in Int
    OBVIOUS
  <2>2. IsFiniteSet(1 .. n) /\ Cardinality(1 .. n) = IF 1 > n THEN 0 ELSE n - 1 + 1
    BY <2>1, FS_Interval, Zenon
  <2> QED
    BY <2>1, <2>2
<1>2. IsFiniteSet(S) /\ c \in Nat /\ c <= n
  <2>1. IsFiniteSet(S) /\ c <= Cardinality(1 .. n)
    BY <1>1, FS_Subset, Zenon
  <2> QED
    BY <2>1, <1>1, FS_CardinalityType
<1>3. ASSUME NEW i \in S
      PROVE  IsFiniteSet(upto(i)) /\ Cardinality(upto(i)) \in 1 .. c
  <2>1. upto(i) \in SUBSET S /\ i \in upto(i)
    OBVIOUS
  <2>2. IsFiniteSet(upto(i)) /\ Cardinality(upto(i)) <= c
    BY <1>2, <2>1, FS_Subset, Zenon
  <2>3. Cardinality(upto(i)) \in Nat /\ Cardinality(upto(i)) # 0
    BY <2>1, <2>2, FS_CardinalityType, FS_EmptySet, Zenon
  <2> QED
    BY <1>2, <2>2, <2>3
<1>4. ASSUME NEW a \in S, NEW b \in S, Cardinality(upto(a)) = Cardinality(upto(b)), a < b
      PROVE  FALSE
  <2>1. upto(a) \in SUBSET upto(b) /\ b \in upto(b) /\ b \notin upto(a)
    <3>1. a < b /\ \A j \in S : j \in Nat
      BY <1>4
    <3>2. \A j \in S : j <= a => j <= b
      BY <3>1
    <3>3. b <= b /\ ~(b <= a)
      BY <3>1
    <3> QED
      BY <3>2, <3>3, Zenon
  <2>2. upto(b) = upto(a)
    BY <1>3, <1>4, <2>1, FS_Subset, Zenon
  <2> QED
    BY <2>1, <2>2
<1>5. ASSUME NEW a \in S, NEW b \in S, Cardinality(upto(a)) = Cardinality(upto(b))
      PROVE  a = b
  <2>1. ~(a < b) /\ ~(b < a)
    BY <1>4, <1>5, Zenon
  <2>2. a \in Nat /\ b \in Nat
    OBVIOUS
  <2> QED
    BY <2>1, <2>2
<1> DEFINE f == [i \in S |-> Cardinality(upto(i))]
<1>6. f \in Injection(S, 1 .. c)
  <2>1. f \in [S -> 1 .. c]
    <3> HIDE DEF upto, c
    <3> QED
      BY <1>3
  <2>2. \A a, b \in S : f[a] = f[b] => a = b
    <3> HIDE DEF upto
    <3> QED
      BY <1>5
  <2>3. DOMAIN f = S
    OBVIOUS
  <2> HIDE DEF f
  <2> QED
    BY <2>1, <2>2, <2>3, Zenon DEF Injection, IsInjective
<1>7. IsFiniteSet(1 .. c) /\ Cardinality(1 .. c) = c
  <2>1. 1 \in Int /\ c \in Int
    BY <1>2
  <2>2. IsFiniteSet(1 .. c) /\ Cardinality(1 .. c) = IF 1 > c THEN 0 ELSE c - 1 + 1
    BY <2>1, FS_Interval, Zenon
  <2> QED
    BY <1>2, <2>1, <2>2
<1>8. f \in Surjection(S, 1 .. c)
  <2> HIDE DEF f
  <2> QED
    BY <1>6, <1>7, FS_Injection, Zenon
<1>9. \A k \in 1 .. c : \E i \in S : Cardinality(upto(i)) = k
  <2> HIDE DEF upto
  <2> QED
    BY <1>8, Zenon DEF Surjection
<1> QED
  BY <1>2, <1>3, <1>5, <1>9, Zenon

\* Rules: every device number of the paths that is not known yet has a rule,
\* and nothing else has one.
LEMMA RulesCover ==
    ASSUME NEW paths \in Seq(DOMAIN Numbers), NEW known,
           NEW granted \in Grants
    PROVE  /\ Rules(paths, granted, known) \in Seq(RuleSet)
           /\ Len(Rules(paths, granted, known)) <= Len(paths)
           /\ \A k \in 1 .. Len(Rules(paths, granted, known)) :
                 \E number \in PathNumbers(paths) \ (known \cup {None}) :
                    Rules(paths, granted, known)[k] = RuleOf(number, granted)
           /\ \A number \in PathNumbers(paths) \ (known \cup {None}) :
                 \E k \in 1 .. Len(Rules(paths, granted, known)) :
                    Rules(paths, granted, known)[k] = RuleOf(number, granted)
<1> DEFINE kept == {i \in DOMAIN paths : /\ Numbers[paths[i]] \notin known \cup {None}
                                        /\ \A j \in 1 .. i - 1 : Numbers[paths[j]] # Numbers[paths[i]]}
           place(i) == Cardinality({j \in kept : j <= i})
           at(k) == CHOOSE i \in kept : place(i) = k
           c == Cardinality(kept)
           R == Rules(paths, granted, known)
<1>1. R = [k \in 1 .. c |-> RuleOf(Numbers[paths[at(k)]], granted)]
  BY DEF Rules, RuleOf
<1>2. Len(paths) \in Nat /\ DOMAIN paths = 1 .. Len(paths) /\ kept \in SUBSET (1 .. Len(paths))
  OBVIOUS
<1>3. ASSUME NEW i \in kept
      PROVE  /\ Numbers[paths[i]] \in PathNumbers(paths) \ (known \cup {None})
             /\ RuleOf(Numbers[paths[i]], granted) \in RuleSet
  <2>1. i \in DOMAIN paths /\ Numbers[paths[i]] \notin known \cup {None}
    OBVIOUS
  <2>2. Numbers[paths[i]] \in DeviceNumbers
    <3>1. paths[i] \in DOMAIN Numbers
      BY <2>1
    <3> QED
      BY <2>1, <3>1, FilterAssumption
  <2>3. Numbers[paths[i]] \in PathNumbers(paths)
    BY <2>1 DEF PathNumbers
  <2> QED
    BY <2>1, <2>2, <2>3 DEF DeviceNumbers, RuleSet, RuleOf
<1>4. ASSUME NEW number \in PathNumbers(paths) \ (known \cup {None})
      PROVE  \E i \in kept : Numbers[paths[i]] = number
  <2> DEFINE at_number == {i \in DOMAIN paths : Numbers[paths[i]] = number}
  <2>1. at_number \in SUBSET Nat /\ at_number # {}
    BY <1>2 DEF PathNumbers
  <2>2. PICK i \in at_number : \A j \in at_number : i <= j
    BY <2>1, LeastExists, Zenon
  <2>3. \A j \in 1 .. i - 1 : Numbers[paths[j]] # number
    BY <1>2, <2>2
  <2> QED
    BY <2>2, <2>3
<1> HIDE DEF kept
<1>5. /\ c \in Nat /\ c <= Len(paths)
      /\ \A i \in kept : place(i) \in 1 .. c
      /\ \A k \in 1 .. c : \E i \in kept : place(i) = k
      /\ \A a, b \in kept : place(a) = place(b) => a = b
  BY <1>2, Ranks, Zenon
<1> HIDE DEF c, place
<1>6. \A k \in 1 .. c : at(k) \in kept /\ place(at(k)) = k
  BY <1>5, Zenon
<1>7. \A i \in kept : place(i) \in 1 .. c /\ at(place(i)) = i
  BY <1>5, <1>6, Zenon
<1> HIDE DEF at, R
<1>8. /\ DOMAIN R = 1 .. c
      /\ \A k \in 1 .. c : R[k] = RuleOf(Numbers[paths[at(k)]], granted)
  BY <1>1
<1>9. R \in [1 .. c -> RuleSet]
  <2>1. \A k \in 1 .. c : R[k] \in RuleSet
    BY <1>3, <1>6, <1>8, Zenon
  <2> QED
    BY <1>1, <2>1
<1>10. R \in Seq(RuleSet) /\ Len(R) = c
  BY <1>5, <1>9, SegmentIsSeq
<1>11. \A k \in 1 .. c : \E number \in PathNumbers(paths) \ (known \cup {None}) :
                            R[k] = RuleOf(number, granted)
  BY <1>3, <1>6, <1>8, Zenon
<1>12. \A number \in PathNumbers(paths) \ (known \cup {None}) :
          \E k \in 1 .. c : R[k] = RuleOf(number, granted)
  <2> SUFFICES ASSUME NEW number \in PathNumbers(paths) \ (known \cup {None})
               PROVE  \E k \in 1 .. c : R[k] = RuleOf(number, granted)
    OBVIOUS
  <2>1. PICK i \in kept : Numbers[paths[i]] = number
    BY <1>4
  <2>2. place(i) \in 1 .. c /\ at(place(i)) = i
    BY <1>7
  <2>3. R[place(i)] = RuleOf(number, granted)
    BY <1>8, <2>1, <2>2
  <2> QED
    BY <2>2, <2>3
<1> QED
  BY <1>5, <1>10, <1>11, <1>12, Zenon DEF R

\* What a rule matches.
LEMMA RuleMatches ==
    ASSUME NEW number \in DeviceNumbers, NEW a \in Access,
           NEW granted \in Grants
    PROVE  Matches(RuleOf(number, granted), a)
              <=> /\ a.device = number
                  /\ granted = AllAccess \/ And(a.bits, DEVCG_ACC_MKNOD) = 0
<1>1. a.bits \in 1 .. AllAccess /\ a.device \in DeviceNumbers
  BY DEF Access
<1>2. a.device = number
         <=> a.device.type = number.type /\ a.device.major = number.major /\ a.device.minor = number.minor
  BY <1>1 DEF DeviceNumbers
<1>3. And(a.bits, HalfWord - 1 - granted) = 0 <=> granted = AllAccess \/ And(a.bits, DEVCG_ACC_MKNOD) = 0
  BY <1>1, Words
<1> QED
  BY <1>2, <1>3 DEF Matches, Within, RuleOf

\* A rule of a claim's program matches an access exactly when the claim grants
\* the access.
LEMMA RulesGrant ==
    ASSUME NEW paths \in MemberClaims, NEW a \in Access
    PROVE  LET R == DeviceRules(paths)
           IN  /\ R \in Seq(RuleSet) /\ Len(R) <= MaxRules
               /\ (\E k \in 1 .. Len(R) : Matches(R[k], a))
                     <=> IF a.device \in PathNumbers(PseudoPaths)
                         THEN And(a.bits, DEVCG_ACC_MKNOD) = 0
                         ELSE a.device \in PathNumbers(paths)
<1> DEFINE some == DEVCG_ACC_READ + DEVCG_ACC_WRITE
           known == PathNumbers(PseudoPaths)
           none == {}
           P == Rules(PseudoPaths, some, none)
           Q == Rules(paths, AllAccess, known)
           R == DeviceRules(paths)
<1>1. /\ PseudoPaths \in Seq(DOMAIN Numbers) /\ paths \in Seq(DOMAIN Numbers)
      /\ Len(PseudoPaths) + Len(paths) <= MaxRules
      /\ Len(PseudoPaths) \in Nat /\ Len(paths) \in Nat
  BY FilterAssumption
<1>2. R = P \o Q
  BY DEF DeviceRules
<1>3. /\ P \in Seq(RuleSet) /\ Len(P) <= Len(PseudoPaths)
      /\ \A k \in 1 .. Len(P) : \E number \in known \ (none \cup {None}) : P[k] = RuleOf(number, some)
      /\ \A number \in known \ (none \cup {None}) : \E k \in 1 .. Len(P) : P[k] = RuleOf(number, some)
  <2>1. some \in Grants
    BY DEF Grants
  <2>2. PseudoPaths \in Seq(DOMAIN Numbers) /\ paths \in Seq(DOMAIN Numbers)
    BY <1>1
  <2> HIDE DEF some, none
  <2> QED
    BY <2>1, <2>2, RulesCover
<1>4. /\ Q \in Seq(RuleSet) /\ Len(Q) <= Len(paths)
      /\ \A k \in 1 .. Len(Q) : \E number \in PathNumbers(paths) \ (known \cup {None}) :
                                   Q[k] = RuleOf(number, AllAccess)
      /\ \A number \in PathNumbers(paths) \ (known \cup {None}) :
            \E k \in 1 .. Len(Q) : Q[k] = RuleOf(number, AllAccess)
  <2>1. AllAccess \in Grants
    BY DEF Grants
  <2>2. PseudoPaths \in Seq(DOMAIN Numbers) /\ paths \in Seq(DOMAIN Numbers)
    BY <1>1
  <2> HIDE DEF some, none
  <2> QED
    BY <2>1, <2>2, RulesCover
<1>5. \A number \in (known \cup PathNumbers(paths)) \ {None} : number \in DeviceNumbers
  <2>1. ASSUME NEW ps \in Seq(DOMAIN Numbers), NEW number \in PathNumbers(ps) \ {None}
        PROVE  number \in DeviceNumbers
    <3>1. PICK i \in DOMAIN ps : number = Numbers[ps[i]]
      BY <2>1 DEF PathNumbers
    <3>2. ps[i] \in DOMAIN Numbers
      OBVIOUS
    <3> QED
      BY <2>1, <3>1, <3>2, FilterAssumption
  <2> QED
    BY <1>1, <2>1, Zenon
<1>6. a.device \in DeviceNumbers /\ a.device # None
  BY FilterAssumption DEF Access
<1>7. some # AllAccess
  BY DEF AllAccess, DEVCG_ACC_READ, DEVCG_ACC_WRITE, DEVCG_ACC_MKNOD
<1> HIDE DEF P, Q, R, known, some
<1>8. /\ R \in Seq(RuleSet) /\ Len(R) = Len(P) + Len(Q) /\ Len(P) \in Nat /\ Len(Q) \in Nat
      /\ \A k \in 1 .. Len(P) : R[k] = P[k]
      /\ \A k \in 1 .. Len(Q) : R[Len(P) + k] = Q[k]
  <2>1. P \in Seq(RuleSet) /\ Q \in Seq(RuleSet)
    BY <1>3, <1>4
  <2> QED
    BY <1>2, <2>1
<1>9. Len(R) <= MaxRules
  BY <1>1, <1>3, <1>4, <1>8 DEF MaxRules
<1>10. (\E k \in 1 .. Len(R) : Matches(R[k], a))
          <=> (\E k \in 1 .. Len(P) : Matches(P[k], a)) \/ (\E k \in 1 .. Len(Q) : Matches(Q[k], a))
  <2>1. ASSUME NEW k \in 1 .. Len(R), Matches(R[k], a)
        PROVE  (\E j \in 1 .. Len(P) : Matches(P[j], a)) \/ (\E j \in 1 .. Len(Q) : Matches(Q[j], a))
    <3>1. CASE k <= Len(P)
      <4>1. k \in 1 .. Len(P)
        BY <1>8, <3>1
      <4> QED
        BY <1>8, <2>1, <4>1, Zenon
    <3>2. CASE ~(k <= Len(P))
      <4>1. k - Len(P) \in 1 .. Len(Q) /\ Len(P) + (k - Len(P)) = k
        BY <1>8, <3>2
      <4>2. R[k] = Q[k - Len(P)]
        BY <1>8, <4>1
      <4> QED
        BY <2>1, <4>1, <4>2, Zenon
    <3> QED
      BY <3>1, <3>2
  <2>2. ASSUME NEW k \in 1 .. Len(P), Matches(P[k], a)
        PROVE  \E j \in 1 .. Len(R) : Matches(R[j], a)
    <3>1. k \in 1 .. Len(R) /\ R[k] = P[k]
      BY <1>8
    <3> QED
      BY <2>2, <3>1, Zenon
  <2>3. ASSUME NEW k \in 1 .. Len(Q), Matches(Q[k], a)
        PROVE  \E j \in 1 .. Len(R) : Matches(R[j], a)
    <3>1. Len(P) + k \in 1 .. Len(R) /\ R[Len(P) + k] = Q[k]
      BY <1>8
    <3> QED
      BY <2>3, <3>1, Zenon
  <2> QED
    BY <2>1, <2>2, <2>3, Zenon
<1>11. ASSUME NEW number \in DeviceNumbers
       PROVE  /\ Matches(RuleOf(number, some), a)
                    <=> a.device = number /\ And(a.bits, DEVCG_ACC_MKNOD) = 0
              /\ Matches(RuleOf(number, AllAccess), a) <=> a.device = number
  BY <1>7, RuleMatches DEF some, Grants
<1>12. (\E k \in 1 .. Len(P) : Matches(P[k], a))
          <=> a.device \in known /\ And(a.bits, DEVCG_ACC_MKNOD) = 0
  <2>1. ASSUME NEW k \in 1 .. Len(P), Matches(P[k], a)
        PROVE  a.device \in known /\ And(a.bits, DEVCG_ACC_MKNOD) = 0
    <3>1. PICK number \in known \ (none \cup {None}) : P[k] = RuleOf(number, some)
      BY <1>3
    <3>2. number \in known /\ number \in DeviceNumbers
      BY <1>5
    <3> QED
      BY <1>11, <2>1, <3>1, <3>2
  <2>2. ASSUME a.device \in known, And(a.bits, DEVCG_ACC_MKNOD) = 0
        PROVE  \E k \in 1 .. Len(P) : Matches(P[k], a)
    <3>1. PICK k \in 1 .. Len(P) : P[k] = RuleOf(a.device, some)
      BY <1>3, <1>6, <2>2
    <3>2. Matches(P[k], a)
      BY <1>6, <1>11, <2>2, <3>1
    <3> QED
      BY <3>2
  <2> QED
    BY <2>1, <2>2, Zenon
<1>13. (\E k \in 1 .. Len(Q) : Matches(Q[k], a)) <=> a.device \in PathNumbers(paths) \ known
  <2>1. ASSUME NEW k \in 1 .. Len(Q), Matches(Q[k], a)
        PROVE  a.device \in PathNumbers(paths) \ known
    <3>1. PICK number \in PathNumbers(paths) \ (known \cup {None}) : Q[k] = RuleOf(number, AllAccess)
      BY <1>4
    <3>2. number \in DeviceNumbers
      BY <1>5
    <3>3. a.device = number
      BY <1>11, <2>1, <3>1, <3>2
    <3> QED
      BY <3>3
  <2>2. ASSUME a.device \in PathNumbers(paths) \ known
        PROVE  \E k \in 1 .. Len(Q) : Matches(Q[k], a)
    <3>1. PICK k \in 1 .. Len(Q) : Q[k] = RuleOf(a.device, AllAccess)
      BY <1>4, <1>6, <2>2
    <3>2. Matches(Q[k], a)
      BY <1>6, <1>11, <2>2, <3>1
    <3> QED
      BY <3>2
  <2> QED
    BY <2>1, <2>2, Zenon
<1>14. (\E k \in 1 .. Len(R) : Matches(R[k], a))
          <=> IF a.device \in known THEN And(a.bits, DEVCG_ACC_MKNOD) = 0
              ELSE a.device \in PathNumbers(paths)
  BY <1>10, <1>12, <1>13
<1> QED
  BY <1>8, <1>9, <1>14, Zenon DEF R, known

-----------------------------------------------------------------------------
(* The theorem.                                                            *)

\* What FilterDecides asks of a position in the program.
Answers(R) ==
    /\ pc + 1 \in DOMAIN program
    /\ Current.code \in {"and", "rsh", "jne"} => regs[Current.dst] # None
    /\ Current.code = "mov_reg" => regs[Current.src] # None
    /\ Current.code = "exit" => regs[0] = IF NoneOf(R, Len(R)) THEN 0 ELSE 1

\* Without rules.
LEMMA EmptyAnswers ==
    ASSUME program = compile(<<>>), pc = 0 \/ (pc = 1 /\ regs[0] = 0)
    PROVE  Answers(<<>>)
<1>1. program = <<mov_imm(0, 0), exit>>
  BY DEF compile
<1>2. NoneOf(<<>>, Len(<<>>))
  BY DEF NoneOf
<1>3. CASE pc = 0
  <2>1. Current = mov_imm(0, 0) /\ pc + 1 \in DOMAIN program
    BY <1>1, <1>3 DEF Current
  <2> QED
    BY <2>1 DEF Answers, mov_imm, Insn
<1>4. CASE pc = 1 /\ regs[0] = 0
  <2>1. Current = exit /\ pc + 1 \in DOMAIN program
    BY <1>1, <1>4 DEF Current
  <2> QED
    BY <2>1, <1>2, <1>4 DEF Answers, exit, Insn
<1> QED
  BY <1>3, <1>4

\* In the prologue and the epilogue.
LEMMA EndsAnswer ==
    ASSUME NEW R \in Seq(RuleSet), R # <<>>, program = compile(R), InPrologue \/ InEpilogue(R)
    PROVE  Answers(R)
<1> DEFINE allow == 3 + Len(R) * 10
<1>1. allow \in Nat /\ allow > 12
  OBVIOUS
<1>2. DOMAIN program = 1 .. allow + 4
  BY Layout
<1>3. CASE InPrologue
  <2>1. pc \in {0, 1, 2} /\ pc + 1 \in DOMAIN program
    BY <1>1, <1>2, <1>3 DEF InPrologue
  <2>2. Current.code = "load"
    BY <2>1, Layout DEF Current, load_ctx_word, Insn
  <2> QED
    BY <2>1, <2>2 DEF Answers
<1>4. CASE InEpilogue(R)
  <2>1. pc \in {allow, allow + 1, allow + 2, allow + 3}
    BY <1>4 DEF InEpilogue
  <2>2. pc + 1 \in DOMAIN program
    BY <1>1, <1>2, <2>1
  <2>3. CASE pc \in {allow, allow + 2}
    <3>1. Current = mov_imm(0, 1) \/ Current = mov_imm(0, 0)
      BY <1>1, <2>3, Layout DEF Current
    <3>2. Current.code = "mov_imm"
      BY <3>1 DEF mov_imm, Insn
    <3> QED
      BY <2>2, <3>2 DEF Answers
  <2>4. CASE pc \in {allow + 1, allow + 3}
    <3>1. Current = exit
      BY <1>1, <2>4, Layout DEF Current
    <3>2. Current.code = "exit"
      BY <3>1 DEF exit, Insn
    <3>3. regs[0] = IF NoneOf(R, Len(R)) THEN 0 ELSE 1
      BY <1>1, <1>4, <2>4 DEF InEpilogue
    <3> QED
      BY <2>2, <3>2, <3>3 DEF Answers
  <2> QED
    BY <2>1, <2>3, <2>4
<1> QED
  BY <1>3, <1>4

\* In the block of a rule.
LEMMA BlockAnswers ==
    ASSUME NEW R \in Seq(RuleSet), R # <<>>, program = compile(R), access \in Access,
           NEW i \in 0 .. Len(R) - 1, NEW o \in 0 .. 9, InBlock(R, i, o)
    PROVE  Answers(R)
<1> DEFINE rule == R[i + 1]
           s == 3 + i * 10
           allow == 3 + Len(R) * 10
           next == IF i + 1 < Len(R) THEN 3 + i * 10 + 10 ELSE allow + 2
<1>1. i \in Nat /\ s \in Nat /\ pc = s + o /\ Len(R) \in Nat
  BY DEF InBlock
<1>2. Current = RuleBlock(rule, s, next, allow)[o + 1] /\ DOMAIN program = 1 .. allow + 4
  BY <1>1, Layout DEF Current
<1>3. pc + 1 \in DOMAIN program
  BY <1>1, <1>2
<1>4. /\ access.bits \in Nat /\ access.device.type \in Nat /\ Word \in Nat
      /\ access.device.major \in Nat /\ access.device.minor \in Nat
      /\ And(access.bits, HalfWord - 1 - rule.access) \in Nat /\ None \notin Nat
  <2>1. access.bits \in 1 .. AllAccess /\ access.device.type \in {DEVCG_DEV_BLOCK, DEVCG_DEV_CHAR}
    BY Context
  <2>2. rule.access \in Grants
    <3>1. rule \in RuleSet
      OBVIOUS
    <3> QED
      BY <3>1 DEF RuleSet
  <2>3. access.bits \in Nat
    BY <2>1 DEF AllAccess, DEVCG_ACC_READ, DEVCG_ACC_WRITE, DEVCG_ACC_MKNOD
  <2> QED
    BY <2>1, <2>2, <2>3, Context, Words, FilterAssumption
<1>5. /\ regs[2] # None /\ regs[3] # None /\ regs[4] # None
      /\ o \in {1, 2, 3, 5, 6} => regs[6] # None
  BY <1>4 DEF InBlock, Loaded
<1> HIDE DEF next, allow
<1>6. CASE o \in {0, 4}
  <2>1. Current.code = "mov_reg" /\ Current.src = 2
    <3>1. CASE o = 0
      BY <1>2, <3>1 DEF RuleBlock, mov_reg, Insn
    <3>2. CASE o = 4
      BY <1>2, <3>2 DEF RuleBlock, mov_reg, Insn
    <3> QED
      BY <1>6, <3>1, <3>2
  <2> QED
    BY <1>3, <1>5, <2>1 DEF Answers
<1>7. CASE o \in {1, 2, 3, 5, 6}
  <2>1. Current.code \in {"and", "rsh", "jne"} /\ Current.dst = 6
    <3>1. CASE o = 1
      BY <1>2, <3>1 DEF RuleBlock, rsh_imm, Insn
    <3>2. CASE o = 2
      BY <1>2, <3>2 DEF RuleBlock, and_imm, Insn
    <3>3. CASE o = 3
      BY <1>2, <3>3 DEF RuleBlock, jne, Insn
    <3>4. CASE o = 5
      BY <1>2, <3>4 DEF RuleBlock, and_imm, Insn
    <3>5. CASE o = 6
      BY <1>2, <3>5 DEF RuleBlock, jne, Insn
    <3> QED
      BY <1>7, <3>1, <3>2, <3>3, <3>4, <3>5
  <2> QED
    BY <1>3, <1>5, <1>7, <2>1 DEF Answers
<1>8. CASE o \in {7, 8}
  <2>1. Current.code = "jne" /\ Current.dst \in {3, 4}
    <3>1. CASE o = 7
      BY <1>2, <3>1 DEF RuleBlock, jne, Insn
    <3>2. CASE o = 8
      BY <1>2, <3>2 DEF RuleBlock, jne, Insn
    <3> QED
      BY <1>8, <3>1, <3>2
  <2> QED
    BY <1>3, <1>5, <2>1 DEF Answers
<1>9. CASE o = 9
  <2>1. Current.code = "ja"
    BY <1>2, <1>9 DEF RuleBlock, Insn
  <2> QED
    BY <1>3, <2>1 DEF Answers
<1> QED
  BY <1>6, <1>7, <1>8, <1>9

\* The invariant says what FilterDecides says.
LEMMA InvDecides ==
    ASSUME FilterInv
    PROVE  FilterDecides
<1> SUFFICES ASSUME Running
             PROVE  /\ pc + 1 \in DOMAIN program
                    /\ Current.code \in {"and", "rsh", "jne"} => regs[Current.dst] # None
                    /\ Current.code = "mov_reg" => regs[Current.src] # None
                    /\ Exiting /\ claim # <<>> => regs[0] = IF Granted(access) THEN 1 ELSE 0
  BY Zenon DEF FilterDecides
<1>0. PICK paths \in MemberClaims : Filters(paths)
  BY Zenon DEF FilterInv, Running
<1>1. PICK R : R = DeviceRules(paths)
  OBVIOUS
<1>2. /\ access \in Access /\ program = compile(R) /\ Position(R)
      /\ claim # <<>> => paths = claim
  BY <1>0, <1>1, Zenon DEF FilterInv, Filters, Running
<1>3. /\ R \in Seq(RuleSet)
      /\ claim # <<>> => ((\E k \in 1 .. Len(R) : Matches(R[k], access)) <=> Granted(access))
  BY <1>0, <1>1, <1>2, RulesGrant, Zenon DEF Granted
<1>4. claim # <<>> => (NoneOf(R, Len(R)) <=> ~Granted(access))
  BY <1>3, Zenon DEF NoneOf
<1>5. Answers(R)
  <2>1. CASE R = <<>>
    BY <1>2, <2>1, EmptyAnswers DEF Position
  <2>2. CASE R # <<>>
    BY <1>2, <1>3, <2>2, EndsAnswer, BlockAnswers, Zenon DEF Position
  <2> QED
    BY <2>1, <2>2
<1> QED
  BY <1>4, <1>5, Zenon DEF Answers, Exiting

\* Every step preserves the invariant.
LEMMA FilterNextInv ==
    ASSUME FilterInv, [FilterNext]_filter_vars
    PROVE  FilterInv'
<1>1. CASE UNCHANGED filter_vars
  <2>1. UNCHANGED <<program, claim, access, pc, regs>>
    BY <1>1 DEF filter_vars
  <2> QED
    BY <2>1 DEF FilterInv, Filters, Position, InPrologue, InEpilogue, InBlock, Loaded, NoneOf, Word
<1>2. ASSUME NEW paths \in MemberClaims, Activate(paths)
      PROVE  FilterInv'
  <2>1. claim' = paths /\ access' = None /\ regs' = regs /\ program' = Attached(paths)
    BY <1>2, Zenon DEF Activate, FilterInv
  <2>2. CASE paths = <<>>
    <3>1. program' = program
      BY <2>1, <2>2, Zenon DEF Attached
    <3> QED
      BY <2>1, <2>2, <3>1, Zenon DEF FilterInv, Filters
  <2>3. CASE paths # <<>>
    <3>1. program' = compile(DeviceRules(paths))
      BY <2>1, <2>3, Zenon DEF Attached
    <3>2. Filters(paths)'
      BY <2>1, <3>1, Zenon DEF Filters
    <3> QED
      BY <1>2, <2>1, <3>2, Zenon DEF FilterInv, Activate
  <2> QED
    BY <2>2, <2>3
<1>3. CASE Terminate
  BY <1>3, Zenon DEF Terminate, Destroy, FilterInv, Filters
<1>4. ASSUME NEW a \in Access, Open(a)
      PROVE  FilterInv'
  <2>1. /\ access' = a /\ pc' = 0 /\ regs' = Unwritten /\ program' = program /\ claim' = claim
        /\ program # None /\ claim # None
    BY <1>4 DEF Open
  <2>2. \A paths : Position(DeviceRules(paths))'
    BY <2>1, Zenon DEF Position, InPrologue
  <2>3. regs' \in [Registers -> Nat \cup {None}]
    BY <2>1 DEF Unwritten
  <2> QED
    BY <2>1, <2>2, <2>3, Zenon DEF FilterInv, Filters
<1>5. CASE Step
  <2>1. /\ Running /\ ~Exiting /\ Execute /\ access' = access /\ program' = program /\ claim' = claim
    BY <1>5 DEF Step
  <2>0. PICK paths \in MemberClaims : Filters(paths)
    BY <2>1, Zenon DEF FilterInv, Running
  <2>2. PICK R : R = DeviceRules(paths)
    OBVIOUS
  <2>3. /\ access \in Access /\ program = compile(R) /\ Position(R)
        /\ regs \in [Registers -> Nat \cup {None}]
    BY <2>0, <2>1, <2>2, Zenon DEF FilterInv, Filters, Running
  <2>4. R \in Seq(RuleSet) /\ Len(R) <= MaxRules
    BY <2>2, <2>3, RulesGrant, Zenon
  <2>5. Ready(R)
    BY <2>1, <2>3, Zenon DEF Ready
  <2>6. Goes(R)
    <3>1. CASE R = <<>>
      <4>1. CASE pc = 0
        BY <2>5, <3>1, <4>1, EmptyStep
      <4>2. CASE pc = 1
        <5>1. Current = exit
          BY <2>3, <3>1, <4>2 DEF compile, Current
        <5> QED
          BY <2>1, <5>1 DEF Exiting, exit, Insn
      <4> QED
        BY <2>3, <3>1, <4>1, <4>2 DEF Position
    <3>2. CASE R # <<>>
      BY <2>1, <2>3, <2>4, <2>5, <3>2, PrologueStep, EpilogueStep, BlockStep, Zenon DEF Position
    <3> QED
      BY <3>1, <3>2
  <2>7. Position(DeviceRules(paths))'
    BY <2>1, <2>2, <2>6 DEF Goes
  <2>8. Filters(paths)'
    BY <2>0, <2>1, <2>7, Zenon DEF Filters
  <2> QED
    BY <2>1, <2>6, <2>8, Zenon DEF FilterInv, Goes
<1>6. CASE Decide
  <2>1. regs' \in [Registers -> Nat \cup {None}] /\ access' = None /\ program' = program /\ claim' = claim
    BY <1>6 DEF Decide, Unwritten
  <2> QED
    BY <2>1, Zenon DEF FilterInv, Filters
<1>7. ASSUME NEW paths \in MemberClaims, RefuseActivation(paths)
      PROVE  FilterInv'
  <2>1. /\ claim = None /\ claim' = None /\ access' = None /\ regs' = regs
        /\ program' \in {None, program, compile(DeviceRules(paths))}
    BY <1>7, Zenon DEF RefuseActivation, Destroy, Attached, FilterInv
  <2> QED
    BY <2>1, Zenon DEF FilterInv, Filters
<1> QED
  BY <1>1, <1>2, <1>3, <1>4, <1>5, <1>6, <1>7, Zenon DEF FilterNext

\* For every set of claims with at most MaxRules paths, the filter of a running
\* member that claims devices lets an access through exactly when the claims
\* grant it, whatever filter its cgroup had before, and the
\* program stays inside itself and reads no register before it is written
\* (compile, enforce_devices).
THEOREM FilterIsExact == FilterSpec => []FilterDecides
<1>1. FilterInit => FilterInv
  BY DEF FilterInit, FilterInv, Unwritten
<1>2. FilterInv /\ [FilterNext]_filter_vars => FilterInv'
  BY FilterNextInv
<1>3. FilterInv => FilterDecides
  BY InvDecides
<1> QED
  BY <1>1, <1>2, <1>3, PTL DEF FilterSpec

=============================================================================
