--------------------------- MODULE DeviceFilter ---------------------------
(***************************************************************************)
(* The device filter of a member that runs as a process: the program that  *)
(* the agent compiles from the member's device claims and attaches to its  *)
(* cgroup before it spawns the process (device_filter.rs, runtime.rs), and *)
(* the kernel running that program on each access to a device.             *)
(*                                                                         *)
(* Addresses count from 0 as in the code: the instruction at address pc is *)
(* program[pc + 1].  The kernel's word access_type holds the requested     *)
(* access bits in its upper half and the device type in its lower half.    *)
(***************************************************************************)
EXTENDS Integers, Sequences, FiniteSets

CONSTANTS
    Number,         \* the major and minor numbers that occur
    Numbers,        \* path -> [type, major, minor], None if no device is there
    PseudoPaths,    \* the standard pseudo-devices, in the code's order
    MemberClaims,   \* what members may claim: the paths of the devices in order,
                    \* of each its own node and the provider's support paths
    None

VARIABLES
    program,        \* the program attached to the member's cgroup; None: none is
    claim,          \* the paths claimed by the running member; None: none runs
    access,         \* the access that the kernel is deciding, or None
    pc,             \* the next instruction
    regs            \* register -> word, None before it is written

filter_vars == <<program, claim, access, pc, regs>>

DEVCG_ACC_MKNOD == 1
DEVCG_ACC_READ  == 2
DEVCG_ACC_WRITE == 4
DEVCG_DEV_BLOCK == 1
DEVCG_DEV_CHAR  == 2
HalfWord == 2 ^ 16

AllAccess == DEVCG_ACC_READ + DEVCG_ACC_WRITE + DEVCG_ACC_MKNOD

DeviceNumbers ==
    [type : {DEVCG_DEV_BLOCK, DEVCG_DEV_CHAR}, major : Number, minor : Number]

PathNumbers(paths) == {Numbers[paths[i]] : i \in DOMAIN paths}

\* More rules than MaxRules would take a jump beyond its 16-bit offset.
MaxRules == 3277

ASSUME FilterAssumption ==
    /\ Number \subseteq Nat /\ None \notin Nat /\ None \notin DeviceNumbers
    /\ \A p \in DOMAIN Numbers : Numbers[p] \in DeviceNumbers \cup {None}
    /\ PseudoPaths \in Seq(DOMAIN Numbers)
    /\ MemberClaims \subseteq Seq(DOMAIN Numbers) /\ None \notin MemberClaims
    /\ \A paths \in MemberClaims : Len(PseudoPaths) + Len(paths) <= MaxRules

\* Bitwise and, of words whose upper halves have no bit in common.
Bit(word, power) == (word \div power) % 2

And(v, w) ==
    LET both(power) == IF Bit(v, power) = 1 /\ Bit(w, power) = 1 THEN power ELSE 0
    IN  both(1) + both(2) + both(4) + both(8) + both(16) + both(32) + both(64) + both(128)
        + both(256) + both(512) + both(1024) + both(2048) + both(4096) + both(8192)
        + both(16384) + both(32768)

---------------------------------------------------------------------------
(***************************************************************************)
(* The compiler.                                                           *)
(***************************************************************************)

Insn(code, dst, src, off, imm) ==
    [code |-> code, dst |-> dst, src |-> src, off |-> off, imm |-> imm]

mov_imm(dst, imm) == Insn("mov_imm", dst, 0, 0, imm)

mov_reg(dst, src) == Insn("mov_reg", dst, src, 0, 0)

and_imm(dst, imm) == Insn("and", dst, 0, 0, imm)

rsh_imm(dst, imm) == Insn("rsh", dst, 0, 0, imm)

load_ctx_word(dst, byte) == Insn("load", dst, 1, byte, 0)

exit == Insn("exit", 0, 0, 0, 0)

\* Offsets are relative to the instruction after the jump, and an i16.
jump_to(from, target) == ((target - from - 1 + HalfWord \div 2) % HalfWord) - HalfWord \div 2

jne(from, dst, target, imm) == Insn("jne", dst, 0, jump_to(from, target), imm)

\* The ten instructions of one rule that starts at address s.  The complement
\* of the grant is taken in the half word that the shift leaves.
RuleBlock(rule, s, next_rule, allow) ==
    << mov_reg(6, 2),
       rsh_imm(6, 16),
       and_imm(6, HalfWord - 1 - rule.access),
       jne(s + 3, 6, next_rule, 0),
       mov_reg(6, 2),
       and_imm(6, HalfWord - 1),
       jne(s + 6, 6, next_rule, rule.type),
       jne(s + 7, 3, next_rule, rule.major),
       jne(s + 8, 4, next_rule, rule.minor),
       Insn("ja", 0, 0, jump_to(s + 9, allow), 0) >>

prologue == <<load_ctx_word(2, 0), load_ctx_word(3, 4), load_ctx_word(4, 8)>>

epilogue == <<mov_imm(0, 1), exit, mov_imm(0, 0), exit>>

\* Mutant: the last rule, too, falls through to what follows its block.
compile_falls_through(rules) ==
    LET allow == Len(prologue) + Len(rules) * 10
        block(i) == RuleBlock(rules[i + 1], Len(prologue) + i * 10,
                              Len(prologue) + i * 10 + 10, allow)
    IN  prologue \o [k \in 1 .. Len(rules) * 10 |-> block((k - 1) \div 10)[((k - 1) % 10) + 1]]
        \o epilogue

\* The block of rule i, counted from 0, is at its multiple of ten.
compile(rules) ==
    LET allow == Len(prologue) + Len(rules) * 10
        deny == allow + 2
        start(i) == Len(prologue) + i * 10
        next_rule(i) == IF i + 1 < Len(rules) THEN start(i) + 10 ELSE deny
        block(i) == RuleBlock(rules[i + 1], start(i), next_rule(i), allow)
    IN  IF rules = <<>>
        THEN <<mov_imm(0, 0), exit>>
        ELSE prologue \o [k \in 1 .. Len(rules) * 10 |-> block((k - 1) \div 10)[((k - 1) % 10) + 1]]
             \o epilogue

\* One rule per device number, at the first of its paths, in their order.
Rules(paths, granted, known) ==
    LET kept == {i \in DOMAIN paths : /\ Numbers[paths[i]] \notin known \cup {None}
                                     /\ \A j \in 1 .. i - 1 : Numbers[paths[j]] # Numbers[paths[i]]}
        place(i) == Cardinality({j \in kept : j <= i})
        number(k) == Numbers[paths[CHOOSE i \in kept : place(i) = k]]
    IN  [k \in 1 .. Cardinality(kept) |->
           [type |-> number(k).type, major |-> number(k).major, minor |-> number(k).minor,
            access |-> granted]]

DeviceRules(paths) ==
    Rules(PseudoPaths, DEVCG_ACC_READ + DEVCG_ACC_WRITE, {})
    \o Rules(paths, AllAccess, PathNumbers(PseudoPaths))

Reachable(paths) == None \notin PathNumbers(paths)

---------------------------------------------------------------------------
(***************************************************************************)
(* The member.                                                             *)
(***************************************************************************)

Registers == {0, 2, 3, 4, 6}

Unwritten == [r \in Registers |-> None]

FilterInit ==
    /\ program = None
    /\ claim = None
    /\ access = None
    /\ pc = 0
    /\ regs = Unwritten

\* enforce_devices replaces the program of the cgroup.  It is not called for a
\* member without device claims, which runs under the program of a cgroup that
\* was left behind, or under none.
Attached(paths) == IF paths = <<>> THEN program ELSE compile(DeviceRules(paths))

\* activate, with a cgroup root: the filter comes before the process.
Activate(paths) ==
    /\ claim = None
    /\ Reachable(paths)
    /\ program' = Attached(paths)
    /\ claim' = paths
    /\ UNCHANGED <<access, pc, regs>>

\* CgroupGroup::destroy: the program goes with the cgroup.  A failure to remove
\* it is ignored, and the next activation finds the cgroup as it is.
Destroy(attached) == program' \in {None, attached}

\* A claimed device that is not there, a program that cannot be attached or a
\* process that cannot be spawned fails the activation.
RefuseActivation(paths) ==
    /\ claim = None
    /\ \/ Destroy(program)
       \/ Reachable(paths) /\ Destroy(Attached(paths))
    /\ UNCHANGED <<claim, access, pc, regs>>

Terminate ==
    /\ claim # None
    /\ access = None
    /\ Destroy(program)
    /\ claim' = None
    /\ UNCHANGED <<access, pc, regs>>

---------------------------------------------------------------------------
(***************************************************************************)
(* The kernel: a process of the member opens or creates a device node, and *)
(* the attached program runs to its exit.                                  *)
(***************************************************************************)

Access == [bits : 1 .. AllAccess, device : DeviceNumbers]

Open(a) ==
    /\ claim # None
    /\ program # None
    /\ access = None
    /\ access' = a
    /\ pc' = 0
    /\ regs' = Unwritten
    /\ UNCHANGED <<program, claim>>

\* bpf_cgroup_dev_ctx: access_type, major and minor.
CtxWord(byte) ==
    CASE byte = 0 -> access.bits * HalfWord + access.device.type
      [] byte = 4 -> access.device.major
      [] byte = 8 -> access.device.minor

Current == program[pc + 1]

Write(value) ==
    /\ regs' = [regs EXCEPT ![Current.dst] = value]
    /\ pc' = pc + 1

Execute ==
    CASE Current.code = "load"    -> Write(CtxWord(Current.off))
      [] Current.code = "mov_imm" -> Write(Current.imm)
      [] Current.code = "mov_reg" -> Write(regs[Current.src])
      [] Current.code = "and"     -> Write(And(regs[Current.dst], Current.imm))
      [] Current.code = "rsh"     -> Write(regs[Current.dst] \div 2 ^ Current.imm)
      [] Current.code = "jne"     ->
           /\ pc' = IF regs[Current.dst] # Current.imm
                      THEN pc + 1 + Current.off ELSE pc + 1
           /\ UNCHANGED regs
      [] Current.code = "ja"      -> pc' = pc + 1 + Current.off /\ UNCHANGED regs

Running == access # None

Exiting == Running /\ Current.code = "exit"

Step ==
    /\ Running
    /\ ~Exiting
    /\ Execute
    /\ UNCHANGED <<program, claim, access>>

\* The answer is regs[0]: 1 lets the access through, 0 is EPERM.
Decide ==
    /\ Exiting
    /\ access' = None
    /\ pc' = 0
    /\ regs' = Unwritten
    /\ UNCHANGED <<program, claim>>

FilterNext ==
    \/ \E paths \in MemberClaims : Activate(paths) \/ RefuseActivation(paths)
    \/ Terminate
    \/ \E a \in Access : Open(a)
    \/ Step
    \/ Decide

FilterSpec == FilterInit /\ [][FilterNext]_filter_vars

---------------------------------------------------------------------------
(***************************************************************************)
(* Properties.                                                             *)
(***************************************************************************)

\* What the claims grant: all of the member's own devices, reading and writing
\* of the pseudo-devices.  A claim adds nothing to a pseudo-device.
Granted(a) ==
    IF a.device \in PathNumbers(PseudoPaths)
    THEN And(a.bits, DEVCG_ACC_MKNOD) = 0
    ELSE a.device \in PathNumbers(claim)

\* The filter of a member with device claims answers exactly what they say: it
\* lets an access through if and only if every requested bit is granted for
\* that very device, whatever the order of the rules, the number of them and
\* the filter of a cgroup that was left behind.  On the way control stays
\* inside the program and no instruction reads a register that was not
\* written, as the kernel's verifier asks (compile, enforce_devices).
FilterDecides ==
    Running =>
        /\ pc + 1 \in DOMAIN program
        /\ Current.code \in {"and", "rsh", "jne"} => regs[Current.dst] # None
        /\ Current.code = "mov_reg" => regs[Current.src] # None
        /\ Exiting /\ claim # <<>> => regs[0] = IF Granted(access) THEN 1 ELSE 0
===========================================================================
