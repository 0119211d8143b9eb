--------------------------- MODULE GuestRegisters ---------------------------
(***************************************************************************)
(* The world switch of guests/guest.c register by register: the frame of     *)
(* boot/vector.s, the banked registers, the coprocessor registers reached by *)
(* name through Cp15, GICV_CTLR and the 64-bit VTTBR.  (Hypervisor has the   *)
(* list registers, and shows when a switch happens and to whom; here any VM  *)
(* may follow any other.)                                                   *)
(*                                                                         *)
(* Contents are <<who, register, version>>: a register restored from the     *)
(* wrong VM, the wrong register or an old backup is seen.                    *)
(***************************************************************************)
EXTENDS Cp15, StackFrame

CONSTANTS NumVM,       \* entries of vm[]
          Versions,    \* contents a guest gives its registers, 1 .. Versions
          LoadRegs     \* registers that guests load from emulated devices

VM == 0 .. NumVM - 1

Assumption ==
  /\ NumVM \in 1 .. 4
  /\ Versions \in Nat \ {0}
  /\ LoadRegs \subseteq FrameRegs

VARIABLES vm_id,      \* the VM last restored
          idle,       \* the idle thread is on the CPU
          hw,         \* the registers of the CPU
          bk,         \* vm[v].bk
          halt,       \* printb
          want,       \* history: what each VM left in its registers
          version     \* history: the version of each VM's contents

vars == <<vm_id, idle, hw, bk, halt, want, version>>

\* Who a register's contents come from, besides the VMs: the initial values of
\* guest_rpb_init, or the hypervisor's own code.
Initial == -1
Hyp     == -2

Contents(who, r, n) == <<who, r, n>>

\* Registers g with those of f written over them.
Over(f, g) == [x \in DOMAIN f \cup DOMAIN g |-> IF x \in DOMAIN f THEN f[x] ELSE g[x]]

(***************************************************************************)
(* The registers.                                                          *)
(***************************************************************************)
\* The banked registers of guest_rf.
Banked == {"sp_usr", "sp_svc", "sp_abt", "sp_und", "sp_irq", "sp_fiq",
           "lr_svc", "lr_abt", "lr_und", "lr_irq", "lr_fiq",
           "spsr_svc", "spsr_abt", "spsr_und", "spsr_irq", "spsr_fiq",
           "elr_hyp", "spsr_hyp"}

\* The fields of guest_cp15.
SavedNames == {"CSSELR", "SCTLR", "TTBR0", "TTBR1", "TTBCR", "DACR", "DFSR", "IFSR",
               "DFAR", "IFAR", "PRRR", "NMRR", "FCSEIDR", "CONTEXTIDR", "TPIDR_URO"}

\* Registers a guest can write that no switch touches: r8-r12 of FIQ mode and
\* GICV_PMR; VBAR, ADFSR, AIFSR, TPIDRURW, TPIDRPRW and CPACR.
UnsavedBank == {"r8_r12_fiq", "gicv_pmr"}
UnsavedCp   == {<<12, 0, 0, 0>>, <<5, 0, 1, 0>>, <<5, 0, 1, 1>>,
                <<13, 0, 0, 2>>, <<13, 0, 0, 4>>, <<1, 0, 0, 2>>}

SavedCp == {cp15_reg_names[n].at : n \in SavedNames}
HypCp   == {cp15_reg_names[n].at : n \in {"HSCTLR", "HCR", "HVBAR", "VTCR", "HSTR"}}
VTTBR   == cp15_reg_names64["VTTBR_LPAE"]

\* guest_rpb_init clears everything and then sets SCTLR.
InitialCp(a) ==
  Contents(Initial, IF a = cp15_reg_names["SCTLR"].at THEN a ELSE <<0, 0, 0, 0>>, 0)

\* All that a VM finds in the registers it can name when it wrote version n
\* of everything.
Everything(who, n) ==
  [r    |-> [rn \in FrameRegs |-> Contents(who, rn, n)],
   bank |-> [b \in Banked \cup UnsavedBank |-> Contents(who, b, n)],
   cp   |-> [a \in SavedCp \cup UnsavedCp |-> Contents(who, a, n)],
   ctlr |-> Contents(who, "ctlr", n)]

(***************************************************************************)
(* Initialisation.                                                         *)
(***************************************************************************)
\* Writes of a whole register and of one of its fields, by name.
reg(c, n, value)         == cp15_write(c, cp15_reg_names[n], value)
field(c, n, h, l, value) == cp15_write(c, setfd(cp15_reg_names[n], h, l), value)

\* The order and the values of meteor_cp15_init.
init_hsctlr(c) == field(reg(c, "HSCTLR", {}), "HSCTLR", 1, 1, Bits(1))
init_hcr(c) ==
  LET c1 == field(reg(c, "HCR", {}), "HCR", 0, 0, Bits(1))
  IN  field(field(c1, "HCR", 4, 4, Bits(1)), "HCR", 13, 13, Bits(1))
init_vtcr(c) ==
  LET c1 == field(reg(c, "VTCR", {}), "VTCR", 7, 6, Bits(1))
  IN  field(c1, "VTCR", 3, 0, {})
init_hstr(c) == field(field(c, "HSTR", 7, 7, Bits(1)), "HSTR", 8, 8, Bits(1))

meteor_cp15_init(c) ==
  init_hstr(init_vtcr(reg(init_hcr(init_hsctlr(c)), "HVBAR", {})))

\* pt_base of main(): 0x08000000 + v * 0x100000.
pt_base(v) == {27} \cup {20 + b : b \in Bits(v)}

\* vm->bk after guest_rpb_init and guest_rpb_init_pt_static.
guest_rpb_init(v) ==
  [dirty  |-> FALSE,
   r_usr  |-> [rn \in 0 .. 12 |-> Contents(Initial, rn, 0)],
   lr_usr |-> Contents(Initial, 14, 0),
   bank   |-> [b \in Banked |-> Contents(Initial, b, 0)],
   cp15   |-> [n \in SavedNames |-> InitialCp(cp15_reg_names[n].at)],
   vttbr_lpae |-> pt_base(v),
   ctlr   |-> Contents(Initial, "ctlr", 0)]

(***************************************************************************)
(* guests/guest.c.  f is the frame of the handler that switches.            *)
(***************************************************************************)
guest_backup_rf(b, h, f) ==
  [b EXCEPT !.r_usr  = [rn \in 0 .. 12 |-> read_reg_from_stack(f, rn)],
            !.lr_usr = read_reg_from_stack(f, 14),
            !.bank   = [x \in Banked |-> h.bank[x]]]

\* The thread register is left out.
guest_backup_cp15_bug(b, h) ==
  [b EXCEPT !.cp15 = [n \in SavedNames |->
                        IF n = "TPIDR_URO" THEN b.cp15[n] ELSE cp15_read(h.cp, cp15_reg_names[n])],
            !.vttbr_lpae = cp15_read64(h.cp64, VTTBR)]

guest_backup_cp15(b, h) ==
  [b EXCEPT !.cp15 = [n \in SavedNames |-> cp15_read(h.cp, cp15_reg_names[n])],
            !.vttbr_lpae = cp15_read64(h.cp64, VTTBR)]

guest_suspend(b, h, f) ==
  IF b.dirty
  THEN [guest_backup_cp15(guest_backup_rf(b, h, f), h) EXCEPT !.ctlr = h.ctlr, !.dirty = FALSE]
  ELSE b

\* The frame the handler will pop: r0-r12, then lr.
restore_frame(b, f) ==
  write_reg_to_stack(
    [k \in 1 .. 14 |-> IF \E rn \in 0 .. 12 : frame_offset(rn) = k
                       THEN b.r_usr[CHOOSE rn \in 0 .. 12 : frame_offset(rn) = k]
                       ELSE f[k]],
    14, b.lr_usr)

guest_restore_rf(b, h, f) ==
  [h EXCEPT !.r    = pop(restore_frame(b, f)),
            !.bank = Over([x \in Banked |-> b.bank[x]], h.bank)]

\* The name whose cp15_write reaches the register at a.
named(a) == CHOOSE n \in SavedNames : CP15_PARSE(cp15_reg_names[n]) = a

\* The registers the fifteen cp15_write calls reach, each with what it gets.
guest_restore_cp15(b, h) ==
  [h EXCEPT !.cp   = Over([a \in SavedCp |-> b.cp15[named(a)]], h.cp),
            !.cp64 = cp15_write64(h.cp64, VTTBR, b.vttbr_lpae)]

\* The VMID is written as if it were the whole of VTTBR.
set_vmid_bug(v, d) == cp15_write64(d, VTTBR, Bits(v))

set_vmid(v, d) == cp15_write64(d, cp15_reg_names64["VTTBR_LPAE_VMID"], Bits(v))

guest_restore(v, b, h, f) ==
  [guest_restore_cp15(b, guest_restore_rf(b, h, f)) EXCEPT
     !.ctlr = b.ctlr,
     !.cp64 = set_vmid(v, guest_restore_cp15(b, h).cp64)]

(***************************************************************************)
(* Actions.                                                                *)
(***************************************************************************)
\* The guest on the CPU writes all its registers.
GuestRun ==
  /\ ~halt /\ ~idle
  /\ LET n   == IF version[vm_id] = Versions THEN 1 ELSE version[vm_id] + 1
         new == Everything(vm_id, n)
     IN  /\ hw' = [hw EXCEPT !.r = new.r, !.bank = new.bank, !.ctlr = new.ctlr,
                             !.cp = Over(new.cp, hw.cp)]
         /\ want' = [want EXCEPT ![vm_id] = new]
         /\ version' = [version EXCEPT ![vm_id] = n]
  /\ UNCHANGED <<vm_id, idle, bk, halt>>

\* A trapped load of a device register into rt: through the frame and back.
trap_load(rt) ==
  /\ ~halt /\ ~idle
  /\ LET got == Contents(vm_id, rt, 0)
     IN  /\ hw' = [hw EXCEPT !.r = pop(write_reg_to_stack(push(hw.r), rt, got))]
         /\ want' = [want EXCEPT ![vm_id].r[rt] = got]
  /\ UNCHANGED <<vm_id, idle, bk, halt, version>>

\* scheduler_rr: suspend the current VM, restore the next one.
world_switch(next) ==
  LET f    == push(hw.r)
      susp == [bk EXCEPT ![vm_id] = guest_suspend(bk[vm_id], hw, f)]
  IN  /\ ~halt
      /\ IF susp[next].dirty
         THEN /\ halt' = TRUE
              /\ UNCHANGED <<vm_id, idle, hw, bk>>
         ELSE /\ hw' = guest_restore(next, susp[next], hw, f)
              /\ bk' = [susp EXCEPT ![next].dirty = TRUE]
              /\ vm_id' = next
              /\ idle' = FALSE
              /\ UNCHANGED halt
      /\ UNCHANGED <<want, version>>

\* No VM can run: suspend and leave the CPU to idle_thread, whose registers
\* the next handler pushes and whose elr_hyp and spsr_hyp it finds.
enter_idle ==
  /\ ~halt
  /\ bk' = [bk EXCEPT ![vm_id] = guest_suspend(bk[vm_id], hw, push(hw.r))]
  /\ hw' = [hw EXCEPT !.r = [rn \in FrameRegs |-> Contents(Hyp, rn, 0)],
                      !.bank["elr_hyp"]  = Contents(Hyp, "elr_hyp", 0),
                      !.bank["spsr_hyp"] = Contents(Hyp, "spsr_hyp", 0)]
  /\ idle' = TRUE
  /\ UNCHANGED <<vm_id, halt, want, version>>

\* The CPU as main() leaves it to VM 0: guest_restore without a frame, then
\* r0-r12 cleared; lr is the hypervisor's.  Before, the coprocessor held
\* anything (HSTR resets to zero).
Init ==
  \E w \in {{}, Bit} :
    LET reset == [a \in HypCp |-> IF a = cp15_reg_names["HSTR"].at THEN {} ELSE w]
        r     == [rn \in FrameRegs |-> Contents(IF rn = 14 THEN Hyp ELSE Initial, rn, 0)]
        zero  == [Everything(Initial, 0) EXCEPT
                    !.cp = [a \in SavedCp \cup UnsavedCp |-> InitialCp(a)]]
        first == [zero EXCEPT !.r = r]
    IN  /\ vm_id = 0
        /\ idle = FALSE
        /\ bk = [v \in VM |-> [guest_rpb_init(v) EXCEPT !.dirty = (v = 0)]]
        /\ hw = [guest_restore(0, guest_rpb_init(0),
                   [r    |-> r,
                    bank |-> first.bank,
                    cp   |-> Over(first.cp, meteor_cp15_init(reset)),
                    cp64 |-> [a \in {VTTBR.at} |-> {}],
                    ctlr |-> first.ctlr], push(r))
                 EXCEPT !.r = r]
        /\ halt = FALSE
        /\ want = [v \in VM |-> IF v = 0 THEN first ELSE zero]
        /\ version = [v \in VM |-> 0]

Next ==
  \/ GuestRun
  \/ \E rt \in LoadRegs : trap_load(rt)
  \/ \E next \in VM : world_switch(next)
  \/ enter_idle

Spec == Init /\ [][Next]_vars

(***************************************************************************)
(* Properties.                                                             *)
(***************************************************************************)
\* A VM that runs finds in every register the switch saves what it left there:
\* each register from the same VM, the same register and the latest contents,
\* whichever VMs and idle periods came between.  The translation table
\* registers, whose names and instructions disagree, come back as well; only
\* UnsavedBank and UnsavedCp pass from one VM to the next.
OwnRegisters ==
  ~idle =>
    /\ hw.r = want[vm_id].r
    /\ \A b \in Banked : hw.bank[b] = want[vm_id].bank[b]
    /\ \A a \in SavedCp : hw.cp[a] = want[vm_id].cp[a]
    /\ hw.ctlr = want[vm_id].ctlr

\* The traps a guest cannot switch off stay armed: HCR has VM, IMO and TWI,
\* HSTR T7 and T8, and the tables VTTBR names are those of the VM on the CPU,
\* under its own VMID.
TrapsArmed ==
  /\ cp15_read(hw.cp, cp15_reg_names["HSCTLR"]) = {1}
  /\ cp15_read(hw.cp, cp15_reg_names["HCR"]) = {0, 4, 13}
  /\ cp15_read(hw.cp, cp15_reg_names["VTCR"]) = {6}
  /\ cp15_read(hw.cp, cp15_reg_names["HSTR"]) = {7, 8}
  /\ ~idle => cp15_read64(hw.cp64, VTTBR) = pt_base(vm_id) \cup {48 + b : b \in Bits(vm_id)}
=============================================================================
