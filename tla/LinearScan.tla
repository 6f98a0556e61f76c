----------------------------- MODULE LinearScan -----------------------------
(***************************************************************************)
(* Linear-scan register allocation with interval splitting:                *)
(* RegAlloc::linear_scan_ssa of codegen_new/regalloc.cc and interval_ssa   *)
(* of codegen_new/regalloc.hh.                                             *)
(*                                                                         *)
(* Instruction i reads its operands at position 2i and writes its result   *)
(* at 2i+1.  An interval is the set s of the positions where a value is    *)
(* live (an icl::interval_set: s joins what touches), the positions where  *)
(* it is used, and the register it was given.  The blocks follow each      *)
(* other in the linear order; BlockStart holds their first positions.      *)
(* Integer and float values never compete for a register, so one class is  *)
(* modelled.  An iteration of the allocation loop is two steps: Take pops  *)
(* the next interval and brings active and inactive to its position, and   *)
(* then it is placed, cut or spilled.                                      *)
(***************************************************************************)
EXTENDS Integers, FiniteSets, FiniteSetsExt

CONSTANTS
  Val,         \* the values that need a register; integers, ordered as Value*
  Reg,         \* the allocatable registers: numbers
  ArgReg,      \* a function from the argument values to their registers
  Horizon,     \* the number of positions
  BlockStart,  \* the first position of every block
  Shape        \* the live ranges and uses a value may have: [s, uses]

Pos      == 0 .. Horizon - 1
NoReg    == -5                       \* Reg::id of an invalid register
Infinity == Horizon + 1              \* numeric_limits<size_t>::max()

ASSUME InputAssumption ==
  /\ Val \subseteq Nat /\ Reg \subseteq Nat /\ IsFiniteSet(Val) /\ IsFiniteSet(Reg)
  /\ Reg # {}
  /\ DOMAIN ArgReg \subseteq Val /\ \A v \in DOMAIN ArgReg : ArgReg[v] \in Nat
  /\ \A v, w \in DOMAIN ArgReg : ArgReg[v] = ArgReg[w] => v = w
  /\ Horizon \in Nat /\ BlockStart \subseteq Pos /\ 0 \in BlockStart
  /\ \A h \in Shape : h.s \in SUBSET Pos /\ h.s # {} /\ h.uses \subseteq h.s

\* What build_intervals makes: the definition counts as a use, and a value becomes
\* live again after a hole only where a block starts.
ASSUME ShapeAssumption ==
  \A h \in Shape : /\ Min(h.s) \in h.uses
                   /\ \A p \in h.s : p = Min(h.s) \/ p - 1 \in h.s \/ p \in BlockStart

VARIABLES
  live,        \* the input: the interval of every value
  unhandled,   \* intervals still to place, taken by their start
  current,     \* the interval being placed, or NoInterval
  active,      \* intervals that hold their register at the current position
  inactive,    \* intervals in a lifetime hole at the current position
  handled,     \* intervals that are over
  known,       \* the keys of freeUntilPosition
  ranked,      \* the keys of nextUsePos
  spilled,     \* the values with a stack slot (sp_offset)
  splits,      \* split_moves: where a value changes its place
  stray        \* a lower bound was read past the last segment

vars == <<live, unhandled, current, active, inactive, handled, known, ranked, spilled, splits,
          stray>>

-----------------------------------------------------------------------------
Interval(v, h, r) == [val |-> v, s |-> h.s, uses |-> h.uses, reg |-> r]

NoInterval == Interval(NoReg, [s |-> {}, uses |-> {}], NoReg)

Start(i) == Min(i.s)
End(i)   == Max(i.s) + 1
Covers(i, p) == p \in i.s

\* The bounds of the segments of a set of positions, lower and upper alike.
Bounds(s) == {p \in 0 .. Horizon : (p \in s) # (p - 1 \in s)}

\* operator<: the segments in lexicographic order, then the address of the value.
Before(i, j) ==
  LET I == Bounds(i.s)
      J == Bounds(j.s)
      d == Min((I \ J) \cup (J \ I))
  IN  IF I = J THEN i.val < j.val
      ELSE IF d \in I THEN \E q \in J : q > d ELSE ~ \E q \in I : q > d

\* unhandled.begin()
IsFirst(i, S) == i \in S /\ \A j \in S \ {i} : Before(i, j)

Low(i, p)  == [i EXCEPT !.s = {q \in @ : q < p}, !.uses = {q \in @ : q < p}]
\* Faulty variant of High: it begins one later.
HighLater(i, p) == [i EXCEPT !.s = {q \in @ : q > p}, !.uses = {q \in @ : q > p}, !.reg = NoReg]
High(i, p) == [i EXCEPT !.s = {q \in @ : q >= p}, !.uses = {q \in @ : q >= p}, !.reg = NoReg]

-----------------------------------------------------------------------------
\* Arguments arrive in their registers and are live from position 0; any other
\* value is defined later, and an instruction defines one value.  The maps of
\* positions have the keys init_func enters; it never removes those that an earlier
\* function added, so known is what the first function of a module finds.
Init ==
  /\ live \in [Val -> Shape]
  /\ \A v \in Val : (v \in DOMAIN ArgReg) <=> 0 \in live[v].s
  /\ \A v, w \in Val : v # w /\ Min(live[v].s) = Min(live[w].s) => Min(live[v].s) % 2 = 0
  /\ active = {Interval(v, live[v], ArgReg[v]) : v \in DOMAIN ArgReg}
  /\ unhandled = {Interval(v, live[v], NoReg) : v \in Val \ DOMAIN ArgReg}
  /\ current = NoInterval /\ inactive = {} /\ handled = {}
  /\ known = Reg /\ ranked = Reg
  /\ spilled = {} /\ splits = {} /\ stray = FALSE

Take ==
  /\ current = NoInterval /\ ~ stray
  /\ \E i \in unhandled : IsFirst(i, unhandled) /\ current' = i
  /\ unhandled' = unhandled \ {current'}
  /\ LET position == Start(current')
         ended    == {i \in active : End(i) <= position}
         paused   == {i \in active \ ended : ~ Covers(i, position)}
         expired  == {i \in inactive : End(i) < position}
         woken    == {i \in inactive \ expired : Covers(i, position)}
     IN  /\ active' = (active \ (ended \cup paused)) \cup woken
         /\ inactive' = (inactive \ (expired \cup woken)) \cup paused
         /\ handled' = handled \cup ended \cup expired
  /\ UNCHANGED <<live, known, ranked, spilled, splits, stray>>

\* freeUntilPosition: how long a register stays free.  A register met for the
\* first time (one of an argument) enters the map with 0 and stays in it.
ClashingNone == {}                  \* faulty: holes are not looked at
Clashing == {i \in inactive : i.s \cap current.s # {}}
freeUntilPosition == [r \in known \cup {i.reg : i \in active \cup Clashing} |->
  IF r \notin known \/ \E i \in active : i.reg = r THEN 0
  ELSE Min({Infinity} \cup UNION {i.s \cap current.s : i \in {j \in Clashing : j.reg = r}})]

\* nextUsePos: the next use of what a register holds now or after its hole.
NextUsesEnd(i) == {End(i)}          \* faulty: its end, not its next use
NextUses(i) == {p \in i.uses : p >= Start(current)}
Rivals == {i \in active \cup inactive : NextUses(i) # {}}
nextUsePos == [r \in ranked \cup {i.reg : i \in Rivals} |->
  IF r \notin ranked THEN 0
  ELSE Min({Infinity} \cup UNION {NextUses(i) : i \in {j \in Rivals : j.reg = r}})]

\* max_element: the lowest register among those with the largest entry.
MaxElement(f) == CHOOSE r \in DOMAIN f : \A q \in DOMAIN f : f[q] < f[r] \/ (f[q] = f[r] /\ r <= q)

\* split_moves.push_back, left out where a block starts: resolve() moves there.
PushSplitsAnywhere(E) == splits' = splits \cup E                 \* faulty
PushSplits(E) == splits' = splits \cup {e \in E : e[2] \notin BlockStart}

-----------------------------------------------------------------------------
\* A register is free for the whole interval, or until a position where the
\* interval is cut and its rest queued again.
Fit(free) ==
  LET r   == MaxElement(free)
      all == End(current) < free[r]
      pos == IF all THEN Infinity ELSE free[r]
  IN  /\ \E q \in DOMAIN free : free[q] # 0
      /\ active' = active \cup {[Low(current, pos) EXCEPT !.reg = r]}
      /\ unhandled' = unhandled \cup (IF all THEN {} ELSE {High(current, pos)})
      /\ PushSplits(IF all THEN {} ELSE {<<current.val, pos>>})
      /\ UNCHANGED <<inactive, ranked, spilled, stray>>

\* Nothing reads the rest of the interval: it goes to memory as a whole.
SpillUnused ==
  /\ current.uses = {}
  /\ spilled' = spilled \cup {current.val}
  /\ UNCHANGED <<unhandled, active, inactive, splits, stray>>

\* Where an interval in memory needs a register again: at its first use, or its
\* second if it is used right here.
Resume(first, next) ==
  IF first = next /\ first = Start(current)
    THEN Min((current.uses \ {first}) \cup {Infinity}) ELSE first

\* The interval is used no earlier than what any register holds: it stays in memory.
SpillCurrent(next) ==
  LET first == Min(current.uses)
      pos == Resume(first, next)
      rest == IF pos = Infinity THEN {} ELSE {High(current, pos)}
  IN  /\ current.uses # {} /\ first >= next
      /\ spilled' = spilled \cup {current.val}
      /\ unhandled' = unhandled \cup rest
      /\ PushSplits({<<i.val, pos>> : i \in rest})
      /\ UNCHANGED <<active, inactive, stray>>

\* The interval takes register r, whose content is used last.  What is active
\* in it is cut here, what is inactive at the end of its hole; the rests are
\* queued again.  An interval that ended exactly here is still inactive and has
\* no later segment: lower_bound is then end(), what is read from it is
\* undefined, and the model stops with `stray`.
TakeRegister(r, next) ==
  LET position == Start(current)
      held == {i \in active : i.reg = r}
      hole == {i \in inactive : i.reg = r}
      rest == [i \in hole |-> {p \in i.s : p > position}]
      ends == {i \in hole : rest[i] # {}}
      cut  == [i \in ends |-> Min(rest[i])]
  IN  /\ current.uses # {} /\ Min(current.uses) < next
      /\ stray' = (ends # hole)
      /\ active' = (active \ held) \cup {h \in {Low(i, position) : i \in held} : h.s # {}}
                     \cup {[current EXCEPT !.reg = r]}
      /\ inactive' = (inactive \ ends) \cup {Low(i, cut[i]) : i \in ends}
      /\ unhandled' = unhandled \cup {High(i, position) : i \in held}
                        \cup {High(i, cut[i]) : i \in ends}
      /\ PushSplits({<<i.val, position>> : i \in held} \cup {<<i.val, cut[i]>> : i \in ends})
      /\ UNCHANGED spilled

\* No register is free at all.
Displace(uses) ==
  LET r == MaxElement(uses)
      next == IF DOMAIN uses = {} THEN 0 ELSE uses[r]
  IN  /\ SpillUnused \/ SpillCurrent(next) \/ TakeRegister(r, next)
      /\ ranked' = DOMAIN uses

Allocate ==
  /\ current # NoInterval
  /\ LET free == freeUntilPosition
     IN  /\ \/ Fit(free)
            \/ (\A q \in DOMAIN free : free[q] = 0) /\ LET uses == nextUsePos IN Displace(uses)
         /\ known' = DOMAIN free
  /\ current' = NoInterval
  /\ UNCHANGED <<live, handled>>

Next == Take \/ Allocate

Spec == Init /\ [][Next]_vars

-----------------------------------------------------------------------------
Placed == active \cup inactive \cup handled
Done == unhandled = {} /\ current = NoInterval /\ ~ stray

\* Two intervals that are alive at one position never hold the same register:
\* no value is overwritten while it is needed.
OneValuePerRegister ==
  ~ stray => \A i, j \in Placed : i # j /\ i.reg = j.reg => i.s \cap j.s = {}

\* Splitting loses nothing: wherever a value is live it has a register, waits
\* for one, or has a stack slot, so RegAlloc::get never exits with 212; and the
\* pieces of a value never overlap, so the first one get() finds is the only one.
EveryPlaceKnown ==
  ~ stray => \A v \in Val :
    LET pieces == {i \in Placed \cup unhandled \cup {current} : i.val = v}
    IN  /\ \A p \in live[v].s : v \in spilled \/ \E i \in pieces : p \in i.s
        /\ \A i, j \in pieces : i # j => i.s \cap j.s = {}

\* Where a value is at a position: a register, or its slot (NoReg).
Place(v, p) == IF \E i \in Placed : i.val = v /\ p \in i.s
                 THEN (CHOOSE i \in Placed : i.val = v /\ p \in i.s).reg ELSE NoReg

\* Inside a block a value never changes its place without a move: whenever two
\* neighbouring positions find it in different places, split_moves has the entry
\* resolve() turns into the copy, and that entry finds the value alive on both sides.
MovesFollowValues ==
  Done => /\ \A v \in Val, p \in Pos \ BlockStart :
               {p - 1, p} \subseteq live[v].s /\ Place(v, p - 1) # Place(v, p) => <<v, p>> \in splits
          /\ \A e \in splits : {e[2] - 1, e[2]} \subseteq live[e[1]].s

\* Codegen::gen_bb performs the copies of an output position 2i+1 before
\* instruction i reads its operands at 2i, unless it is the branch that ends a
\* block: the register such a copy writes is not where the instruction then
\* looks for another of its operands.
OutputMovesSpareInputs ==
  Done => \A e \in {x \in splits : x[2] % 2 = 1 /\ x[2] + 1 \notin BlockStart \cup {Horizon}} :
            Place(e[1], e[2]) # NoReg =>
              \A w \in Val \ {e[1]} : e[2] - 1 \in live[w].uses => Place(w, e[2] - 1) # Place(e[1], e[2])
=============================================================================
