-------------------------------- MODULE Volk --------------------------------
(***************************************************************************)
(* The VOLK library: a program calls a kernel through a function pointer   *)
(* that first points to a resolver.  The resolver finds the machine (the   *)
(* best set of instruction sets the processor has), ranks the variants the *)
(* machine was built with, or takes the one volk_config prefers, stores    *)
(* the variant in the pointer and calls it.                                *)
(*                                                                         *)
(* A behaviour is about one kernel; the kernels share the machine and the  *)
(* preferences, which do not change once they are read.  A call has two    *)
(* steps: a variant is chosen, and it returns.                             *)
(***************************************************************************)
EXTENDS VolkCalls, FiniteSets

CONSTANTS
    Cpus,          \* processors, as sets of instruction sets
    Preferences,   \* what volk_config may say of a kernel: a name or NoPref
    NoPref,
    Sizes,         \* the numbers of points
    Seeds          \* the seeds of the data

VARIABLES
    kernel,        \* the kernel the behaviour is about
    header,        \* the names of its variants, in the order of its header
    cpu,           \* what volk_get_lvarch finds
    pref,          \* the line of volk_config about the kernel
    machine,       \* the static machine of get_machine; {} is NULL
    pointer,       \* the kernel's function pointer
    call,          \* the last call: the variant that runs and its input
    result         \* what it returned, and what generic would have

vars == <<kernel, header, cpu, pref, machine, pointer, call, result>>

NoCall   == [arch |-> "none", n |-> 0, d |-> 0]
NoResult == [out |-> <<>>, generic |-> <<>>, back |-> FALSE]
Resolver == "get"

-----------------------------------------------------------------------------
(* Instruction sets, in the order of archs.xml: the place of an arch is    *)
(* its bit in caps and arch_defs.                                          *)
ArchOrder == <<"generic", "32", "64", "popcount", "mmx", "sse", "sse2", "sse3", "ssse3",
               "sse4_1", "sse4_2", "avx">>
Bits(as) ==
    LET bit[i \in 0..Len(ArchOrder)] ==
          IF i = 0 THEN 0 ELSE bit[i - 1] + (IF ArchOrder[i] \in as THEN 2 ^ (i - 1) ELSE 0)
    IN  bit[Len(ArchOrder)]

(* machines.xml, for a 64-bit build. *)
Sse2 == {"generic", "mmx", "sse", "sse2"}
Sse4 == Sse2 \union {"sse3", "ssse3", "sse4_1"}
Avx  == Sse4 \union {"sse4_2", "popcount", "avx"}
volk_machines ==
    {{"generic"}, Sse2, Sse2 \union {"64"}, Sse2 \union {"64", "sse3"},
     Sse2 \union {"64", "sse3", "ssse3"}, Sse4 \union {"64"},
     Sse4 \union {"64", "sse4_2", "popcount"}, Avx \union {"64"}, Avx}

(* What a variant needs: the archs of the #if around it. *)
Needs(k, arch) ==
    CASE arch = "sse_64" -> {"sse", "64"}
      [] arch = "sse_32" -> {"sse", "32"}
      [] k = "volk_32fc_x2_conjugate_dot_prod_32fc_a" /\ arch = "sse" -> {"sse", "64"}
      [] k = "volk_64u_popcnt_a" /\ arch = "sse4_2" -> {"sse4_2", "64"}
      [] OTHER -> {arch}

(* The variants machine m was built with, in header order. *)
indices(k, all, m) == SelectSeq(all, LAMBDA arch : Needs(k, arch) \subseteq m)

(* A lookup that does not ask whether the processor can run the machine. *)
get_machine_Unchecked(have) ==
    CHOOSE m \in volk_machines : \A o \in volk_machines : Bits(o) <= Bits(m)
(* The machine of the largest caps among those the processor can run. *)
get_machine(have) ==
    LET usable == {m \in volk_machines : m \subseteq have}
    IN  CHOOSE m \in usable : \A o \in usable : Bits(o) <= Bits(m)

(* Positions are from 0.  A name the machine does not have means generic.  *)
get_index(names, arch) ==
    LET of(a) == {i \in 0..(Len(names) - 1) : names[i + 1] = a}
        first(s) == CHOOSE i \in s : \A j \in s : i <= j
    IN  IF of(arch) # {} THEN first(of(arch)) ELSE first(of("generic"))

(* The preference, if there is one; otherwise the scan that compares the   *)
(* arch_def of variant i with that of the variant after the best one and   *)
(* then takes the variant before i.  Its test of the archs,                *)
(* arch_defs[i] & (!arch), is always zero and skips nothing.               *)
volk_rank_archs(k, names, p) ==
    LET def(i) == Bits(Needs(k, names[i + 1]))
        best[i \in 0..(Len(names) - 1)] ==
          IF i = 0 THEN 0
          ELSE IF def(i) > def(best[i - 1] + 1) THEN i - 1 ELSE best[i - 1]
    IN  IF p # NoPref THEN get_index(names, p) ELSE best[Len(names) - 1]

-----------------------------------------------------------------------------
(* What the pointer of a kernel does.                                      *)

NamesOf(results) == [i \in DOMAIN results |-> results[i][1]]

Init ==
    /\ kernel \in Kernels
    /\ header = NamesOf(archs(kernel, 0, 0))
    /\ cpu \in Cpus
    /\ pref \in Preferences
    /\ machine = {}
    /\ pointer = Resolver
    /\ call = NoCall
    /\ result = NoResult

(* The static machine is looked up once. *)
Machine == IF machine # {} THEN machine ELSE get_machine(cpu)

(* The caller is not in a kernel. *)
Idle == call = NoCall \/ result.back

Enter(arch) ==
    /\ \E n \in Sizes, d \in Seeds : call' = [arch |-> arch, n |-> n, d |-> d]
    /\ result' = NoResult

(* The pointer still points to get_<kernel>: it is set, then called. *)
FirstCall ==
    /\ pointer = Resolver /\ Idle
    /\ machine' = Machine
    /\ LET names == indices(kernel, header, Machine)
       IN  pointer' = names[volk_rank_archs(kernel, names, pref) + 1]
    /\ Enter(pointer')
    /\ UNCHANGED <<kernel, header, cpu, pref>>

NextCall ==
    /\ pointer # Resolver /\ Idle
    /\ Enter(pointer)
    /\ UNCHANGED <<kernel, header, cpu, pref, machine, pointer>>

(* <kernel>_manual: the caller names the variant; the pointer is not used. *)
ManualCall ==
    /\ Idle
    /\ machine' = Machine
    /\ \E asked \in Preferences \ {NoPref} :
         LET names == indices(kernel, header, Machine)
         IN  Enter(names[get_index(names, asked) + 1])
    /\ UNCHANGED <<kernel, header, cpu, pref, pointer>>

ResultOf(results, arch) ==
    results[CHOOSE i \in 1..Len(results) : results[i][1] = arch][2]
Outcome(results, arch) ==
    [out |-> ResultOf(results, arch), generic |-> ResultOf(results, "generic"), back |-> TRUE]

(* The variant runs. *)
Return ==
    /\ ~Idle
    /\ result' = Outcome(archs(kernel, call.n, call.d), call.arch)
    /\ UNCHANGED <<kernel, header, cpu, pref, machine, pointer, call>>

Next == FirstCall \/ NextCall \/ ManualCall \/ Return

Spec == Init /\ [][Next]_vars

-----------------------------------------------------------------------------
(* Results.                                                                *)

(* How close to generic's the result of a variant has to be: the tolerance *)
(* the unit tests give the kernel.  Conversions to integers round in the   *)
(* vector blocks and drop the fraction in the scalar loops, so they may be *)
(* one apart; the index of the largest complex point is that of its block. *)
WithinOne ==
    {"volk_32f_s32f_convert_16i_a", "volk_32f_s32f_convert_16i_u", "volk_32f_s32f_convert_8i_a",
     "volk_32f_s32f_convert_8i_u", "volk_32f_s32f_convert_32i_a", "volk_32f_s32f_convert_32i_u",
     "volk_32f_x2_s32f_interleave_16ic_a", "volk_32fc_s32f_magnitude_16i_a"}
Near(x, y, tol) == x - y <= tol /\ y - x <= tol
Agrees(k, out, generic, n, d) ==
    CASE k \in WithinOne -> Len(out) = Len(generic) /\ \A i \in 1..Len(out) : Near(out[i], generic[i], 1)
      [] k = "volk_32f_index_max_16u_a" -> n = 0 \/ Small(d)[out] = Small(d)[generic]
      [] k = "volk_32fc_index_max_16u_a" ->
             n = 0 \/ \E i \in out..(out + 3) : i < n /\ SquareAt(Small(d), i) = SquareAt(Small(d), generic)
      [] OTHER -> out = generic

(* Inputs for which the variants are known to differ.                      *)
Excluded(k, n) ==
    \/ k = "volk_32fc_x2_dot_prod_32fc_a" /\ n % 2 = 0 /\ n > 0
    \/ k = "volk_32fc_x2_dot_prod_32fc_u" /\ n % 2 = 1
    \/ k = "volk_64u_popcnt_a"
    \/ k \in {"volk_32fc_x2_square_dist_32f_a", "volk_32fc_x2_s32f_square_dist_scalar_mult_32f_a"} /\ n < 4

-----------------------------------------------------------------------------
(* Properties.                                                             *)

(* Whatever the processor, the preferences and the way the variant was     *)
(* chosen, the caller gets the result of the generic variant, to the       *)
(* tolerance of the unit tests: blocks, shuffles, masks and tails of every *)
(* variant fit together for every number of points, outside of Excluded.   *)
VariantsAgree ==
    result.back /\ ~Excluded(kernel, call.n) =>
        Agrees(kernel, result.out, result.generic, call.n, call.d)

(* The variant that runs needs no instruction the processor lacks, even    *)
(* when volk_config or a manual call names one that does.                  *)
CallIsSafe == call # NoCall => Needs(kernel, call.arch) \subseteq cpu

(* Kernels that undo one another: a vector put together and taken apart,   *)
(* conjugated twice, byte-swapped twice or widened and narrowed again is   *)
(* the vector it was, whichever variant did the first half.                *)
Arr(s)       == [i \in 0..(Len(s) - 1) |-> s[i + 1]]
Prefix(a, n) == Reg([i \in 1..n |-> a[i - 1]])
RoundTrip ==
    LET n   == call.n
        d   == call.d
        out == Arr(result.out)
    IN  result.back =>
          CASE kernel = "volk_32f_x2_interleave_32fc_a" ->
                 volk_32fc_deinterleave_32f_x2_a_generic(out, n) = <<Prefix(Small(d), n), Prefix(Small(d + 1), n)>>
            [] kernel = "volk_32fc_conjugate_32fc_a" ->
                 volk_32fc_conjugate_32fc_a_generic(out, n) = Prefix(Small(d), 2 * n)
            [] kernel = "volk_16u_byteswap_a" -> volk_16u_byteswap_a_generic(out, n) = Prefix(WordsOf(2, d), n)
            [] kernel = "volk_32u_byteswap_a" -> volk_32u_byteswap_a_generic(out, n) = Prefix(WordsOf(4, d), n)
            [] kernel = "volk_64u_byteswap_a" -> volk_64u_byteswap_a_generic(out, n) = Prefix(WordsOf(4, d), 2 * n)
            [] kernel = "volk_8i_convert_16i_a" -> volk_16i_convert_8i_a_generic(out, n) = Prefix(Signed(8, d), n)
            [] OTHER -> TRUE
=============================================================================
