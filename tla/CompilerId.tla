----------------------------- MODULE CompilerId -----------------------------
(****************************************************************************)
(* CMakeCCompilerId.c and CMakeCXXCompilerId.cpp of the build directories   *)
(* (generated by CMake 3.16.5, the same in Lab_2/LINUX and Lab_5/LINUX):    *)
(* the chain of #if and #elif by which the build learns its compiler, the   *)
(* version and the compiler it stands in for.  The first group whose        *)
(* condition holds wins.                                                    *)
(*                                                                          *)
(* Abstractions.  A compiler is the macros it predefines, with their        *)
(* values: `own' are those of its maker, `common' those that many makers    *)
(* predefine.  A component of a version is the number that its eight digits *)
(* show.  Platform, architecture, dialect, COMPILER_VERSION_INTERNAL and    *)
(* main are left out.                                                       *)
(****************************************************************************)
EXTENDS Integers, Sequences, FiniteSets, FiniteSetsExt

CONSTANT Compilers   \* what the file may be given to: [language, own, common]

ASSUME CompilersAssumption == \A c \in Compilers : c.language \in {"C", "CXX"}

VARIABLES
  real,      \* the compiler at work
  compiler,  \* COMPILER_ID and the version of info_version; NotYet before
  simulate   \* SIMULATE_ID and the version of info_simulate_version; NotYet before

vars == <<real, compiler, simulate>>

NotYet == [id |-> "not yet", version |-> <<>>]

\* A macro that is not defined counts as 0.
Macros(c) == DOMAIN c.own \cup DOMAIN c.common
Def(c, m) == m \in Macros(c)
AnyOf(c, ms) == ms \cap Macros(c) # {}
Val(c, m) == IF m \in DOMAIN c.own THEN c.own[m]
             ELSE IF m \in DOMAIN c.common THEN c.common[m] ELSE 0

\* The macro of the same maker for C and for C++.
InC(c, inC, inCXX) == IF c.language = "C" THEN inC ELSE inCXX

-----------------------------------------------------------------------------
(* Versions *)

\* Eight decimal digits.
Dec(n) == n % 10^8

\* Eight hexadecimal digits, read in base ten (the makers use 0 to 9 only).
Hex(n) == MapThenSumSet(LAMBDA i : 10^i * (n \div 16^i % 16), 0..7)

\* Components some of which may be missing: none is announced after the first gap.
Optional(c, m) == IF Def(c, m) THEN <<Dec(Val(c, m))>> ELSE <<>>
Nested(first, next) == IF first = <<>> THEN <<>> ELSE first \o next

\* The encodings of a version in one number, and one number per component.
VVRR(n) == <<Dec(n \div 100), Dec(n % 100)>>
Split(n, big, small) ==
  <<Dec(n \div (big * small)), Dec(n \div small % big), Dec(n % small)>>
VRP(n) == Split(n, 10, 10)
Each(c, ms) == [i \in DOMAIN ms |-> Dec(Val(c, ms[i]))]

ClangVersion(c) == Each(c, <<"__clang_major__", "__clang_minor__", "__clang_patchlevel__">>)
GnuVersion(c) ==
  Each(c, <<IF Def(c, "__GNUC__") THEN "__GNUC__" ELSE "__GNUG__">>)
    \o Nested(Optional(c, "__GNUC_MINOR__"), Optional(c, "__GNUC_PATCHLEVEL__"))

IntelVersion(c) ==
  LET vrp == VRP(Val(c, "__INTEL_COMPILER"))
  IN  (IF Def(c, "__INTEL_COMPILER_UPDATE")
       THEN <<vrp[1], vrp[2], Dec(Val(c, "__INTEL_COMPILER_UPDATE"))>> ELSE vrp)
        \o Optional(c, "__INTEL_COMPILER_BUILD_DATE")

WatcomVersion(n, base) ==
  <<Dec((n - base) \div 100), Dec(n \div 10 % 10)>>
    \o (IF n % 10 > 0 THEN <<Dec(n % 10)>> ELSE <<>>)

SunProVersion(n) ==
  IF n >= 20736   \* 0x5100
  THEN <<Hex(n \div 4096), Hex(n \div 16 % 256), Hex(n % 16)>>
  ELSE <<Hex(n \div 256), Hex(n \div 16 % 16), Hex(n % 16)>>

ArmccVersion(n) == IF n >= 1000000 THEN Split(n, 100, 10000) ELSE Split(n, 10, 10000)

MsvcVersion(c) ==
  VVRR(Val(c, "_MSC_VER"))
    \o (IF ~Def(c, "_MSC_FULL_VER") THEN <<>>
        ELSE <<Dec(Val(c, "_MSC_FULL_VER")
                     % (IF Val(c, "_MSC_VER") >= 1400 THEN 10^5 ELSE 10^4))>>
               \o Optional(c, "_MSC_BUILD"))

SmallChips == {"__ICCAVR__", "__ICCRX__", "__ICCRH850__", "__ICCRL78__", "__ICC430__",
               "__ICCRISCV__", "__ICCV850__", "__ICC8051__"}
IarVersion(c) ==
  IF ~Def(c, "__VER__") THEN <<>>
  ELSE IF Def(c, "__ICCARM__") THEN Split(Val(c, "__VER__"), 1000, 1000)
  ELSE IF AnyOf(c, SmallChips) THEN VVRR(Val(c, "__VER__")) \o Each(c, <<"__SUBVERSION__">>)
  ELSE <<>>

-----------------------------------------------------------------------------
(* The chain: identification, condition and version of each group *)

\* The groups up to Cray, each of which asks for macros of one maker.
EarlyGroups(c) ==
  LET D(m) == Def(c, m)
      ibm == InC(c, "__IBMC__", "__IBMCPP__")
      sun == InC(c, "__SUNPRO_C", "__SUNPRO_CC")
      hp == InC(c, "__HP_cc", "__HP_aCC")
      dec == InC(c, "__DECC_VER", "__DECCXX_VER")
      borland == Val(c, "__BORLANDC__")
      gear == Val(c, "__CODEGEARC_VERSION__")
      watcom == Val(c, "__WATCOMC__")
  IN  << <<"Intel", AnyOf(c, {"__INTEL_COMPILER", "__ICC"}), IntelVersion(c)>>,
         <<"PathScale", D("__PATHCC__"),
           Each(c, <<"__PATHCC__", "__PATHCC_MINOR__">>) \o Optional(c, "__PATHCC_PATCHLEVEL__")>>,
         <<"Embarcadero", D("__BORLANDC__") /\ D("__CODEGEARC_VERSION__"),
           <<Hex(gear \div 2^24 % 256), Hex(gear \div 2^16 % 256), Dec(gear % 2^16)>>>>,
         <<"Borland", D("__BORLANDC__"), <<Hex(borland \div 256), Hex(borland % 256)>>>>,
         <<"Watcom", D("__WATCOMC__") /\ watcom < 1200, WatcomVersion(watcom, 0)>>,
         <<"OpenWatcom", D("__WATCOMC__"), WatcomVersion(watcom, 1100)>>,
         <<"SunPro", D(sun), SunProVersion(Val(c, sun))>>,
         <<"HP", D(hp), Split(Val(c, hp), 100, 100)>>,
         <<"Compaq", D(InC(c, "__DECC", "__DECCXX")),
           <<Dec(Val(c, dec) \div 10^7), Dec(Val(c, dec) \div 10^5 % 100), Dec(Val(c, dec) % 10^4)>>>>,
         <<"zOS", D(ibm) /\ D("__COMPILER_VER__"), VRP(Val(c, ibm))>>,
         <<"XLClang", D("__ibmxl__") /\ D("__clang__"),
           Each(c, <<"__ibmxl_version__", "__ibmxl_release__", "__ibmxl_modification__",
                     "__ibmxl_ptf_fix_level__">>)>>,
         <<"XL", D(ibm) /\ ~D("__COMPILER_VER__") /\ Val(c, ibm) >= 800, VRP(Val(c, ibm))>>,
         <<"VisualAge", D(ibm) /\ ~D("__COMPILER_VER__") /\ Val(c, ibm) < 800, VRP(Val(c, ibm))>>,
         <<"PGI", D("__PGI"),
           Each(c, <<"__PGIC__", "__PGIC_MINOR__">>) \o Optional(c, "__PGIC_PATCHLEVEL__")>>,
         <<"Cray", D("_CRAYC"), Each(c, <<"_RELEASE_MAJOR", "_RELEASE_MINOR">>)>> >>

MiddleGroups(c) ==
  LET arm == Val(c, "__ARMCC_VERSION")
  IN  << <<"TI", Def(c, "__TI_COMPILER_VERSION__"), Split(Val(c, "__TI_COMPILER_VERSION__"), 1000, 1000)>>,
         <<"Fujitsu", AnyOf(c, {"__FUJITSU", "__FCC_VERSION", "__fcc_version"}), <<>>>>,
         <<"GHS", Def(c, "__ghs__"),
           IF Def(c, "__GHS_VERSION_NUMBER") THEN VRP(Val(c, "__GHS_VERSION_NUMBER")) ELSE <<>>>> >>
      \o (IF c.language = "CXX" THEN <<>>
          ELSE << <<"TinyCC", Def(c, "__TINYC__"), <<>>>>, <<"Bruce", Def(c, "__BCC__"), <<>>>> >>)
      \o << <<"SCO", Def(c, "__SCO_VERSION__"), <<>>>>,
            <<"ARMCC", Def(c, "__ARMCC_VERSION") /\ ~Def(c, "__clang__"), ArmccVersion(arm)>> >>

\* The groups that ask for the macro of Clang and for one of their own.
ClangsByName(c) ==
  << <<"AppleClang", Def(c, "__clang__") /\ Def(c, "__apple_build_version__"),
       ClangVersion(c) \o Each(c, <<"__apple_build_version__">>)>>,
     <<"ARMClang", Def(c, "__clang__") /\ Def(c, "__ARMCOMPILER_VERSION"),
       Split(Val(c, "__ARMCOMPILER_VERSION"), 100, 10000)>> >>

\* The groups whose macros other makers predefine as well.
CommonGroups(c) ==
  << <<"Clang", Def(c, "__clang__"), ClangVersion(c)>>,
     <<"GNU", Def(c, "__GNUC__") \/ (c.language = "CXX" /\ Def(c, "__GNUG__")), GnuVersion(c)>>,
     <<"MSVC", Def(c, "_MSC_VER"), MsvcVersion(c)>> >>

LastGroups(c) ==
  LET dsp == Val(c, "__VISUALDSPVERSION__")
  IN  << <<"ADSP", AnyOf(c, {"__VISUALDSPVERSION__", "__ADSPBLACKFIN__", "__ADSPTS__", "__ADSP21000__"}),
           IF Def(c, "__VISUALDSPVERSION__")
           THEN <<Hex(dsp \div 2^24), Hex(dsp \div 2^16 % 256), Hex(dsp \div 2^8 % 256)>> ELSE <<>>>>,
         <<"IAR", AnyOf(c, {"__IAR_SYSTEMS_ICC__", "__IAR_SYSTEMS_ICC"}), IarVersion(c)>> >>
      \o (IF c.language = "CXX" THEN <<>>
          ELSE << <<"SDCC", AnyOf(c, {"__SDCC_VERSION_MAJOR", "SDCC"}),
                    IF Def(c, "__SDCC_VERSION_MAJOR")
                    THEN Each(c, <<"__SDCC_VERSION_MAJOR", "__SDCC_VERSION_MINOR", "__SDCC_VERSION_PATCH">>)
                    ELSE VRP(Val(c, "SDCC"))>> >>)
      \o << <<"HP", AnyOf(c, {"__hpux", "__hpua"}), <<>>>>, <<"", TRUE, <<>>>> >>

Comeau(c) ==
  IF c.language = "C" THEN <<>>
  ELSE << <<"Comeau", Def(c, "__COMO__"), VVRR(Val(c, "__COMO_VERSION__"))>> >>

\* Variant for the model check: the group of Clang comes before those that extend it.
ChainClangFirst(c) ==
  Comeau(c) \o EarlyGroups(c) \o MiddleGroups(c) \o CommonGroups(c) \o ClangsByName(c) \o LastGroups(c)

Chain(c) ==
  Comeau(c) \o EarlyGroups(c) \o MiddleGroups(c) \o ClangsByName(c) \o CommonGroups(c) \o LastGroups(c)

Holds(c, i) == Chain(c)[i][2]
Winner(c) ==
  LET chain == Chain(c)
  IN  CHOOSE i \in DOMAIN chain : chain[i][2] /\ \A j \in 1..(i - 1) : ~chain[j][2]

\* The compiler that is imitated, as far as the winning group looks for it; where two
\* are, the definitions that come last count.
Simulated(c, id) ==
  LET msvc == id \in {"Intel", "AppleClang", "Clang"} /\ Def(c, "_MSC_VER")
      none == [id |-> "", version |-> <<>>]
  IN  IF id = "Intel" /\ Def(c, "__GNUC__") THEN [id |-> "GNU", version |-> GnuVersion(c)]
      ELSE IF msvc THEN [id |-> "MSVC", version |-> VVRR(Val(c, "_MSC_VER"))] ELSE none

-----------------------------------------------------------------------------
Init == real \in Compilers /\ compiler = NotYet /\ simulate = NotYet

Identify ==
  /\ compiler = NotYet
  /\ LET won == Chain(real)[Winner(real)]
     IN  compiler' = [id |-> won[1], version |-> won[3]] /\ simulate' = Simulated(real, won[1])
  /\ UNCHANGED real

Next == Identify
Spec == Init /\ [][Next]_vars

-----------------------------------------------------------------------------
(* Properties *)

\* Who may be announced to stand in for whom.
Imitates(id) == CASE id = "Intel" -> {"GNU", "MSVC"}
                  [] id \in {"AppleClang", "Clang"} -> {"MSVC"} [] OTHER -> {}

\* A group is not reached when an earlier one asks for less, and most macros of the
\* common groups are predefined by several makers.  No compiler is announced by a
\* group that asks for a part only of what another group, true as well, asks for (the
\* winner would hide that group for ever), nor as one that it is said to imitate; and
\* the version it announces for the imitated compiler is the one that compiler's own
\* group would announce, as far as it goes.
OwnName ==
  compiler # NotYet =>
    LET n == Winner(real)
        chain == Chain(real)
    IN  /\ \A i \in DOMAIN chain \ {n} :
             chain[i][2] =>
               /\ \E c \in Compilers : c.language = real.language /\ Holds(c, i) /\ ~Holds(c, n)
               /\ compiler.id \notin Imitates(chain[i][1])
        /\ simulate.id # "" =>
             \E i \in DOMAIN chain :
               chain[i][1] = simulate.id /\ chain[i][2]
                 /\ SubSeq(chain[i][3], 1, Len(simulate.version)) = simulate.version

\* v comes before w, component by component.
Before(v, w) ==
  \E i \in DOMAIN w :
    /\ \A j \in 1..(i - 1) : j \in DOMAIN v /\ v[j] = w[j]
    /\ i \in DOMAIN v => v[i] < w[i]

\* c is an earlier release than d: the same macros, none with a larger number.
Earlier(c, d) ==
  /\ c.language = d.language /\ c.common = d.common /\ c.own # d.own
  /\ DOMAIN c.own = DOMAIN d.own
  /\ \A m \in DOMAIN c.own : c.own[m] <= d.own[m]

\* What the macros that many makers predefine say alone.
Bare(c) == [c EXCEPT !.own = [m \in {} |-> 0]]

\* The makers encode a version in a number each in its own way, some of them in
\* another way since some release; the build compares what is announced.  A compiler
\* known by macros of its maker, and announced with the same identification as an
\* earlier release of it, is announced with a later version, also across a change of
\* the encoding.
LaterVersion ==
  compiler # NotYet =>
    \A c \in Compilers :
      LET group == Chain(c)[Winner(c)]
      IN  /\ Earlier(c, real)
          /\ group[1] = compiler.id
          /\ Chain(c)[Winner(Bare(c))][1] # compiler.id
          => Before(group[3], compiler.version)

\* What the build learns of its compiler: no compiler goes by the name of another one, and
\* releases are told in their order.
Recognised == OwnName /\ LaterVersion
=============================================================================
