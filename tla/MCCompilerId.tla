--------------------------- MODULE MCCompilerId ---------------------------
(* The macros of each group of the file, with numbers around the places where *)
(* the encodings change, and the macros of GNU, Clang and MSVC beside them.   *)
EXTENDS CompilerId, TLC

On(ms) == [m \in ms |-> 1]
Nothing == On({})
Set(m, ns) == { m :> n : n \in ns }
With(owns, macros) == { own @@ macros : own \in owns }

\* What the makers predefine to be taken for others.
Gnu == { ("__GNUC__" :> v[1]) @@ ("__GNUC_MINOR__" :> v[2]) @@ ("__GNUC_PATCHLEVEL__" :> v[3]) :
           v \in {<<4, 2, 1>>, <<9, 2, 11>>, <<9, 10, 0>>} }
Clang == { ("__clang__" :> 1) @@ ("__clang_major__" :> v[1]) @@ ("__clang_minor__" :> v[2])
             @@ ("__clang_patchlevel__" :> v[3]) : v \in {<<4, 0, 1>>, <<10, 0, 0>>} }
Msvc == { ("_MSC_VER" :> v[1]) @@ ("_MSC_FULL_VER" :> v[2]) :
            v \in {<<1310, 13103077>>, <<1310, 13106030>>, <<1400, 140050727>>,
                   <<1916, 191627030>>, <<1924, 192428316>>} }
Common == { g @@ c @@ m : g \in {Nothing} \cup {v \in Gnu : v["__GNUC__"] = 4},
                          c \in {Nothing} \cup {v \in Clang : v["__clang_major__"] = 10},
                          m \in {Nothing} \cup Set("_MSC_VER", {1924}) }

Intel == { ("__INTEL_COMPILER" :> v[1]) @@ ("__INTEL_COMPILER_BUILD_DATE" :> v[2]) :
             v \in {<<910, 20060706>>, <<1010, 20080112>>, <<1110, 20090827>>, <<1110, 20100414>>} }
IntelUpdate == { ("__INTEL_COMPILER" :> v[1]) @@ ("__INTEL_COMPILER_UPDATE" :> v[2]) :
                   v \in {<<1500, 3>>, <<1910, 0>>, <<1910, 2>>} }
Embarcadero == With(Set("__CODEGEARC_VERSION__", {6 * 2^24 + 80 * 2^16 + 9, 6 * 2^24 + 96 * 2^16 + 2}),
                    On({"__BORLANDC__"}))
Ibm(m) == Set(m, {700, 799, 800, 1210})
XLClang == { ("__ibmxl__" :> 1) @@ ("__ibmxl_version__" :> 16) @@ ("__ibmxl_release__" :> 1)
               @@ ("__ibmxl_modification__" :> v[1]) @@ ("__ibmxl_ptf_fix_level__" :> v[2]) :
               v \in {<<0, 9>>, <<1, 3>>} }
Pairs(a, b) == { (a :> v[1]) @@ (b :> v[2]) : v \in {<<3, 2>>, <<3, 10>>, <<18, 4>>} }
Iar == With({ ("__VER__" :> n) @@ ("__ICCARM__" :> 1) : n \in {7080004, 8040001, 8040002} }
              \cup { ("__VER__" :> v[1]) @@ ("__SUBVERSION__" :> v[2]) @@ ("__ICCAVR__" :> 1) :
                       v \in {<<629, 3>>, <<712, 1>>, <<712, 10>>} }
              \cup Set("__VER__", {100}), On({"__IAR_SYSTEMS_ICC__"}))

InBoth ==
  {Nothing, On({"__ICC"}), On({"__FUJITSU"}), On({"__ghs__"}), On({"__SCO_VERSION__"}),
   On({"__ADSPBLACKFIN__"}), On({"__hpux"})}
  \cup Intel \cup IntelUpdate \cup Embarcadero \cup XLClang \cup Iar
  \cup Set("__BORLANDC__", {1312, 1361, 1376})                                    \* 0x520, 0x551, 0x560
  \cup Set("__WATCOMC__", {1050, 1051, 1100, 1199, 1200, 1290, 1291, 1300})
  \cup Pairs("__PATHCC__", "__PATHCC_MINOR__")
  \cup With(Pairs("__PGIC__", "__PGIC_MINOR__"), On({"__PGI"}))
  \cup With(Pairs("_RELEASE_MAJOR", "_RELEASE_MINOR"), On({"_CRAYC"}))
  \cup Set("__TI_COMPILER_VERSION__", {6001002, 18001003, 18012003})
  \cup With(Set("__GHS_VERSION_NUMBER", {424, 201714, 201815}), On({"__ghs__"}))
  \cup Set("__ARMCC_VERSION", {400771, 410561, 5060020, 5060750})
  \cup { ("__ARMCC_VERSION" :> n) @@ ("__ARMCOMPILER_VERSION" :> n) : n \in {6060001, 6140001} }
  \cup Set("__apple_build_version__", {8000042, 11030032})
  \cup With(Set("__VISUALDSPVERSION__", {5 * 2^24, 5 * 2^24 + 2^16 + 2^9}), On({"__ADSPTS__"}))

OwnC ==
  Set("__SUNPRO_C", {1408, 1424, 20736, 20768, 20787})      \* 0x580, 0x590, 0x5100, 0x5120, 0x5133
  \cup Set("__HP_cc", {52500, 61400, 61520}) \cup Ibm("__IBMC__")
  \cup With(Ibm("__IBMC__"), On({"__COMPILER_VER__"}))
  \cup With(Set("__DECC_VER", {60590207, 70390015, 70490015}), On({"__DECC"}))
  \cup {On({"__TINYC__"}), On({"__BCC__"})} \cup Set("SDCC", {250, 360})
  \cup { On({"__SDCC_VERSION_MAJOR"}) @@ ("__SDCC_VERSION_MINOR" :> n) : n \in {9, 10} }

OwnCXX ==
  Set("__SUNPRO_CC", {1408, 1424, 20736, 20768, 20787})
  \cup Set("__HP_aCC", {33100, 61400, 61520}) \cup Ibm("__IBMCPP__")
  \cup With(Ibm("__IBMCPP__"), On({"__COMPILER_VER__"}))
  \cup With(Set("__DECCXX_VER", {60590207, 70390015, 70490015}), On({"__DECCXX"}))
  \cup With(Set("__COMO_VERSION__", {429, 430, 433}), On({"__COMO__"}))
  \cup With(Gnu, "__GNUG__" :> 9)

Given(language, owns, commons) ==
  { [language |-> language, own |-> own, common |-> common] : own \in owns, common \in commons }

MCCompilers ==
  Given("C", InBoth \cup OwnC, Common) \cup Given("CXX", InBoth \cup OwnCXX, Common)
  \cup Given("C", Gnu \cup Clang \cup Msvc, {Nothing}) \cup Given("CXX", Clang \cup Msvc, {Nothing})
  \cup Given("C", Set("__GNUC__", {2, 3}), {Nothing})
  \cup Given("C", With(Msvc, "_MSC_BUILD" :> 1), {Nothing})
=============================================================================
