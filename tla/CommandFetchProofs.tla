------------------------- MODULE CommandFetchProofs -------------------------
(***************************************************************************)
(* What the NPU's registers hold while lists are fetched, for every        *)
(* address of 32 bits, every number of jobs, and whatever the lists of all *)
(* generators have left in the registers before.  An rk3588 job that       *)
(* starts finds its own multiplication there, nothing of a job before, and *)
(* no reserved bit set; the other two generators configure the cube of     *)
(* their call; every command names a register of its unit, but for the     *)
(* exceptions of RegistersExist; no list says two things of one register.  *)
(***************************************************************************)
EXTENDS CommandListProofs

-----------------------------------------------------------------------------
(* What the registers hold is what the list fetched so far has told them,  *)
(* but for what is left of the lists before.                               *)
FetchInv ==
  /\ job \in Requests
  /\ list = Commands(job)
  /\ pos \in 0..Len(list)
  /\ jobs \in 1..MaxJobs
  /\ \A key \in DOMAIN file : file[key] \subseteq Low(32)
  /\ \A key \in (DOMAIN file \cap Known) \ Enables :
       key[1] \in Units => \E r \in Config : key = Place(r)
  /\ \A i \in 1..pos : Writes(list[i]) => Key(list[i]) \in fresh
  /\ \A key \in fresh :
       /\ key \in DOMAIN file
       /\ \E i \in 1..pos :
            Writes(list[i]) /\ Key(list[i]) = key /\ file[key] = ValueOf(list[i])

(* The list of a request is a list of some length.                         *)
LEMMA ListLength ==
  list = Commands(job) /\ job \in Requests => Len(list) \in Nat /\ DOMAIN list = 1..Len(list)
BY CommandsAreLists DEF IsSeq

(* It holds when the first list is loaded.                                 *)
LEMMA FetchInit == Init => FetchInv
<1> SUFFICES ASSUME Init PROVE FetchInv
  OBVIOUS
<1>1. Len(list) \in Nat
  BY ListLength DEF Init
<1>2. DOMAIN file = {}
  BY DEF Init
<1> QED
  BY <1>1, <1>2, JobsAssumption DEF Init, FetchInv

(* Fetching a command keeps it, and so does the next job.                  *)
LEMMA FetchStep == FetchInv /\ [Next]_vars => FetchInv'
<1> SUFFICES ASSUME FetchInv, [Next]_vars PROVE FetchInv'
  OBVIOUS
<1>0. Len(list) \in Nat
  BY ListLength DEF FetchInv
<1>1. CASE Fetch
  <2> DEFINE cmd == list[pos']
  <2>1. /\ pos \in Nat /\ pos < Len(list) /\ pos' = pos + 1
        /\ job' = job /\ list' = list /\ jobs' = jobs
    BY <1>0, <1>1 DEF Fetch, FetchInv
  <2>2. pos' \in 0..Len(list)
    BY <1>0, <2>1
  <2>3. CASE ~Writes(cmd)
    <3>1. file' = file /\ fresh' = fresh
      BY <1>1, <2>3 DEF Fetch
    <3>2. ASSUME NEW i \in 1..pos', Writes(list[i]) PROVE Key(list[i]) \in fresh
      <4>1. i # pos'
        BY <2>3, <3>2
      <4>2. i \in 1..pos
        BY <2>1, <4>1
      <4> QED
        BY <3>2, <4>2 DEF FetchInv
    <3>3. 1..pos \subseteq 1..pos'
      BY <2>1
    <3> QED
      BY <2>1, <2>2, <3>1, <3>2, <3>3 DEF FetchInv
  <2>4. CASE Writes(cmd)
    <3> DEFINE new == Key(cmd)
    <3>1. /\ file' = [key \in DOMAIN file \cup {new} |->
                        IF key = new THEN ValueOf(cmd) ELSE file[key]]
          /\ fresh' = fresh \cup {new}
      BY <1>1, <2>4 DEF Fetch
    <3>2. pos' \in 1..pos' /\ 1..pos \subseteq 1..pos' /\ \A i \in 1..pos' : i # pos' =>
              i \in 1..pos
      BY <2>1
    <3>3. ValueOf(cmd) \subseteq Low(32)
      BY DEF ValueOf
    <3>4. new \in DOMAIN file' /\ file'[new] = ValueOf(list[pos'])
      BY <3>1
    <3>5. \A key \in DOMAIN file : key # new => key \in DOMAIN file' /\ file'[key] = file[key]
      BY <3>1
    <3>6. \A key \in DOMAIN file' : key = new \/ key \in DOMAIN file
      BY <3>1
    <3>7. Writes(list[pos']) /\ Key(list[pos']) = new
      BY <2>4
    <3>8. \A key \in fresh' : key = new \/ key \in fresh
      BY <3>1
    <3>9. fresh \subseteq fresh' /\ new \in fresh'
      BY <3>1
    <3> HIDE DEF cmd, new
    <3>10. \A key \in DOMAIN file' : file'[key] \subseteq Low(32)
      BY <3>3, <3>4, <3>5, <3>6, <3>1 DEF FetchInv
    <3>13. ASSUME NEW key \in (DOMAIN file' \cap Known) \ Enables, key[1] \in Units
           PROVE  \E r \in Config : key = Place(r)
      <4>1. CASE key = new
        <5>1. pos' \in 1..Len(list) /\ list[pos'] \in CommandsIn(list)
          BY <1>0, <2>1, ListLength DEF FetchInv, CommandsIn
        <5>2. AllSay(list, JobWord(job))
          BY ListsSay DEF FetchInv
        <5> QED
          BY <3>7, <3>13, <4>1, <5>1, <5>2, SaidInConfig
      <4>2. CASE key # new
        <5>1. key \in (DOMAIN file \cap Known) \ Enables
          BY <3>6, <3>13, <4>2
        <5> QED
          BY <3>13, <5>1 DEF FetchInv
      <4> QED
        BY <4>1, <4>2
    <3>11. ASSUME NEW i \in 1..pos', Writes(list[i]) PROVE Key(list[i]) \in fresh'
      BY <3>2, <3>7, <3>9, <3>11 DEF FetchInv
    <3>12. ASSUME NEW key \in fresh'
           PROVE  /\ key \in DOMAIN file'
                  /\ \E i \in 1..pos' :
                         Writes(list[i]) /\ Key(list[i]) = key /\ file'[key] = ValueOf(list[i])
      <4>1. CASE key = new
        BY <3>2, <3>4, <3>7, <4>1
      <4>2. CASE key # new
        <5>1. key \in fresh
          BY <3>8, <4>2
        <5>2. key \in DOMAIN file
          BY <5>1 DEF FetchInv
        <5>3. PICK i \in 1..pos :
                  Writes(list[i]) /\ Key(list[i]) = key /\ file[key] = ValueOf(list[i])
          BY <5>1 DEF FetchInv
        <5>4. i \in 1..pos'
          BY <3>2
        <5> QED
          BY <3>5, <4>2, <5>2, <5>3, <5>4
      <4> QED
        BY <4>1, <4>2
    <3> QED
      BY <2>1, <2>2, <3>10, <3>11, <3>12, <3>13 DEF FetchInv
  <2> QED
    BY <2>3, <2>4
<1>2. CASE NextJob
  <2>1. job' \in Requests /\ list' = Commands(job') /\ pos' = 0 /\ fresh' = {} /\ file' = file
    BY <1>2 DEF NextJob, Load
  <2>2. jobs' \in 1..MaxJobs
    BY <1>2, JobsAssumption DEF NextJob, FetchInv
  <2>3. Len(list') \in Nat
    BY <2>1, CommandsAreLists DEF IsSeq
  <2> QED
    BY <2>1, <2>2, <2>3 DEF FetchInv
<1>3. CASE UNCHANGED vars
  BY <1>3 DEF vars, FetchInv
<1> QED
  BY <1>1, <1>2, <1>3 DEF Next

(* So it always holds.                                                     *)
LEMMA FetchInvariant == Spec => []FetchInv
BY FetchInit, FetchStep, PTL DEF Spec

-----------------------------------------------------------------------------
(* The commands that a job has fetched are of its list, and say its words. *)
LEMMA Fetched ==
  FetchInv => /\ AllSay(list, JobWord(job))
              /\ \A i \in 1..Len(list) : list[i] \in CommandsIn(list)
              /\ job.gen # "full" /\ StridesFit =>
                   \A i \in 1..Len(list) : Reaches(job.gen, list[i])
<1> SUFFICES ASSUME FetchInv
             PROVE  /\ AllSay(list, JobWord(job))
                    /\ \A i \in 1..Len(list) : list[i] \in CommandsIn(list)
                    /\ job.gen # "full" /\ StridesFit =>
                         \A i \in 1..Len(list) : Reaches(job.gen, list[i])
  OBVIOUS
<1>1. job \in Requests /\ list = Commands(job)
  BY DEF FetchInv
<1>2. \A i \in 1..Len(list) : list[i] \in CommandsIn(list)
  BY <1>1, ListLength DEF CommandsIn
<1> QED
  BY <1>1, <1>2, ListsSay

(* When an rk3588 list has been fetched, every configuration register has  *)
(* been written by it, whatever the lists before it left there.            *)
LEMMA ConfigFresh == FetchInv /\ Ended("rk3588") => \A r \in Config : Place(r) \in fresh
<1> SUFFICES ASSUME FetchInv, Ended("rk3588"), NEW r \in Config
             PROVE  Place(r) \in fresh
  OBVIOUS
<1>1. list = Rk3588!gen_matmul_task(job.call)
  BY DEF FetchInv, Ended, Commands, Small!SmallPrograms
<1>2. DOMAIN list = 1..pos
  BY ListLength DEF FetchInv, Ended
<1>3. SentCmd(job.call, r) \in CommandsIn(list)
  BY <1>1, TaskCovers DEF TaskRegs
<1>4. PICK i \in 1..pos : list[i] = SentCmd(job.call, r)
  BY <1>2, <1>3 DEF CommandsIn
<1> QED
  BY <1>4, SentLands DEF FetchInv

(* A register that has been written, among those that are set, holds the   *)
(* word of the job.                                                        *)
LEMMA FreshHold ==
  FetchInv => \A r \in Settings : Place(r) \in fresh => file[Place(r)] = JobWord(job)[r]
<1> SUFFICES ASSUME FetchInv, NEW r \in Settings, Place(r) \in fresh
             PROVE  file[Place(r)] = JobWord(job)[r]
  OBVIOUS
<1>1. PICK i \in 1..pos : /\ Writes(list[i]) /\ Key(list[i]) = Place(r)
                          /\ file[Place(r)] = ValueOf(list[i])
  BY DEF FetchInv
<1>2. i \in 1..Len(list)
  BY ListLength DEF FetchInv
<1>3. AllSay(list, JobWord(job)) /\ list[i] \in CommandsIn(list)
  BY <1>2, Fetched
<1> QED
  BY <1>1, <1>3, SaidOfSetting

(* A register that configures a job holds the word that the list said.     *)
LEMMA WordsArrive ==
  ASSUME FetchInv, Ended("rk3588"), NEW r \in DOMAIN Sent(job.call)
  PROVE  file[Place(r)] = Cut(Sent(job.call)[r], 32)
<1>1. r \in Config /\ r \in Settings
  BY SentNames, CnaNames, CoreNames, DpuNames DEF Config, Settings
<1>2. file[Place(r)] = JobWord(job)[r]
  BY <1>1, ConfigFresh, FreshHold
<1>3. JobWord(job) = RkWord(job.call)
  BY DEF JobWord, Ended
<1>4. RkWord(job.call)[r] = Cut(Word(job.call, r), 32)
  BY <1>1 DEF RkWord
<1>5. Word(job.call, r) = Sent(job.call)[r]
  BY WordIs
<1> QED
  BY <1>2, <1>3, <1>4, <1>5

-----------------------------------------------------------------------------
(* The numbers of a call within the widths of the fields.                  *)
LEMMA PartBits ==
  ASSUME NEW x, NEW w \in Nat, NEW s \in Nat, NEW i \in Nat
  PROVE  i \in Rk3588!F(x, w, s) <=> i - s \in Bits(x) /\ i - s \in Low(w)
<1>1. Rk3588!F(x, w, s) = Shl(Bits(x) \cap Low(w), s)
  BY SameWords DEF Rk3588!F
<1>2. Bits(x) \cap Low(w) \in SUBSET Nat
  BY BitsAreWords DEF IsWord
<1>3. i \in Shl(Bits(x) \cap Low(w), s) <=> i - s \in Bits(x) \cap Low(w)
  BY <1>2, ShiftedBits
<1> QED
  BY <1>1, <1>3

(* Elements have one byte or two.                                          *)
LEMMA Elements == \A c : Elem(c) \in {1, 2}
BY DEF Elem

(* The numbers of bytes of a kernel, of all kernels, and of the input      *)
(* cube.                                                                   *)
LEMMA Products ==
  ASSUME NEW x \in Nat, NEW y \in Nat, NEW z \in Nat, NEW e \in {1, 2},
         1 <= x, x <= 1022, 1 <= y, y <= 16384, 1 <= z, z <= 8192
  PROVE  /\ y * e \in Nat /\ 1 <= y * e /\ y * e <= 32768
         /\ y * e * z \in Nat /\ 1 <= y * e * z /\ y * e * z <= 268435456
         /\ x * y * e \in Nat /\ 1 <= x * y * e /\ x * y * e <= 33488896
<1>1. PICK b : b = y * e
  OBVIOUS
<1>2. b \in Nat /\ 1 <= b /\ b <= 32768
  BY <1>1
<1>3. b * z \in Nat /\ 1 * z <= b * z /\ b * z <= 32768 * z
  BY <1>2
<1>4. x * b \in Nat /\ 1 * b <= x * b /\ x * b <= 1022 * b
  BY <1>2
<1>5. PICK p : p = b * z
  OBVIOUS
<1>6. PICK q : q = x * b
  OBVIOUS
<1>7. p \in Nat /\ 1 <= p /\ p <= 268435456
  BY <1>3, <1>5
<1>8. q \in Nat /\ 1 <= q /\ q <= 33488896
  BY <1>2, <1>4, <1>6
<1>9. y * e * z = p /\ x * y * e = q
  BY <1>1, <1>5, <1>6
<1> QED
  BY <1>1, <1>2, <1>7, <1>8, <1>9

(* The sizes within the fields.                                            *)
LEMMA SizeBounds ==
  SizesFit =>
    /\ \A i \in Ms : i \in Nat /\ 1 <= i /\ i <= 1022
    /\ \A i \in Ks : i \in Nat /\ 1 <= i /\ i <= 16384
    /\ \A i \in Ns : i \in Nat /\ 1 <= i /\ i <= 8192
<1> SUFFICES ASSUME SizesFit
             PROVE  /\ \A i \in Ms : i \in Nat /\ 1 <= i /\ i <= 1022
                    /\ \A i \in Ks : i \in Nat /\ 1 <= i /\ i <= 16384
                    /\ \A i \in Ns : i \in Nat /\ 1 <= i /\ i <= 8192
  OBVIOUS
<1>1. \A i \in Ms : i \in Nat /\ 1 <= i /\ i <= 1022
  <2>1. Ms \subseteq 1..1022
    BY SMTT(90) DEF SizesFit
  <2> TAKE i \in Ms
  <2>2. i \in 1..1022
    BY <2>1
  <2> QED
    BY <2>2
<1>2. \A i \in Ks : i \in Nat /\ 1 <= i /\ i <= 16384
  <2>1. Ks \subseteq 1..16384
    BY SMTT(90) DEF SizesFit
  <2> TAKE i \in Ks
  <2>2. i \in 1..16384
    BY SMTT(90), <2>1
  <2> QED
    BY <2>2
<1>3. \A i \in Ns : i \in Nat /\ 1 <= i /\ i <= 8192
  <2>1. Ns \subseteq 1..8192
    BY SMTT(90) DEF SizesFit
  <2> TAKE i \in Ns
  <2>2. i \in 1..8192
    BY <2>1
  <2> QED
    BY <2>2
<1> QED
  BY <1>1, <1>2, <1>3

(* What the generator computes from the sizes is what JobInRegisters says: *)
(* nothing wraps around, and the banks given to the input hold it.         *)
LEMMA CallNumbers ==
  ASSUME SizesFit, NEW c \in Calls, DataFits(c),
         NEW m, NEW k, NEW n, NEW e, NEW d,
         m = c.m, k = c.k, n = c.n, e = Elem(c), d = Rk3588!FdBanks(c)
  PROVE  /\ m \in Nat /\ 1 <= m /\ m <= 1022
         /\ k \in Nat /\ 1 <= k /\ k <= 16384
         /\ n \in Nat /\ 1 <= n /\ n <= 8192
         /\ Rk3588!FeatureGrains(c) = m + 1
         /\ Rk3588!LastRow(c) = m - 1
         /\ Rk3588!LastKernel(c) = n - 1
         /\ Rk3588!KernelBytes(c) = k * e
         /\ k * e \in Nat /\ k * e <= 32768
         /\ Rk3588!WeightBytes(c) = k * e * n
         /\ k * e * n \in Nat /\ k * e * n <= 268435456
         /\ d \in Nat /\ 1 <= d /\ d <= 11
         /\ d * BankSize >= m * k * e
<1>1. /\ m \in Nat /\ 1 <= m /\ m <= 1022
      /\ k \in Nat /\ 1 <= k /\ k <= 16384
      /\ n \in Nat /\ 1 <= n /\ n <= 8192
  <2>1. m \in Ms /\ k \in Ks /\ n \in Ns
    BY DEF Calls
  <2> QED
    BY <2>1, SizeBounds
<1>2. e \in {1, 2}
  BY Elements
<1>3. U32 \in Nat /\ 2147450880 < U32
  BY WidthsAssumption DEF SizesFit
<1>4. PICK kb : kb = k * e
  OBVIOUS
<1>5. PICK wb : wb = kb * n
  OBVIOUS
<1>6. PICK fd : fd = m * k * e
  OBVIOUS
<1>7. /\ kb \in Nat /\ kb <= 32768
      /\ wb \in Nat /\ wb <= 268435456
      /\ fd \in Nat /\ 1 <= fd /\ fd <= 33488896
  BY <1>1, <1>2, <1>4, <1>5, <1>6, Products
<1>8. kb % U32 = kb /\ wb % U32 = wb /\ fd % U32 = fd
  <2>1. \A x \in Nat : x < U32 => x % U32 = x
    BY <1>3
  <2>2. kb < U32 /\ wb < U32 /\ fd < U32
    BY <1>3, <1>7
  <2> QED
    BY <1>7, <2>1, <2>2
<1>9. Rk3588!Elem(c) = e
  BY DEF Elem, Rk3588!Elem
<1>10. Rk3588!KernelBytes(c) = kb
  BY <1>4, <1>8, <1>9 DEF Rk3588!KernelBytes
<1>11. Rk3588!WeightBytes(c) = wb
  BY <1>5, <1>8, <1>10 DEF Rk3588!WeightBytes
<1>12. /\ Rk3588!FeatureGrains(c) = m + 1
       /\ Rk3588!LastRow(c) = m - 1
       /\ Rk3588!LastKernel(c) = n - 1
  <2>1. U16 = 65536
    BY DEF SizesFit
  <2>2. (m + 1) % 65536 = m + 1 /\ (m - 1) % 65536 = m - 1 /\ (n - 1) % 65536 = n - 1
    BY <1>1
  <2> QED
    BY SMTT(90), <2>1, <2>2 DEF Rk3588!FeatureGrains, Rk3588!LastRow, Rk3588!LastKernel
<1>13. Rk3588!FdBytes(c) = fd /\ FdBytes(c) = fd
  BY <1>6, <1>8, <1>9 DEF Rk3588!FdBytes, FdBytes
<1>14. BankSize = 32768 /\ Banks = 12
  BY DEF SizesFit
<1>15. /\ d = fd \div BankSize + IF fd % BankSize = 0 THEN 0 ELSE 1
       /\ FdBanks(c) = d
  BY <1>13 DEF Rk3588!FdBanks, FdBanks, Rk3588!CeilDiv, CeilDiv
<1>16. d \in Nat /\ 1 <= d /\ d * BankSize >= fd
  <2>1. PICK q : q = fd \div 32768
    OBVIOUS
  <2>2. PICK r : r = fd % 32768
    OBVIOUS
  <2>3. q \in Nat /\ r \in Nat /\ fd = 32768 * q + r /\ r < 32768
    BY <1>7, <2>1, <2>2
  <2>4. d = q + IF r = 0 THEN 0 ELSE 1
    BY <1>14, <1>15, <2>1, <2>2
  <2>5. d \in Nat /\ 1 <= d /\ d * 32768 >= fd
    BY <1>7, <2>3, <2>4
  <2> QED
    BY <1>14, <2>5
<1>17. d <= 11
  BY <1>14, <1>15, <1>16 DEF DataFits
<1>18. k * e = kb /\ k * e * n = wb /\ m * k * e = fd
  BY <1>4, <1>5, <1>6
<1> QED
  BY <1>1, <1>7, <1>10, <1>11, <1>12, <1>16, <1>17, <1>18

(* The w bits from s on are those of the number x, or clear.               *)
Carries(word, s, w, x) == \A i \in 0..w-1 : i + s \in word <=> i \in Bits(x)
Leaves(word, s, w) == \A i \in 0..w-1 : i + s \notin word

(* A number that a field has room for.                                    *)
Fits(n, w) == n \in Nat /\ n < Power[w]

(* A field that a number was put into holds the number, if it is in no     *)
(* bit of the field that another part of the word has.                     *)
LEMMA ReadBack ==
  ASSUME NEW reg, NEW f, NEW s, NEW w, FieldIs(reg, f, s, w),
         NEW n, Fits(n, w), NEW word, IsWord(word), Carries(word, s, w, n)
  PROVE  FieldOf(reg, f, Cut(word, 32)) = Bits(n)
<1>0. /\ s \in Nat /\ w \in 0..30 /\ s + w <= 32 /\ Registers[reg].fields[f] = <<s, w>>
      /\ n \in Nat /\ n < Power[w]
  BY DEF FieldIs, Fits
<1>1. Bits(n) \in SUBSET Low(w)
  BY <1>0, BitsFit
<1>2. Cut(word, 32) \in SUBSET Nat
  BY DEF Cut, IsWord
<1>3. \A i \in 0..w-1 : i + s \in Cut(word, 32) <=> i \in Bits(n)
  BY <1>0 DEF Cut, Low, Carries
<1>4. PICK cut : cut = Cut(word, 32)
  OBVIOUS
<1>5. PICK x : x = Bits(n)
  OBVIOUS
<1>6. /\ w \in Nat /\ cut \in SUBSET Nat /\ x \in SUBSET Low(w)
      /\ \A i \in 0..w-1 : i + s \in cut <=> i \in x
  BY <1>0, <1>1, <1>2, <1>3, <1>4, <1>5
<1>7. FieldOf(reg, f, cut) = x
  BY <1>0, <1>6, FieldRead
<1> QED
  BY <1>4, <1>5, <1>7

(* The word of a register of one field.                                    *)
LEMMA ReadWhole ==
  ASSUME NEW reg, NEW f, Registers[reg].fields[f] = <<0, 32>>, NEW word \in SUBSET Low(32)
  PROVE  FieldOf(reg, f, Cut(word, 32)) = word
<1>1. Cut(word, 32) = word
  BY DEF Cut
<1>2. word \in SUBSET Nat
  BY DEF Low
<1>3. \A i \in 0..32-1 : i + 0 \in word <=> i \in word
  OBVIOUS
<1>4. FieldOf(reg, f, word) = word
  BY SMTT(90), <1>2, <1>3, FieldRead
<1> QED
  BY <1>1, <1>4

(* The same, seen from the field.                                          *)
LEMMA PartAt ==
  \A x : \A w, s, i \in Nat :
    /\ i + s \in Rk3588!F(x, w, s) <=> i \in Bits(x) /\ i < w
    /\ i < s \/ s + w <= i => i \notin Rk3588!F(x, w, s)
<1> SUFFICES ASSUME NEW x, NEW w \in Nat, NEW s \in Nat, NEW i \in Nat
             PROVE  /\ i + s \in Rk3588!F(x, w, s) <=> i \in Bits(x) /\ i < w
                    /\ i < s \/ s + w <= i => i \notin Rk3588!F(x, w, s)
  OBVIOUS
<1>1. i + s \in Rk3588!F(x, w, s) <=> (i + s) - s \in Bits(x) /\ (i + s) - s \in Low(w)
  BY PartBits
<1>2. (i + s) - s = i /\ (i \in Low(w) <=> i < w)
  BY DEF Low
<1>3. i \in Rk3588!F(x, w, s) => i - s \in Low(w)
  BY PartBits
<1>4. i < s \/ s + w <= i => i - s \notin Low(w)
  BY DEF Low
<1> QED
  BY <1>1, <1>2, <1>3, <1>4

(* A number put into a field is read from there, the rest of the word is   *)
(* left, and parts that do not overlap can be joined.                      *)
LEMMA PartCarries ==
  ASSUME NEW x, NEW v \in Nat, NEW s \in Nat, NEW w \in Nat, w <= v
  PROVE  Carries(Rk3588!F(x, v, s), s, w, x)
<1> SUFFICES ASSUME NEW i \in 0..w-1
             PROVE  i + s \in Rk3588!F(x, v, s) <=> i \in Bits(x)
  BY DEF Carries
<1>1. i \in Nat /\ i < v
  OBVIOUS
<1> QED
  BY <1>1, PartAt

(* A part that lies elsewhere leaves the field alone.                      *)
LEMMA PartLeaves ==
  ASSUME NEW x, NEW v \in Nat, NEW t \in Nat, NEW s \in Nat, NEW w \in Nat,
         t + v <= s \/ s + w <= t
  PROVE  Leaves(Rk3588!F(x, v, t), s, w)
<1> SUFFICES ASSUME NEW i \in 0..w-1
             PROVE  i + s \notin Rk3588!F(x, v, t)
  BY DEF Leaves
<1>1. i + s \in Nat /\ (i + s < t \/ t + v <= i + s)
  OBVIOUS
<1> QED
  BY <1>1, PartAt

(* A word joined of parts carries what one of them carries.                *)
LEMMA PartsCarry ==
  ASSUME NEW a, NEW b, NEW s, NEW w, NEW x, Leaves(b, s, w), Carries(a, s, w, x)
  PROVE  Carries(a \cup b, s, w, x) /\ Carries(b \cup a, s, w, x)
BY DEF Leaves, Carries

(* It leaves alone what both of them leave alone.                          *)
LEMMA PartsLeave ==
  ASSUME NEW a, NEW b, NEW s, NEW w, Leaves(a, s, w), Leaves(b, s, w)
  PROVE  Leaves(a \cup b, s, w)
BY DEF Leaves

(* A register holds a number in a field if the word sent to it does.       *)
LEMMA Held ==
  ASSUME FetchInv, Ended("rk3588"), NEW reg \in DOMAIN Sent(job.call), NEW f,
         NEW s, NEW w, FieldIs(reg, f, s, w), NEW n, Fits(n, w),
             Carries(Sent(job.call)[reg], s, w, n)
  PROVE  Holds(reg, f) = Bits(n)
<1>1. PICK word : word = Sent(job.call)[reg]
  OBVIOUS
<1>2. IsWord(word)
  BY <1>1, SentWords, WordIs
<1>3. Carries(word, s, w, n)
  BY <1>1
<1>5. FieldOf(reg, f, Cut(word, 32)) = Bits(n)
  BY <1>2, <1>3, ReadBack
<1>6. file[Place(reg)] = Cut(word, 32)
  BY <1>1, WordsArrive
<1> QED
  BY <1>5, <1>6 DEF Holds

(* A register of one field holds the word.                                 *)
LEMMA HeldWhole ==
  ASSUME FetchInv, Ended("rk3588"), NEW reg \in DOMAIN Sent(job.call), NEW f,
         WholeIs(reg, f), NEW word \in SUBSET Low(32),
         word = Sent(job.call)[reg]
  PROVE  Holds(reg, f) = word
<1>1. file[Place(reg)] = Cut(word, 32)
  BY WordsArrive
<1>2. FieldOf(reg, f, Cut(word, 32)) = word
  BY ReadWhole DEF WholeIs
<1> QED
  BY <1>1, <1>2 DEF Holds

(* The rk3588 generator accepts a call only if its data and its kernels    *)
(* fit.                                                                    *)
LEMMA RequestsFit ==
  ASSUME job \in Requests, job.gen = "rk3588"
  PROVE  job.call \in Calls /\ DataFits(job.call) /\ KernelFits(job.call)
BY DEF Requests, Small!SmallPrograms

(* What the CNA reads.                                                     *)
LEMMA CnaHolds ==
  ASSUME FetchInv, Ended("rk3588"), SizesFit,
         NEW m, NEW k, NEW n, NEW e, NEW d, NEW p,
         m = job.call.m, k = job.call.k, n = job.call.n, e = Elem(job.call),
         d = Rk3588!FdBanks(job.call), p = Rk3588!Precision(job.call)
  PROVE  /\ Holds("CNA_CONV_CON2", "FEATURE_GRAINS") = Bits(m + 1)
         /\ Holds("CNA_DATA_SIZE0", "DATAIN_HEIGHT") = Bits(m)
         /\ Holds("CNA_DATA_SIZE0", "DATAIN_WIDTH") = Bits(1)
         /\ Holds("CNA_DATA_SIZE1", "DATAIN_CHANNEL") = Bits(k)
         /\ Holds("CNA_DATA_SIZE1", "DATAIN_CHANNEL_REAL") = Bits(k - 1)
         /\ Holds("CNA_WEIGHT_SIZE1", "WEIGHT_BYTES_PER_KERNEL") = Bits(k * e)
         /\ Holds("CNA_WEIGHT_SIZE2", "WEIGHT_KERNELS") = Bits(n)
         /\ Holds("CNA_CBUF_CON0", "DATA_BANK") = Bits(d)
         /\ Holds("CNA_CBUF_CON0", "WEIGHT_BANK") = Bits(Banks - d)
<1> DEFINE c == job.call
<1>0. c \in Calls /\ DataFits(c)
  BY RequestsFit DEF FetchInv, Ended
<1>1. /\ m \in Nat /\ 1 <= m /\ m <= 1022
      /\ k \in Nat /\ 1 <= k /\ k <= 16384
      /\ n \in Nat /\ 1 <= n /\ n <= 8192
      /\ k * e \in Nat /\ k * e <= 32768
      /\ d \in Nat /\ 1 <= d /\ d <= 11
  BY <1>0, CallNumbers
<1>2. /\ Rk3588!FeatureGrains(c) = m + 1 /\ Rk3588!LastRow(c) = m - 1
      /\ Rk3588!LastKernel(c) = n - 1 /\ Rk3588!KernelBytes(c) = k * e
  BY <1>0, CallNumbers
<1>3. /\ Sent(c)["CNA_CONV_CON2"] = Rk3588!F(m + 1, 10, 4)
      /\ Sent(c)["CNA_DATA_SIZE0"] = Rk3588!F(1, 11, 16) \cup Rk3588!F(m, 11, 0)
      /\ Sent(c)["CNA_DATA_SIZE1"] = Rk3588!F(k - 1, 16, 16) \cup Rk3588!F(k, 16, 0)
      /\ Sent(c)["CNA_WEIGHT_SIZE1"] = Rk3588!F(k * e, 19, 0)
      /\ Sent(c)["CNA_WEIGHT_SIZE2"] = Rk3588!F(1, 5, 24) \cup Rk3588!F(1, 5, 16) \cup
             Rk3588!F(n, 14, 0)
      /\ Sent(c)["CNA_CBUF_CON0"] = Rk3588!F(Banks - d, 4, 4) \cup Rk3588!F(d, 4, 0)
  BY <1>2, WordsSent, SameWords DEF Rk3588!DataSize1, Rk3588!WeightKernels
<1> HIDE DEF c
<1>4. Holds("CNA_CONV_CON2", "FEATURE_GRAINS") = Bits(m + 1)
  <2>1. Carries(Rk3588!F(m + 1, 10, 4), 4, 10, m + 1)
    BY PartCarries
  <2>2. Carries(Sent(job.call)["CNA_CONV_CON2"], 4, 10, m + 1)
    BY <1>3, <2>1 DEF c
  <2>3. Fits(m + 1, 10)
    BY <1>1, PowerTable DEF Fits
  <2>4. FieldIs("CNA_CONV_CON2", "FEATURE_GRAINS", 4, 10)
    BY FieldPlaces
  <2>5. "CNA_CONV_CON2" \in DOMAIN Sent(job.call)
    BY SentNames
  <2> QED
    BY <2>2, <2>3, <2>4, <2>5, Held
<1>5. Holds("CNA_DATA_SIZE0", "DATAIN_HEIGHT") = Bits(m)
  <2>1. Leaves(Rk3588!F(1, 11, 16), 0, 11)
    BY PartLeaves
  <2>2. Carries(Rk3588!F(m, 11, 0), 0, 11, m)
    BY PartCarries
  <2>3. Carries(Rk3588!F(1, 11, 16) \cup Rk3588!F(m, 11, 0), 0, 11, m)
    BY <2>1, <2>2, PartsCarry
  <2>4. Carries(Sent(job.call)["CNA_DATA_SIZE0"], 0, 11, m)
    BY <1>3, <2>3 DEF c
  <2>5. Fits(m, 11)
    BY <1>1, PowerTable DEF Fits
  <2>6. FieldIs("CNA_DATA_SIZE0", "DATAIN_HEIGHT", 0, 11)
    BY FieldPlaces
  <2>7. "CNA_DATA_SIZE0" \in DOMAIN Sent(job.call)
    BY SentNames
  <2> QED
    BY <2>4, <2>5, <2>6, <2>7, Held
<1>6. Holds("CNA_DATA_SIZE0", "DATAIN_WIDTH") = Bits(1)
  <2>1. Carries(Rk3588!F(1, 11, 16), 16, 11, 1)
    BY PartCarries
  <2>2. Leaves(Rk3588!F(m, 11, 0), 16, 11)
    BY PartLeaves
  <2>3. Carries(Rk3588!F(1, 11, 16) \cup Rk3588!F(m, 11, 0), 16, 11, 1)
    BY <2>1, <2>2, PartsCarry
  <2>4. Carries(Sent(job.call)["CNA_DATA_SIZE0"], 16, 11, 1)
    BY <1>3, <2>3 DEF c
  <2>5. Fits(1, 11)
    BY <1>1, PowerTable DEF Fits
  <2>6. FieldIs("CNA_DATA_SIZE0", "DATAIN_WIDTH", 16, 11)
    BY FieldPlaces
  <2>7. "CNA_DATA_SIZE0" \in DOMAIN Sent(job.call)
    BY SentNames
  <2> QED
    BY <2>4, <2>5, <2>6, <2>7, Held
<1>7. Holds("CNA_DATA_SIZE1", "DATAIN_CHANNEL") = Bits(k)
  <2>1. Leaves(Rk3588!F(k - 1, 16, 16), 0, 16)
    BY PartLeaves
  <2>2. Carries(Rk3588!F(k, 16, 0), 0, 16, k)
    BY PartCarries
  <2>3. Carries(Rk3588!F(k - 1, 16, 16) \cup Rk3588!F(k, 16, 0), 0, 16, k)
    BY <2>1, <2>2, PartsCarry
  <2>4. Carries(Sent(job.call)["CNA_DATA_SIZE1"], 0, 16, k)
    BY <1>3, <2>3 DEF c
  <2>5. Fits(k, 16)
    BY <1>1, PowerTable DEF Fits
  <2>6. FieldIs("CNA_DATA_SIZE1", "DATAIN_CHANNEL", 0, 16)
    BY FieldPlaces
  <2>7. "CNA_DATA_SIZE1" \in DOMAIN Sent(job.call)
    BY SentNames
  <2> QED
    BY <2>4, <2>5, <2>6, <2>7, Held
<1>8. Holds("CNA_DATA_SIZE1", "DATAIN_CHANNEL_REAL") = Bits(k - 1)
  <2>1. Carries(Rk3588!F(k - 1, 16, 16), 16, 14, k - 1)
    BY PartCarries
  <2>2. Leaves(Rk3588!F(k, 16, 0), 16, 14)
    BY PartLeaves
  <2>3. Carries(Rk3588!F(k - 1, 16, 16) \cup Rk3588!F(k, 16, 0), 16, 14, k - 1)
    BY <2>1, <2>2, PartsCarry
  <2>4. Carries(Sent(job.call)["CNA_DATA_SIZE1"], 16, 14, k - 1)
    BY <1>3, <2>3 DEF c
  <2>5. Fits(k - 1, 14)
    BY <1>1, PowerTable DEF Fits
  <2>6. FieldIs("CNA_DATA_SIZE1", "DATAIN_CHANNEL_REAL", 16, 14)
    BY FieldPlaces
  <2>7. "CNA_DATA_SIZE1" \in DOMAIN Sent(job.call)
    BY SentNames
  <2> QED
    BY <2>4, <2>5, <2>6, <2>7, Held
<1>9. Holds("CNA_WEIGHT_SIZE1", "WEIGHT_BYTES_PER_KERNEL") = Bits(k * e)
  <2>1. Carries(Rk3588!F(k * e, 19, 0), 0, 19, k * e)
    BY PartCarries
  <2>2. Carries(Sent(job.call)["CNA_WEIGHT_SIZE1"], 0, 19, k * e)
    BY <1>3, <2>1 DEF c
  <2>3. Fits(k * e, 19)
    BY <1>1, PowerTable DEF Fits
  <2>4. FieldIs("CNA_WEIGHT_SIZE1", "WEIGHT_BYTES_PER_KERNEL", 0, 19)
    BY FieldPlaces
  <2>5. "CNA_WEIGHT_SIZE1" \in DOMAIN Sent(job.call)
    BY SentNames
  <2> QED
    BY <2>2, <2>3, <2>4, <2>5, Held
<1>10. Holds("CNA_WEIGHT_SIZE2", "WEIGHT_KERNELS") = Bits(n)
  <2>1. Leaves(Rk3588!F(1, 5, 24), 0, 14)
    BY PartLeaves
  <2>2. Leaves(Rk3588!F(1, 5, 16), 0, 14)
    BY PartLeaves
  <2>3. Leaves(Rk3588!F(1, 5, 24) \cup Rk3588!F(1, 5, 16), 0, 14)
    BY <2>1, <2>2, PartsLeave
  <2>4. Carries(Rk3588!F(n, 14, 0), 0, 14, n)
    BY PartCarries
  <2>5. Carries(Rk3588!F(1, 5, 24) \cup Rk3588!F(1, 5, 16) \cup Rk3588!F(n, 14, 0), 0, 14, n)
    BY <2>3, <2>4, PartsCarry
  <2>6. Carries(Sent(job.call)["CNA_WEIGHT_SIZE2"], 0, 14, n)
    BY <1>3, <2>5 DEF c
  <2>7. Fits(n, 14)
    BY <1>1, PowerTable DEF Fits
  <2>8. FieldIs("CNA_WEIGHT_SIZE2", "WEIGHT_KERNELS", 0, 14)
    BY FieldPlaces
  <2>9. "CNA_WEIGHT_SIZE2" \in DOMAIN Sent(job.call)
    BY SentNames
  <2> QED
    BY <2>6, <2>7, <2>8, <2>9, Held
<1>11. Holds("CNA_CBUF_CON0", "DATA_BANK") = Bits(d)
  <2>1. Leaves(Rk3588!F(Banks - d, 4, 4), 0, 4)
    BY PartLeaves
  <2>2. Carries(Rk3588!F(d, 4, 0), 0, 4, d)
    BY PartCarries
  <2>3. Carries(Rk3588!F(Banks - d, 4, 4) \cup Rk3588!F(d, 4, 0), 0, 4, d)
    BY <2>1, <2>2, PartsCarry
  <2>4. Carries(Sent(job.call)["CNA_CBUF_CON0"], 0, 4, d)
    BY <1>3, <2>3 DEF c
  <2>5. Fits(d, 4)
    BY <1>1, PowerTable DEF Fits
  <2>6. FieldIs("CNA_CBUF_CON0", "DATA_BANK", 0, 4)
    BY FieldPlaces
  <2>7. "CNA_CBUF_CON0" \in DOMAIN Sent(job.call)
    BY SentNames
  <2> QED
    BY <2>4, <2>5, <2>6, <2>7, Held
<1>12. Holds("CNA_CBUF_CON0", "WEIGHT_BANK") = Bits(Banks - d)
  <2>1. Carries(Rk3588!F(Banks - d, 4, 4), 4, 4, Banks - d)
    BY PartCarries
  <2>2. Leaves(Rk3588!F(d, 4, 0), 4, 4)
    BY PartLeaves
  <2>3. Carries(Rk3588!F(Banks - d, 4, 4) \cup Rk3588!F(d, 4, 0), 4, 4, Banks - d)
    BY <2>1, <2>2, PartsCarry
  <2>4. Carries(Sent(job.call)["CNA_CBUF_CON0"], 4, 4, Banks - d)
    BY <1>3, <2>3 DEF c
  <2>5. Fits(Banks - d, 4)
    <3>1. Banks = 12
      BY DEF SizesFit
    <3> QED
      BY SMTT(90), <1>1, <3>1, PowerTable DEF Fits
  <2>6. FieldIs("CNA_CBUF_CON0", "WEIGHT_BANK", 4, 4)
    BY FieldPlaces
  <2>7. "CNA_CBUF_CON0" \in DOMAIN Sent(job.call)
    BY SentNames
  <2> QED
    BY <2>4, <2>5, <2>6, <2>7, Held
<1> QED
  BY <1>4, <1>5, <1>6, <1>7, <1>8, <1>9, <1>10, <1>11, <1>12

(* What the CORE and the DPU write.                                        *)
LEMMA OutputHolds ==
  ASSUME FetchInv, Ended("rk3588"), SizesFit,
         NEW m, NEW k, NEW n, NEW e, NEW d, NEW p,
         m = job.call.m, k = job.call.k, n = job.call.n, e = Elem(job.call),
         d = Rk3588!FdBanks(job.call), p = Rk3588!Precision(job.call)
  PROVE  /\ Holds("CORE_DATAOUT_SIZE_0", "DATAOUT_HEIGHT") = Bits(m - 1)
         /\ Holds("CORE_DATAOUT_SIZE_1", "DATAOUT_CHANNEL") = Bits(n - 1)
         /\ Holds("DPU_DATA_CUBE_HEIGHT", "HEIGHT") = Bits(m - 1)
         /\ Holds("DPU_DATA_CUBE_CHANNEL", "CHANNEL") = Bits(n - 1)
         /\ Holds("DPU_WDMA_SIZE_0", "CHANNEL_WDMA") = Bits(n - 1)
         /\ Holds("DPU_WDMA_SIZE_1", "HEIGHT_WDMA") = Bits(m - 1)
<1> DEFINE c == job.call
<1>0. c \in Calls /\ DataFits(c)
  BY RequestsFit DEF FetchInv, Ended
<1>1. /\ m \in Nat /\ 1 <= m /\ m <= 1022
      /\ k \in Nat /\ 1 <= k /\ k <= 16384
      /\ n \in Nat /\ 1 <= n /\ n <= 8192
      /\ k * e \in Nat /\ k * e <= 32768
      /\ d \in Nat /\ 1 <= d /\ d <= 11
  BY <1>0, CallNumbers
<1>2. /\ Rk3588!FeatureGrains(c) = m + 1 /\ Rk3588!LastRow(c) = m - 1
      /\ Rk3588!LastKernel(c) = n - 1 /\ Rk3588!KernelBytes(c) = k * e
  BY <1>0, CallNumbers
<1>3. /\ Sent(c)["CORE_DATAOUT_SIZE_0"] = Rk3588!F(m - 1, 16, 16)
      /\ Sent(c)["CORE_DATAOUT_SIZE_1"] = Rk3588!F(n - 1, 16, 0)
      /\ Sent(c)["DPU_DATA_CUBE_HEIGHT"] = Rk3588!F(m - 1, 13, 0)
      /\ Sent(c)["DPU_DATA_CUBE_CHANNEL"] = Rk3588!F(n - 1, 13, 16) \cup Rk3588!F(n - 1, 13, 0)
      /\ Sent(c)["DPU_WDMA_SIZE_0"] = Rk3588!F(n - 1, 13, 0)
      /\ Sent(c)["DPU_WDMA_SIZE_1"] = Rk3588!F(m - 1, 13, 16)
  BY <1>2, WordsSent, SameWords
<1> HIDE DEF c
<1>4. Holds("CORE_DATAOUT_SIZE_0", "DATAOUT_HEIGHT") = Bits(m - 1)
  <2>1. Carries(Rk3588!F(m - 1, 16, 16), 16, 16, m - 1)
    BY PartCarries
  <2>2. Carries(Sent(job.call)["CORE_DATAOUT_SIZE_0"], 16, 16, m - 1)
    BY <1>3, <2>1 DEF c
  <2>3. Fits(m - 1, 16)
    BY <1>1, PowerTable DEF Fits
  <2>4. FieldIs("CORE_DATAOUT_SIZE_0", "DATAOUT_HEIGHT", 16, 16)
    BY FieldPlaces
  <2>5. "CORE_DATAOUT_SIZE_0" \in DOMAIN Sent(job.call)
    BY SentNames
  <2> QED
    BY <2>2, <2>3, <2>4, <2>5, Held
<1>5. Holds("CORE_DATAOUT_SIZE_1", "DATAOUT_CHANNEL") = Bits(n - 1)
  <2>1. Carries(Rk3588!F(n - 1, 16, 0), 0, 16, n - 1)
    BY PartCarries
  <2>2. Carries(Sent(job.call)["CORE_DATAOUT_SIZE_1"], 0, 16, n - 1)
    BY <1>3, <2>1 DEF c
  <2>3. Fits(n - 1, 16)
    BY <1>1, PowerTable DEF Fits
  <2>4. FieldIs("CORE_DATAOUT_SIZE_1", "DATAOUT_CHANNEL", 0, 16)
    BY FieldPlaces
  <2>5. "CORE_DATAOUT_SIZE_1" \in DOMAIN Sent(job.call)
    BY SentNames
  <2> QED
    BY <2>2, <2>3, <2>4, <2>5, Held
<1>6. Holds("DPU_DATA_CUBE_HEIGHT", "HEIGHT") = Bits(m - 1)
  <2>1. Carries(Rk3588!F(m - 1, 13, 0), 0, 13, m - 1)
    BY PartCarries
  <2>2. Carries(Sent(job.call)["DPU_DATA_CUBE_HEIGHT"], 0, 13, m - 1)
    BY <1>3, <2>1 DEF c
  <2>3. Fits(m - 1, 13)
    BY <1>1, PowerTable DEF Fits
  <2>4. FieldIs("DPU_DATA_CUBE_HEIGHT", "HEIGHT", 0, 13)
    BY FieldPlaces
  <2>5. "DPU_DATA_CUBE_HEIGHT" \in DOMAIN Sent(job.call)
    BY SentNames
  <2> QED
    BY <2>2, <2>3, <2>4, <2>5, Held
<1>7. Holds("DPU_DATA_CUBE_CHANNEL", "CHANNEL") = Bits(n - 1)
  <2>1. Leaves(Rk3588!F(n - 1, 13, 16), 0, 13)
    BY PartLeaves
  <2>2. Carries(Rk3588!F(n - 1, 13, 0), 0, 13, n - 1)
    BY PartCarries
  <2>3. Carries(Rk3588!F(n - 1, 13, 16) \cup Rk3588!F(n - 1, 13, 0), 0, 13, n - 1)
    BY <2>1, <2>2, PartsCarry
  <2>4. Carries(Sent(job.call)["DPU_DATA_CUBE_CHANNEL"], 0, 13, n - 1)
    BY <1>3, <2>3 DEF c
  <2>5. Fits(n - 1, 13)
    BY <1>1, PowerTable DEF Fits
  <2>6. FieldIs("DPU_DATA_CUBE_CHANNEL", "CHANNEL", 0, 13)
    BY FieldPlaces
  <2>7. "DPU_DATA_CUBE_CHANNEL" \in DOMAIN Sent(job.call)
    BY SentNames
  <2> QED
    BY <2>4, <2>5, <2>6, <2>7, Held
<1>8. Holds("DPU_WDMA_SIZE_0", "CHANNEL_WDMA") = Bits(n - 1)
  <2>1. Carries(Rk3588!F(n - 1, 13, 0), 0, 13, n - 1)
    BY PartCarries
  <2>2. Carries(Sent(job.call)["DPU_WDMA_SIZE_0"], 0, 13, n - 1)
    BY <1>3, <2>1 DEF c
  <2>3. Fits(n - 1, 13)
    BY <1>1, PowerTable DEF Fits
  <2>4. FieldIs("DPU_WDMA_SIZE_0", "CHANNEL_WDMA", 0, 13)
    BY FieldPlaces
  <2>5. "DPU_WDMA_SIZE_0" \in DOMAIN Sent(job.call)
    BY SentNames
  <2> QED
    BY <2>2, <2>3, <2>4, <2>5, Held
<1>9. Holds("DPU_WDMA_SIZE_1", "HEIGHT_WDMA") = Bits(m - 1)
  <2>1. Carries(Rk3588!F(m - 1, 13, 16), 16, 13, m - 1)
    BY PartCarries
  <2>2. Carries(Sent(job.call)["DPU_WDMA_SIZE_1"], 16, 13, m - 1)
    BY <1>3, <2>1 DEF c
  <2>3. Fits(m - 1, 13)
    BY <1>1, PowerTable DEF Fits
  <2>4. FieldIs("DPU_WDMA_SIZE_1", "HEIGHT_WDMA", 16, 13)
    BY FieldPlaces
  <2>5. "DPU_WDMA_SIZE_1" \in DOMAIN Sent(job.call)
    BY SentNames
  <2> QED
    BY <2>2, <2>3, <2>4, <2>5, Held
<1> QED
  BY <1>4, <1>5, <1>6, <1>7, <1>8, <1>9

(* The precision of the three.                                             *)
LEMMA PrecisionHolds ==
  ASSUME FetchInv, Ended("rk3588"), SizesFit,
         NEW m, NEW k, NEW n, NEW e, NEW d, NEW p,
         m = job.call.m, k = job.call.k, n = job.call.n, e = Elem(job.call),
         d = Rk3588!FdBanks(job.call), p = Rk3588!Precision(job.call)
  PROVE  /\ Holds("CNA_CONV_CON1", "PROC_PRECISION") = Bits(p)
         /\ Holds("CORE_MISC_CFG", "PROC_PRECISION") = Bits(p)
         /\ Holds("DPU_DATA_FORMAT", "PROC_PRECISION") = Bits(p)
<1> DEFINE c == job.call
<1>0. c \in Calls /\ DataFits(c)
  BY RequestsFit DEF FetchInv, Ended
<1>1. p \in {0, 2}
  BY DEF Rk3588!Precision
<1>3. /\ Sent(c)["CNA_CONV_CON1"] = Rk3588!F(p, 3, 7) \cup Rk3588!F(p, 3, 4)
      /\ Sent(c)["CORE_MISC_CFG"] = Rk3588!F(p, 3, 8) \cup Rk3588!F(Rk3588!QdEn(c), 1, 0)
      /\ Sent(c)["DPU_DATA_FORMAT"] = Rk3588!F(Rk3588!OutPrecision(c), 3, 29) \cup
             Rk3588!F(p, 3, 26) \cup Rk3588!F(p, 3, 0)
  BY DEF Sent
<1> HIDE DEF c
<1>4. Holds("CNA_CONV_CON1", "PROC_PRECISION") = Bits(p)
  <2>1. Carries(Rk3588!F(p, 3, 7), 7, 3, p)
    BY PartCarries
  <2>2. Leaves(Rk3588!F(p, 3, 4), 7, 3)
    BY PartLeaves
  <2>3. Carries(Rk3588!F(p, 3, 7) \cup Rk3588!F(p, 3, 4), 7, 3, p)
    BY <2>1, <2>2, PartsCarry
  <2>4. Carries(Sent(job.call)["CNA_CONV_CON1"], 7, 3, p)
    BY <1>3, <2>3 DEF c
  <2>5. Fits(p, 3)
    BY <1>1, PowerTable DEF Fits
  <2>6. FieldIs("CNA_CONV_CON1", "PROC_PRECISION", 7, 3)
    BY FieldPlaces
  <2>7. "CNA_CONV_CON1" \in DOMAIN Sent(job.call)
    BY SentNames
  <2> QED
    BY <2>4, <2>5, <2>6, <2>7, Held
<1>5. Holds("CORE_MISC_CFG", "PROC_PRECISION") = Bits(p)
  <2>1. Carries(Rk3588!F(p, 3, 8), 8, 3, p)
    BY PartCarries
  <2>2. Leaves(Rk3588!F(Rk3588!QdEn(c), 1, 0), 8, 3)
    BY PartLeaves
  <2>3. Carries(Rk3588!F(p, 3, 8) \cup Rk3588!F(Rk3588!QdEn(c), 1, 0), 8, 3, p)
    BY <2>1, <2>2, PartsCarry
  <2>4. Carries(Sent(job.call)["CORE_MISC_CFG"], 8, 3, p)
    BY <1>3, <2>3 DEF c
  <2>5. Fits(p, 3)
    BY <1>1, PowerTable DEF Fits
  <2>6. FieldIs("CORE_MISC_CFG", "PROC_PRECISION", 8, 3)
    BY FieldPlaces
  <2>7. "CORE_MISC_CFG" \in DOMAIN Sent(job.call)
    BY SentNames
  <2> QED
    BY <2>4, <2>5, <2>6, <2>7, Held
<1>6. Holds("DPU_DATA_FORMAT", "PROC_PRECISION") = Bits(p)
  <2>1. Leaves(Rk3588!F(Rk3588!OutPrecision(c), 3, 29), 0, 3)
    BY PartLeaves
  <2>2. Leaves(Rk3588!F(p, 3, 26), 0, 3)
    BY PartLeaves
  <2>3. Leaves(Rk3588!F(Rk3588!OutPrecision(c), 3, 29) \cup Rk3588!F(p, 3, 26), 0, 3)
    BY <2>1, <2>2, PartsLeave
  <2>4. Carries(Rk3588!F(p, 3, 0), 0, 3, p)
    BY PartCarries
  <2>5. Carries(Rk3588!F(Rk3588!OutPrecision(c), 3, 29) \cup Rk3588!F(p, 3, 26) \cup
            Rk3588!F(p, 3, 0), 0, 3, p)
    BY <2>3, <2>4, PartsCarry
  <2>6. Carries(Sent(job.call)["DPU_DATA_FORMAT"], 0, 3, p)
    BY <1>3, <2>5 DEF c
  <2>7. Fits(p, 3)
    BY <1>1, PowerTable DEF Fits
  <2>8. FieldIs("DPU_DATA_FORMAT", "PROC_PRECISION", 0, 3)
    BY FieldPlaces
  <2>9. "DPU_DATA_FORMAT" \in DOMAIN Sent(job.call)
    BY SentNames
  <2> QED
    BY <2>6, <2>7, <2>8, <2>9, Held
<1> QED
  BY <1>4, <1>5, <1>6

(* The registers of one field: the addresses, and the weights' bytes.      *)
LEMMA WholesHold ==
  ASSUME FetchInv, Ended("rk3588"), SizesFit,
         NEW k, NEW n, NEW e, k = job.call.k, n = job.call.n, e = Elem(job.call)
  PROVE  /\ Holds("CNA_WEIGHT_SIZE0", "VALUE") = Bits(k * e * n)
         /\ Holds("CNA_FEATURE_DATA_ADDR", "VALUE") = InputDma
         /\ Holds("CNA_DCOMP_ADDR0", "VALUE") = WeightsDma
         /\ Holds("DPU_DST_BASE_ADDR", "VALUE") = OutputDma
<1> DEFINE c == job.call
<1>0. c \in Calls /\ DataFits(c)
  BY RequestsFit DEF FetchInv, Ended
<1>1. Rk3588!WeightBytes(c) = k * e * n /\ k * e * n \in Nat
  BY <1>0, CallNumbers
<1>2. Bits(k * e * n) \in SUBSET Low(32)
  <2>1. Bits(k * e * n) \subseteq Low(32)
    BY NumberWords
  <2> QED
    BY <2>1
<1>3. InputDma \in SUBSET Low(32) /\ WeightsDma \in SUBSET Low(32) /\
          OutputDma \in SUBSET Low(32)
  BY AddressAssumption
<1>4. /\ Sent(c)["CNA_WEIGHT_SIZE0"] = Bits(k * e * n)
      /\ Sent(c)["CNA_FEATURE_DATA_ADDR"] = InputDma
      /\ Sent(c)["CNA_DCOMP_ADDR0"] = WeightsDma
      /\ Sent(c)["DPU_DST_BASE_ADDR"] = OutputDma
  BY <1>1, WordsSent, SameWords
<1>5. {"CNA_WEIGHT_SIZE0", "CNA_FEATURE_DATA_ADDR", "CNA_DCOMP_ADDR0", "DPU_DST_BASE_ADDR"}
        \subseteq DOMAIN Sent(job.call)
  BY SentNames
<1> HIDE DEF c
<1>6. Holds("CNA_WEIGHT_SIZE0", "VALUE") = Bits(k * e * n)
  <2>1. WholeIs("CNA_WEIGHT_SIZE0", "VALUE")
    BY FieldPlaces
  <2> QED
    BY <1>2, <1>4, <1>5, <2>1, HeldWhole DEF c
<1>7. Holds("CNA_FEATURE_DATA_ADDR", "VALUE") = InputDma
  <2>1. WholeIs("CNA_FEATURE_DATA_ADDR", "VALUE")
    BY FieldPlaces
  <2> QED
    BY <1>3, <1>4, <1>5, <2>1, HeldWhole DEF c
<1>8. Holds("CNA_DCOMP_ADDR0", "VALUE") = WeightsDma
  <2>1. WholeIs("CNA_DCOMP_ADDR0", "VALUE")
    BY FieldPlaces
  <2> QED
    BY <1>3, <1>4, <1>5, <2>1, HeldWhole DEF c
<1>9. Holds("DPU_DST_BASE_ADDR", "VALUE") = OutputDma
  <2>1. WholeIs("DPU_DST_BASE_ADDR", "VALUE")
    BY FieldPlaces
  <2> QED
    BY <1>3, <1>4, <1>5, <2>1, HeldWhole DEF c
<1> QED
  BY <1>6, <1>7, <1>8, <1>9

(* The invariant, and the sizes, give JobInRegisters.                      *)
LEMMA JobIsHeld == FetchInv /\ SizesFit => JobInRegisters
<1> SUFFICES ASSUME FetchInv, SizesFit, Ended("rk3588")
             PROVE  JobInRegisters
  BY DEF JobInRegisters
<1> DEFINE c == job.call
           d == Rk3588!FdBanks(c)
<1>1. PICK m, k, n, e, p :
          m = c.m /\ k = c.k /\ n = c.n /\ e = Elem(c) /\ p = Rk3588!Precision(c)
  OBVIOUS
<1>2. c \in Calls /\ DataFits(c)
  BY RequestsFit DEF FetchInv, Ended
<1>3. \E b \in 1..Banks-1 :
         /\ b * BankSize >= m * k * e
         /\ Holds("CNA_CBUF_CON0", "DATA_BANK") = Bits(b)
         /\ Holds("CNA_CBUF_CON0", "WEIGHT_BANK") = Bits(Banks - b)
  <2>1. d \in Nat /\ 1 <= d /\ d <= 11 /\ d * BankSize >= m * k * e
    BY SMTT(90), <1>1, <1>2, CallNumbers
  <2>2. Banks = 12
    BY DEF SizesFit
  <2>3. d \in 1..Banks-1
    BY <2>1, <2>2
  <2>4. /\ Holds("CNA_CBUF_CON0", "DATA_BANK") = Bits(d)
        /\ Holds("CNA_CBUF_CON0", "WEIGHT_BANK") = Bits(Banks - d)
    BY <1>1, CnaHolds
  <2> HIDE DEF d
  <2> QED
    BY <2>1, <2>3, <2>4
<1>4. /\ Holds("CNA_CONV_CON2", "FEATURE_GRAINS") = Bits(m + 1)
      /\ Holds("CNA_DATA_SIZE0", "DATAIN_HEIGHT") = Bits(m)
      /\ Holds("CNA_DATA_SIZE0", "DATAIN_WIDTH") = Bits(1)
      /\ Holds("CNA_DATA_SIZE1", "DATAIN_CHANNEL") = Bits(k)
      /\ Holds("CNA_DATA_SIZE1", "DATAIN_CHANNEL_REAL") = Bits(k - 1)
      /\ Holds("CNA_WEIGHT_SIZE1", "WEIGHT_BYTES_PER_KERNEL") = Bits(k * e)
      /\ Holds("CNA_WEIGHT_SIZE2", "WEIGHT_KERNELS") = Bits(n)
  BY <1>1, CnaHolds
<1>5. /\ Holds("CORE_DATAOUT_SIZE_0", "DATAOUT_HEIGHT") = Bits(m - 1)
      /\ Holds("CORE_DATAOUT_SIZE_1", "DATAOUT_CHANNEL") = Bits(n - 1)
      /\ Holds("DPU_DATA_CUBE_HEIGHT", "HEIGHT") = Bits(m - 1)
      /\ Holds("DPU_DATA_CUBE_CHANNEL", "CHANNEL") = Bits(n - 1)
      /\ Holds("DPU_WDMA_SIZE_0", "CHANNEL_WDMA") = Bits(n - 1)
      /\ Holds("DPU_WDMA_SIZE_1", "HEIGHT_WDMA") = Bits(m - 1)
  BY <1>1, OutputHolds
<1>6. /\ Holds("CNA_CONV_CON1", "PROC_PRECISION") = Bits(p)
      /\ Holds("CORE_MISC_CFG", "PROC_PRECISION") = Bits(p)
      /\ Holds("DPU_DATA_FORMAT", "PROC_PRECISION") = Bits(p)
  BY <1>1, PrecisionHolds
<1>7. /\ Holds("CNA_WEIGHT_SIZE0", "VALUE") = Bits(k * e * n)
      /\ Holds("CNA_FEATURE_DATA_ADDR", "VALUE") = InputDma
      /\ Holds("CNA_DCOMP_ADDR0", "VALUE") = WeightsDma
      /\ Holds("DPU_DST_BASE_ADDR", "VALUE") = OutputDma
  BY <1>1, WholesHold
<1> QED
  BY <1>1, <1>3, <1>4, <1>5, <1>6, <1>7, Zenon DEF JobInRegisters

(* When an rk3588 job starts, the registers hold the job of the call,      *)
(* whatever the jobs before it left in them, for every call of the sizes   *)
(* above (JobInRegisters).                                                 *)
THEOREM JobArrives == SizesFit => (Spec => []JobInRegisters)
<1> SUFFICES ASSUME SizesFit PROVE Spec => []JobInRegisters
  OBVIOUS
<1>1. FetchInv => JobInRegisters
  BY JobIsHeld
<1> QED
  BY <1>1, FetchInvariant, PTL
-----------------------------------------------------------------------------
(* What has not been written by an rk3588 list when it ends is none of the *)
(* configuration of its units (NothingStale).                              *)
THEOREM NothingIsStale == Spec => []NothingStale
<1>1. FetchInv => NothingStale
  <2> SUFFICES ASSUME FetchInv, Ended("rk3588"),
                      NEW key \in (DOMAIN file \cap Known) \ Enables, key[1] \in Units
               PROVE  key \in fresh
    BY DEF NothingStale
  <2>1. PICK r \in Config : key = Place(r)
    BY DEF FetchInv
  <2> QED
    BY <2>1, ConfigFresh
<1> QED
  BY <1>1, FetchInvariant, PTL

(* A command goes to a unit that has the register it names, but for the    *)
(* two that are not documented, those that name no unit, and Mesa's to the *)
(* DPU (RegistersExist), for all sizes of which no stride of Mesa's list   *)
(* is negative as an int.  NegativeTakesTarget says what one that is does. *)
THEOREM CommandsReach == StridesFit => (Spec => []RegistersExist)
<1> SUFFICES ASSUME StridesFit PROVE Spec => []RegistersExist
  OBVIOUS
<1>1. FetchInv => RegistersExist
  <2> SUFFICES ASSUME FetchInv, job.gen # "full", pos > 0, Writes(list[pos])
               PROVE  \/ Key(list[pos]) \in Known
                      \/ /\ job.gen \in {"rk3588", "minimal_npu_test"}
                         /\ Key(list[pos]) \in Undocumented \cup Raw
                      \/ job.gen = "mesa" /\ Key(list[pos])[1] = Bits(Target["DPU"])
    BY Zenon DEF RegistersExist
  <2>1. pos \in 1..Len(list)
    BY ListLength DEF FetchInv
  <2>2. Reaches(job.gen, list[pos])
    BY <2>1, Fetched
  <2> QED
    BY <2>2, Zenon DEF Reaches
<1> QED
  BY <1>1, FetchInvariant, PTL

(* A list that writes a register that is set a second time writes the same *)
(* value again (RepeatsAgree), for the lists of all generators.            *)
THEOREM RepeatedWordsAgree == Spec => RepeatsAgree
<1>1. FetchInv /\ [Next]_vars =>
        [pos' > pos => \A key \in (fresh \cap Known) \ Enables : file'[key] = file[key]]_vars
  <2> SUFFICES ASSUME FetchInv, Next, pos' > pos, NEW key \in (fresh \cap Known) \ Enables
               PROVE  file'[key] = file[key]
    BY Zenon
  <2>0. pos \in Nat /\ Len(list) \in Nat /\ key \in DOMAIN file
    BY ListLength DEF FetchInv
  <2>1. Fetch
    BY <2>0 DEF Next, NextJob, Load
  <2>2. /\ pos < Len(list) /\ pos' = pos + 1
        /\ Writes(list[pos']) =>
             file' = [q \in DOMAIN file \cup {Key(list[pos'])} |->
                        IF q = Key(list[pos']) THEN ValueOf(list[pos']) ELSE file[q]]
        /\ ~Writes(list[pos']) => file' = file
    BY <2>1 DEF Fetch
  <2>3. CASE ~Writes(list[pos']) \/ key # Key(list[pos'])
    BY <2>0, <2>2, <2>3
  <2>4. CASE Writes(list[pos']) /\ key = Key(list[pos'])
    <3>1. PICK i \in 1..pos :
             Writes(list[i]) /\ Key(list[i]) = key /\ file[key] = ValueOf(list[i])
      BY DEF FetchInv
    <3>2. i \in 1..Len(list) /\ pos' \in 1..Len(list)
      BY <2>0, <2>2
    <3>3. /\ AllSay(list, JobWord(job))
          /\ list[i] \in CommandsIn(list) /\ list[pos'] \in CommandsIn(list)
      BY <3>2, Fetched
    <3>4. ValueOf(list[i]) = ValueOf(list[pos'])
      BY <2>4, <3>1, <3>3, SaidOnce
    <3>5. file'[key] = ValueOf(list[pos'])
      BY <2>0, <2>2, <2>4
    <3> QED
      BY <3>1, <3>4, <3>5
  <2> QED
    BY <2>3, <2>4
<1> QED
  BY <1>1, FetchInvariant, PTL DEF Spec, RepeatsAgree
-----------------------------------------------------------------------------
(* What the CNA has been told of the cube when Mesa's list enables it, and *)
(* when the full list ends.                                                *)
LEMMA CubeFresh ==
  FetchInv /\ (Ended("full") \/ (job.gen = "mesa" /\ Wrote(Place("CNA_OPERATION_ENABLE")))) =>
    /\ \A r \in CubeRegs : file[Place(r)] = JobWord(job)[r]
    /\ job.call \in Calls
    /\ JobWord(job) \in {FullWord(job.call), MesaWord(job.call)}
<1> SUFFICES ASSUME FetchInv,
                    Ended("full") \/ (job.gen = "mesa" /\ Wrote(Place("CNA_OPERATION_ENABLE")))
             PROVE  /\ \A r \in CubeRegs : file[Place(r)] = JobWord(job)[r]
                    /\ job.call \in Calls
                    /\ JobWord(job) \in {FullWord(job.call), MesaWord(job.call)}
  OBVIOUS
<1>0. /\ job \in Requests /\ list = Commands(job) /\ pos \in 0..Len(list)
      /\ Len(list) \in Nat /\ DOMAIN list = 1..Len(list)
  BY ListLength DEF FetchInv
<1>1. \A r \in CubeRegs : Place(r) \in fresh => file[Place(r)] = JobWord(job)[r]
  BY FreshHold, CubeRegsSet
<1>2. CASE Ended("full")
  <2>1. list = Full!gen_matmul_fp16(job.call) /\ JobWord(job) = FullWord(job.call)
    BY <1>0, <1>2 DEF Ended, Commands, JobWord, Small!SmallPrograms
  <2>2. job.call \in Calls
    BY <1>0, <1>2 DEF Ended, Requests, Small!SmallPrograms
  <2>3. ASSUME NEW r \in CubeRegs PROVE Place(r) \in fresh
    <3>1. PICK cmd \in CommandsIn(list) : Writes(cmd) /\ Key(cmd) = Place(r)
      BY <2>1, FullSendsCube
    <3>2. PICK i \in 1..pos : list[i] = cmd
      BY <1>0, <1>2, <3>1 DEF Ended, CommandsIn
    <3> QED
      BY <3>1, <3>2 DEF FetchInv
  <2> QED
    BY <1>1, <2>1, <2>2, <2>3
<1>3. CASE job.gen = "mesa" /\ Wrote(Place("CNA_OPERATION_ENABLE"))
  <2>1. job.call \in Calls /\ job.call.kind \in {"fp16", "int8"}
    BY <1>0, <1>3 DEF Requests, Calls, Kinds, Small!SmallPrograms
  <2>2. pos \in 1..Len(list) /\ Key(list[pos]) = Place("CNA_OPERATION_ENABLE")
    BY <1>0, <1>3 DEF Wrote
  <2>3. job.call.kind = "fp16"
    <3>1. SUFFICES ASSUME job.call.kind = "int8" PROVE FALSE
      BY <2>1
    <3>2. list = Mesa!gen_matmul_int8
      BY <1>0, <1>3, <3>1 DEF Commands, Small!SmallPrograms
    <3>3. list[pos] \in CommandsIn(list)
      BY <1>0, <2>2 DEF CommandsIn
    <3> QED
      BY <2>2, <3>2, <3>3, Int8SendsNoEnable
  <2>4. list = Mesa!gen_matmul_fp16(job.call) /\ JobWord(job) = MesaWord(job.call)
    BY <1>0, <1>3, <2>3 DEF Commands, JobWord, Small!SmallPrograms
  <2>5. pos > 7
    <3>1. pos \notin 1..7
      BY <2>2, <2>4, MesaSendsCube
    <3> QED
      BY <2>2, <3>1
  <2>6. ASSUME NEW r \in CubeRegs PROVE Place(r) \in fresh
    <3>1. PICK i \in 1..7 : Writes(list[i]) /\ Key(list[i]) = Place(r)
      BY <2>4, MesaSendsCube
    <3>2. i \in 1..pos
      BY <2>2, <2>5
    <3> QED
      BY <3>1, <3>2 DEF FetchInv
  <2> QED
    BY <1>1, <2>1, <2>4, <2>6
<1> QED
  BY <1>2, <1>3

(* The fields of a word that a field's shift or a field was put into.      *)
LEMMA FullParts ==
  \A reg, f, s, w, n : FieldIs(reg, f, s, w) => Full!F(reg, f, n) = Rk3588!F(n, w, s)
<1> SUFFICES ASSUME NEW reg, NEW f, NEW s, NEW w, NEW n, FieldIs(reg, f, s, w)
             PROVE  Full!F(reg, f, n) = Rk3588!F(n, w, s)
  BY Zenon
<1>1. s \in Nat /\ w \in Nat /\ Shift(reg, f) = s /\ Width(reg, f) = w
  BY DEF FieldIs, Shift, Width
<1>2. Full!F(reg, f, n) = Shl(Bits(n), s) \cap (s .. s + w - 1)
  BY <1>1, FullFields DEF Field, Mask
<1>3. Rk3588!F(n, w, s) = Shl(Bits(n) \cap Low(w), s)
  BY SameWords DEF Rk3588!F
<1>4. \A i \in Bits(n) : i \in Nat
  BY BitsAreWords DEF IsWord
<1>5. \A i \in Nat : i + s \in s .. s + w - 1 <=> i \in Low(w)
  BY <1>1 DEF Low
<1> QED
  BY <1>2, <1>3, <1>4, <1>5 DEF Shl

(* A field of the header carries the number moved to it.                   *)
LEMMA ShiftCarries ==
  \A s, t \in Nat : \A w \in Nat \ {0} :
    /\ Carries(Shl(Bits(1), s), s, w, 1)
    /\ t + w <= s \/ s < t => Leaves(Shl(Bits(1), s), t, w)
<1> SUFFICES ASSUME NEW s \in Nat, NEW t \in Nat, NEW w \in Nat \ {0}
             PROVE  /\ Carries(Shl(Bits(1), s), s, w, 1)
                    /\ t + w <= s \/ s < t => Leaves(Shl(Bits(1), s), t, w)
  OBVIOUS
<1>1. Bits(1) = {0}
  BY SomeBits
<1>2. Shl(Bits(1), s) = {s}
  BY <1>1 DEF Shl
<1>3. \A i \in 0..w-1 : (i + s = s <=> i = 0) /\ (t + w <= s \/ s < t => i + t # s)
  OBVIOUS
<1> QED
  BY <1>1, <1>2, <1>3 DEF Carries, Leaves

(* A number of fewer bits than a field's place is not in the field.        *)
LEMMA NumberCarries ==
  \A n, w, t \in Nat : Carries(Bits(n), 0, w, n) /\ (Fits(n, w) /\ w <= 30 /\ w <= t =>
    \A v \in Nat : Leaves(Bits(n), t, v))
<1> SUFFICES ASSUME NEW n \in Nat, NEW w \in Nat, NEW t \in Nat
             PROVE  /\ Carries(Bits(n), 0, w, n)
                    /\ Fits(n, w) /\ w <= 30 /\ w <= t =>
                         \A v \in Nat : Leaves(Bits(n), t, v)
  OBVIOUS
<1>1. Carries(Bits(n), 0, w, n)
  BY DEF Carries
<1>2. ASSUME Fits(n, w), w <= 30, w <= t, NEW v \in Nat PROVE Leaves(Bits(n), t, v)
  <2>1. Bits(n) \subseteq Low(w)
    BY <1>2, BitsFit DEF Fits
  <2>2. \A i \in 0..v-1 : i + t \notin Low(w)
    BY <1>2 DEF Low
  <2> QED
    BY <2>1, <2>2 DEF Leaves
<1> QED
  BY <1>1, <1>2

(* What the words of the two generators say of the cube, if the fields can *)
(* hold the sizes.                                                         *)
LEMMA CubeWords ==
  ASSUME NEW c, NEW m, NEW k, NEW n, NEW W, m = c.m, k = c.k, n = c.n,
         Fits(m, 11), Fits(k, 16), Fits(n, 14), W \in {FullWord(c), MesaWord(c)}
  PROVE  /\ Carries(W["CNA_DATA_SIZE0"], 0, 11, m)
         /\ Carries(W["CNA_DATA_SIZE0"], 16, 11, 1)
         /\ Carries(W["CNA_DATA_SIZE1"], 0, 16, k)
         /\ Carries(W["CNA_WEIGHT_SIZE2"], 0, 14, n)
         /\ W["CNA_FEATURE_DATA_ADDR"] = InputDma
<1>0. m \in Nat /\ k \in Nat /\ n \in Nat
  BY DEF Fits
<1>1. CASE W = FullWord(c)
  <2>1. /\ W["CNA_DATA_SIZE0"] = Rk3588!F(1, 11, 16) \cup Rk3588!F(m, 11, 0)
        /\ W["CNA_DATA_SIZE1"] = Rk3588!F(k - 1, 14, 16) \cup Rk3588!F(k, 16, 0)
        /\ W["CNA_WEIGHT_SIZE2"] =
             Rk3588!F(1, 5, 24) \cup Rk3588!F(1, 5, 16) \cup Rk3588!F(n, 14, 0)
        /\ W["CNA_FEATURE_DATA_ADDR"] = InputDma
    <3>1. /\ W["CNA_DATA_SIZE0"] = Full!F("CNA_DATA_SIZE0", "DATAIN_WIDTH", 1)
               \cup Full!F("CNA_DATA_SIZE0", "DATAIN_HEIGHT", m)
          /\ W["CNA_DATA_SIZE1"] = Full!F("CNA_DATA_SIZE1", "DATAIN_CHANNEL_REAL", k - 1)
               \cup Full!F("CNA_DATA_SIZE1", "DATAIN_CHANNEL", k)
          /\ W["CNA_WEIGHT_SIZE2"] = Full!F("CNA_WEIGHT_SIZE2", "WEIGHT_WIDTH", 1)
               \cup Full!F("CNA_WEIGHT_SIZE2", "WEIGHT_HEIGHT", 1)
               \cup Full!F("CNA_WEIGHT_SIZE2", "WEIGHT_KERNELS", n)
          /\ W["CNA_FEATURE_DATA_ADDR"] = InputDma
      BY <1>1, FullWords
    <3>2. Full!F("CNA_DATA_SIZE0", "DATAIN_WIDTH", 1) = Rk3588!F(1, 11, 16)
      <4>1. FieldIs("CNA_DATA_SIZE0", "DATAIN_WIDTH", 16, 11)
        BY FieldPlaces
      <4> QED
        BY <4>1, FullParts
    <3>3. Full!F("CNA_DATA_SIZE0", "DATAIN_HEIGHT", m) = Rk3588!F(m, 11, 0)
      <4>1. FieldIs("CNA_DATA_SIZE0", "DATAIN_HEIGHT", 0, 11)
        BY FieldPlaces
      <4> QED
        BY <4>1, FullParts
    <3>4. Full!F("CNA_DATA_SIZE1", "DATAIN_CHANNEL_REAL", k - 1) = Rk3588!F(k - 1, 14, 16)
      <4>1. FieldIs("CNA_DATA_SIZE1", "DATAIN_CHANNEL_REAL", 16, 14)
        BY FieldPlaces
      <4> QED
        BY <4>1, FullParts
    <3>5. Full!F("CNA_DATA_SIZE1", "DATAIN_CHANNEL", k) = Rk3588!F(k, 16, 0)
      <4>1. FieldIs("CNA_DATA_SIZE1", "DATAIN_CHANNEL", 0, 16)
        BY FieldPlaces
      <4> QED
        BY <4>1, FullParts
    <3>6. Full!F("CNA_WEIGHT_SIZE2", "WEIGHT_WIDTH", 1) = Rk3588!F(1, 5, 24)
      <4>1. FieldIs("CNA_WEIGHT_SIZE2", "WEIGHT_WIDTH", 24, 5)
        BY FieldPlaces
      <4> QED
        BY <4>1, FullParts
    <3>7. Full!F("CNA_WEIGHT_SIZE2", "WEIGHT_HEIGHT", 1) = Rk3588!F(1, 5, 16)
      <4>1. FieldIs("CNA_WEIGHT_SIZE2", "WEIGHT_HEIGHT", 16, 5)
        BY FieldPlaces
      <4> QED
        BY <4>1, FullParts
    <3>8. Full!F("CNA_WEIGHT_SIZE2", "WEIGHT_KERNELS", n) = Rk3588!F(n, 14, 0)
      <4>1. FieldIs("CNA_WEIGHT_SIZE2", "WEIGHT_KERNELS", 0, 14)
        BY FieldPlaces
      <4> QED
        BY <4>1, FullParts
    <3> QED
      BY <3>1, <3>2, <3>3, <3>4, <3>5, <3>6, <3>7, <3>8, Zenon
  <2>2. Carries(W["CNA_DATA_SIZE0"], 0, 11, m)
    <3>1. Leaves(Rk3588!F(1, 11, 16), 0, 11) /\ Carries(Rk3588!F(m, 11, 0), 0, 11, m)
      BY PartLeaves, PartCarries
    <3> QED
      BY <2>1, <3>1, PartsCarry
  <2>3. Carries(W["CNA_DATA_SIZE0"], 16, 11, 1)
    <3>1. Carries(Rk3588!F(1, 11, 16), 16, 11, 1) /\ Leaves(Rk3588!F(m, 11, 0), 16, 11)
      BY PartLeaves, PartCarries
    <3> QED
      BY <2>1, <3>1, PartsCarry
  <2>4. Carries(W["CNA_DATA_SIZE1"], 0, 16, k)
    <3>1. Leaves(Rk3588!F(k - 1, 14, 16), 0, 16) /\ Carries(Rk3588!F(k, 16, 0), 0, 16, k)
      BY PartLeaves, PartCarries
    <3> QED
      BY <2>1, <3>1, PartsCarry
  <2>5. Carries(W["CNA_WEIGHT_SIZE2"], 0, 14, n)
    <3>1. /\ Leaves(Rk3588!F(1, 5, 24), 0, 14) /\ Leaves(Rk3588!F(1, 5, 16), 0, 14)
          /\ Carries(Rk3588!F(n, 14, 0), 0, 14, n)
      BY PartLeaves, PartCarries
    <3>2. Leaves(Rk3588!F(1, 5, 24) \cup Rk3588!F(1, 5, 16), 0, 14)
      BY <3>1, PartsLeave
    <3> QED
      BY <2>1, <3>1, <3>2, PartsCarry
  <2> QED
    BY <2>1, <2>2, <2>3, <2>4, <2>5
<1>2. CASE W = MesaWord(c)
  <2>1. /\ W["CNA_DATA_SIZE0"] = Bits(m) \cup Shl(Bits(1), 16)
        /\ W["CNA_DATA_SIZE1"] = Bits(k)
        /\ W["CNA_WEIGHT_SIZE2"] = Bits(n) \cup Shl(Bits(1), 16) \cup Shl(Bits(1), 24)
        /\ W["CNA_FEATURE_DATA_ADDR"] = InputDma
    BY <1>2, MesaWords, MesaSame, Zenon DEF Mesa!DataSize0, Mesa!WeightSize2
  <2>2. Carries(W["CNA_DATA_SIZE0"], 0, 11, m)
    <3>1. Carries(Bits(m), 0, 11, m) /\ Leaves(Shl(Bits(1), 16), 0, 11)
      BY <1>0, NumberCarries, ShiftCarries
    <3> QED
      BY <2>1, <3>1, PartsCarry
  <2>3. Carries(W["CNA_DATA_SIZE0"], 16, 11, 1)
    <3>1. Leaves(Bits(m), 16, 11) /\ Carries(Shl(Bits(1), 16), 16, 11, 1)
      BY <1>0, NumberCarries, ShiftCarries
    <3> QED
      BY <2>1, <3>1, PartsCarry
  <2>4. Carries(W["CNA_DATA_SIZE1"], 0, 16, k)
    BY <1>0, <2>1, NumberCarries
  <2>5. Carries(W["CNA_WEIGHT_SIZE2"], 0, 14, n)
    <3>1. /\ Carries(Bits(n), 0, 14, n)
          /\ Leaves(Shl(Bits(1), 16), 0, 14) /\ Leaves(Shl(Bits(1), 24), 0, 14)
      BY <1>0, NumberCarries, ShiftCarries
    <3>2. Carries(Bits(n) \cup Shl(Bits(1), 16), 0, 14, n)
      BY <3>1, PartsCarry
    <3> QED
      BY <2>1, <3>1, <3>2, PartsCarry
  <2> QED
    BY <2>1, <2>2, <2>3, <2>4, <2>5
<1> QED
  BY <1>1, <1>2

(* A field of a register that holds a word is read from the word.          *)
LEMMA FieldHolds ==
  ASSUME FetchInv, NEW r \in CubeRegs, NEW word, file[Place(r)] = word, word \in SUBSET Low(32),
         NEW f, NEW s, NEW w, FieldIs(r, f, s, w), NEW n, Fits(n, w), Carries(word, s, w, n)
  PROVE  Holds(r, f) = Bits(n)
<1>1. Cut(word, 32) = word
  BY DEF Cut
<1>2. IsWord(word)
  BY DEF IsWord, Low
<1>3. FieldOf(r, f, Cut(word, 32)) = Bits(n)
  BY <1>2, ReadBack
<1> QED
  BY <1>1, <1>3, Zenon DEF Holds

(* When Mesa's list enables the CNA, and when the full list ends, the CNA  *)
(* holds the cube, the kernels and the input's address of the call,        *)
(* whatever ran before, for every call whose sizes the fields can hold     *)
(* (CnaConfigured).                                                        *)
THEOREM CubeArrives == SizesFit => (Spec => []CnaConfigured)
<1> SUFFICES ASSUME SizesFit PROVE Spec => []CnaConfigured
  OBVIOUS
<1>1. FetchInv => CnaConfigured
  <2> SUFFICES ASSUME FetchInv,
                      Ended("full") \/
                        (job.gen = "mesa" /\ Wrote(Place("CNA_OPERATION_ENABLE")))
               PROVE  CnaConfigured
    BY DEF CnaConfigured
  <2>1. PICK c, m, k, n, W : c = job.call /\ m = c.m /\ k = c.k /\ n = c.n /\ W = JobWord(job)
    OBVIOUS
  <2>2. /\ \A r \in CubeRegs : file[Place(r)] = W[r]
        /\ c \in Calls /\ W \in {FullWord(c), MesaWord(c)}
    BY <2>1, CubeFresh
  <2>3. /\ m \in Nat /\ 1 <= m /\ m <= 1022 /\ k \in Nat /\ 1 <= k /\ k <= 16384
        /\ n \in Nat /\ 1 <= n /\ n <= 8192
    <3>1. m \in Ms /\ k \in Ks /\ n \in Ns
      BY <2>1, <2>2 DEF Calls
    <3> QED
      BY <3>1, SizeBounds
  <2>4. Fits(m, 11) /\ Fits(1, 11) /\ Fits(k, 16) /\ Fits(n, 14)
    BY <2>3, PowerTable DEF Fits
  <2>5. /\ Carries(W["CNA_DATA_SIZE0"], 0, 11, m)
        /\ Carries(W["CNA_DATA_SIZE0"], 16, 11, 1)
        /\ Carries(W["CNA_DATA_SIZE1"], 0, 16, k)
        /\ Carries(W["CNA_WEIGHT_SIZE2"], 0, 14, n)
        /\ W["CNA_FEATURE_DATA_ADDR"] = InputDma
    BY <2>1, <2>2, <2>4, CubeWords
  <2>6. /\ FieldIs("CNA_DATA_SIZE0", "DATAIN_WIDTH", 16, 11)
        /\ FieldIs("CNA_DATA_SIZE0", "DATAIN_HEIGHT", 0, 11)
        /\ FieldIs("CNA_DATA_SIZE1", "DATAIN_CHANNEL", 0, 16)
        /\ FieldIs("CNA_WEIGHT_SIZE2", "WEIGHT_KERNELS", 0, 14)
        /\ WholeIs("CNA_FEATURE_DATA_ADDR", "VALUE")
    BY FieldPlaces
  <2>7. /\ "CNA_DATA_SIZE0" \in CubeRegs /\ "CNA_DATA_SIZE1" \in CubeRegs
        /\ "CNA_WEIGHT_SIZE2" \in CubeRegs /\ "CNA_FEATURE_DATA_ADDR" \in CubeRegs
    BY DEF CubeRegs
  <2>8. \A r \in CubeRegs : W[r] \in SUBSET Low(32)
    <3>1. \A r \in CubeRegs : FullWord(c)[r] \in SUBSET Low(32)
      BY FullWordsFit, FullNames DEF CubeRegs
    <3>2. \A r \in CubeRegs : MesaWord(c)[r] \in SUBSET Low(32)
      BY MesaWordsFit, MesaWords DEF CubeRegs
    <3> QED
      BY <2>2, <3>1, <3>2
  <2>9. Holds("CNA_DATA_SIZE0", "DATAIN_HEIGHT") = Bits(m)
    BY <2>2, <2>4, <2>5, <2>6, <2>7, <2>8, FieldHolds
  <2>10. Holds("CNA_DATA_SIZE0", "DATAIN_WIDTH") = Bits(1)
    BY <2>2, <2>4, <2>5, <2>6, <2>7, <2>8, FieldHolds
  <2>11. Holds("CNA_DATA_SIZE1", "DATAIN_CHANNEL") = Bits(k)
    BY <2>2, <2>4, <2>5, <2>6, <2>7, <2>8, FieldHolds
  <2>12. Holds("CNA_WEIGHT_SIZE2", "WEIGHT_KERNELS") = Bits(n)
    BY <2>2, <2>4, <2>5, <2>6, <2>7, <2>8, FieldHolds
  <2>13. Holds("CNA_FEATURE_DATA_ADDR", "VALUE") = InputDma
    <3>1. file[Place("CNA_FEATURE_DATA_ADDR")] = InputDma /\ InputDma \in SUBSET Low(32)
      BY <2>2, <2>5, <2>7, AddressAssumption
    <3>2. Cut(InputDma, 32) = InputDma
      BY <3>1 DEF Cut
    <3>3. FieldOf("CNA_FEATURE_DATA_ADDR", "VALUE", Cut(InputDma, 32)) = InputDma
      BY <2>6, <3>1, ReadWhole DEF WholeIs
    <3> QED
      BY <3>1, <3>2, <3>3, Zenon DEF Holds
  <2> QED
    BY <2>1, <2>9, <2>10, <2>11, <2>12, <2>13 DEF CnaConfigured
<1> QED
  BY <1>1, FetchInvariant, PTL
-----------------------------------------------------------------------------
(* No reserved bit is set.                                                 *)
Clear(r, word) == Reserved(r, Cut(word, 32)) = {}

(* A word joined of clear parts is clear, and so is the empty word.        *)
LEMMA ClearParts ==
  /\ \A r, x, y : Clear(r, x) /\ Clear(r, y) => Clear(r, x \cup y)
  /\ \A r : Clear(r, {})
BY DEF Clear, Reserved, Cut

(* A bit, or a part of a number, that lies in a field.                     *)
LEMMA ClearBits ==
  \A r, f, s, w, word :
    FieldIs(r, f, s, w) /\ word \subseteq s..s+w-1 => Clear(r, word)
<1> SUFFICES ASSUME NEW r, NEW f, NEW s, NEW w, NEW word, FieldIs(r, f, s, w),
                    word \subseteq s..s+w-1
             PROVE  Clear(r, word)
  OBVIOUS
<1>1. f \in DOMAIN Registers[r].fields /\ Registers[r].fields[f] = <<s, w>>
  BY DEF FieldIs
<1>2. Mask(r, f) = s..s+w-1
  BY <1>1 DEF Mask, Shift, Width
<1>3. word \subseteq UNION {Mask(r, g) : g \in DOMAIN Registers[r].fields}
  BY <1>1, <1>2
<1> QED
  BY <1>3 DEF Clear, Reserved, Cut

(* A number in a field of the code that lies in one of the header.         *)
LEMMA ClearPart ==
  \A r, f, s, w : FieldIs(r, f, s, w) =>
    \A x : \A v, t \in Nat : s <= t /\ t + v <= s + w => Clear(r, Rk3588!F(x, v, t))
<1> SUFFICES ASSUME NEW r, NEW f, NEW s, NEW w, FieldIs(r, f, s, w),
                    NEW x, NEW v \in Nat, NEW t \in Nat, s <= t, t + v <= s + w
             PROVE  Clear(r, Rk3588!F(x, v, t))
  OBVIOUS
<1>1. s \in Nat /\ w \in Nat
  BY DEF FieldIs
<1>2. ASSUME NEW i \in Rk3588!F(x, v, t) PROVE i \in s..s+w-1
  <2>1. Rk3588!F(x, v, t) \in SUBSET Nat
    BY FieldsAreWords DEF IsWord
  <2>2. i \in Nat
    BY <1>2, <2>1
  <2>3. ~(i < t \/ t + v <= i)
    BY <1>2, <2>2, PartAt, Zenon
  <2>4. t <= i /\ i < t + v
    BY <2>2, <2>3
  <2> QED
    BY <1>1, <2>2, <2>4
<1> QED
  BY <1>2, ClearBits

(* A field of the whole register leaves nothing.                           *)
LEMMA ClearWhole == \A r, f, word : WholeIs(r, f) => Clear(r, word)
<1> SUFFICES ASSUME NEW r, NEW f, NEW word, WholeIs(r, f)
             PROVE  Clear(r, word)
  OBVIOUS
<1>1. f \in DOMAIN Registers[r].fields /\ Registers[r].fields[f] = <<0, 32>>
  BY DEF WholeIs
<1>2. Mask(r, f) = Low(32)
  BY <1>1 DEF Mask, Shift, Width, Low
<1> QED
  BY <1>1, <1>2 DEF Clear, Reserved, Cut

(* The last channel of at most 2^14 needs 14 bits; that of none would need *)
(* all of them.                                                            *)
LEMMA LastChannel ==
  \A x \in Nat : x < Power[14] => Rk3588!F(x, 16, 16) \subseteq 16..29
<1> SUFFICES ASSUME NEW x \in Nat, x < Power[14], NEW i \in Rk3588!F(x, 16, 16)
             PROVE  i \in 16..29
  OBVIOUS
<1>1. Rk3588!F(x, 16, 16) \in SUBSET Nat
  BY FieldsAreWords DEF IsWord
<1>2. i \in Nat
  BY <1>1
<1>3. i - 16 \in Bits(x) /\ i - 16 \in Low(16)
  BY <1>2, PartBits
<1>4. Bits(x) \subseteq Low(14)
  BY BitsFit
<1>5. i - 16 \in Low(14)
  BY <1>3, <1>4
<1> QED
  BY <1>2, <1>5 DEF Low

(* The words of the registers that an rk3588 list sets.                    *)
LEMMA SentClear ==
  ASSUME NEW c, c.k \in Nat, c.k # 0, c.k <= Power[14]
  PROVE  \A r \in DOMAIN Sent(c) : Clear(r, Sent(c)[r])
<1> DEFINE W == Sent(c)
<1>1. Clear("DPU_S_POINTER", W["DPU_S_POINTER"])
  <2>1. W["DPU_S_POINTER"] =
          {3} \cup {2} \cup {1}
    BY WordsSent, SomeBits, SameWords
  <2>2. Clear("DPU_S_POINTER", {3})
    <3>1. FieldIs("DPU_S_POINTER", "POINTER_PP_MODE", 3, 1)
      BY FieldPlaces
    <3>2. {3} \subseteq 3..3+1-1
      OBVIOUS
    <3> QED
      BY <3>1, <3>2, ClearBits
  <2>3. Clear("DPU_S_POINTER", {2})
    <3>1. FieldIs("DPU_S_POINTER", "EXECUTER_PP_EN", 2, 1)
      BY FieldPlaces
    <3>2. {2} \subseteq 2..2+1-1
      OBVIOUS
    <3> QED
      BY <3>1, <3>2, ClearBits
  <2>4. Clear("DPU_S_POINTER", {1})
    <3>1. FieldIs("DPU_S_POINTER", "POINTER_PP_EN", 1, 1)
      BY FieldPlaces
    <3>2. {1} \subseteq 1..1+1-1
      OBVIOUS
    <3> QED
      BY <3>1, <3>2, ClearBits
  <2>5. Clear("DPU_S_POINTER", {3} \cup {2})
    BY <2>2, <2>3, ClearParts
  <2> QED
    BY <2>1, <2>5, <2>4, ClearParts
<1>2. Clear("CNA_CONV_CON1", W["CNA_CONV_CON1"])
  <2>1. W["CNA_CONV_CON1"] =
          Rk3588!F(Rk3588!Precision(c), 3, 7) \cup Rk3588!F(Rk3588!Precision(c), 3, 4)
    BY WordsSent
  <2>2. Clear("CNA_CONV_CON1", Rk3588!F(Rk3588!Precision(c), 3, 7))
    <3>1. FieldIs("CNA_CONV_CON1", "PROC_PRECISION", 7, 3)
      BY FieldPlaces
    <3> QED
      BY <3>1, ClearPart
  <2>3. Clear("CNA_CONV_CON1", Rk3588!F(Rk3588!Precision(c), 3, 4))
    <3>1. FieldIs("CNA_CONV_CON1", "IN_PRECISION", 4, 3)
      BY FieldPlaces
    <3> QED
      BY <3>1, ClearPart
  <2> QED
    BY <2>1, <2>2, <2>3, ClearParts
<1>3. Clear("CNA_CONV_CON2", W["CNA_CONV_CON2"])
  <2>1. W["CNA_CONV_CON2"] =
          Rk3588!F(Rk3588!FeatureGrains(c), 10, 4)
    BY WordsSent
  <2>2. Clear("CNA_CONV_CON2", Rk3588!F(Rk3588!FeatureGrains(c), 10, 4))
    <3>1. FieldIs("CNA_CONV_CON2", "FEATURE_GRAINS", 4, 10)
      BY FieldPlaces
    <3> QED
      BY <3>1, ClearPart
  <2> QED
    BY <2>1, <2>2, ClearParts
<1>4. Clear("CNA_CONV_CON3", W["CNA_CONV_CON3"])
  <2>1. W["CNA_CONV_CON3"] =
          Rk3588!F(1, 3, 3) \cup Rk3588!F(1, 3, 0)
    BY WordsSent
  <2>2. Clear("CNA_CONV_CON3", Rk3588!F(1, 3, 3))
    <3>1. FieldIs("CNA_CONV_CON3", "CONV_Y_STRIDE", 3, 3)
      BY FieldPlaces
    <3> QED
      BY <3>1, ClearPart
  <2>3. Clear("CNA_CONV_CON3", Rk3588!F(1, 3, 0))
    <3>1. FieldIs("CNA_CONV_CON3", "CONV_X_STRIDE", 0, 3)
      BY FieldPlaces
    <3> QED
      BY <3>1, ClearPart
  <2> QED
    BY <2>1, <2>2, <2>3, ClearParts
<1>5. Clear("CNA_DATA_SIZE0", W["CNA_DATA_SIZE0"])
  <2>1. W["CNA_DATA_SIZE0"] =
          Rk3588!F(1, 11, 16) \cup Rk3588!F(c.m, 11, 0)
    BY WordsSent
  <2>2. Clear("CNA_DATA_SIZE0", Rk3588!F(1, 11, 16))
    <3>1. FieldIs("CNA_DATA_SIZE0", "DATAIN_WIDTH", 16, 11)
      BY FieldPlaces
    <3> QED
      BY <3>1, ClearPart
  <2>3. Clear("CNA_DATA_SIZE0", Rk3588!F(c.m, 11, 0))
    <3>1. FieldIs("CNA_DATA_SIZE0", "DATAIN_HEIGHT", 0, 11)
      BY FieldPlaces
    <3> QED
      BY <3>1, ClearPart
  <2> QED
    BY <2>1, <2>2, <2>3, ClearParts
<1>6. Clear("CNA_DATA_SIZE1", W["CNA_DATA_SIZE1"])
  <2>1. W["CNA_DATA_SIZE1"] =
          Rk3588!F(c.k - 1, 16, 16) \cup Rk3588!F(c.k, 16, 0)
    BY WordsSent DEF Rk3588!DataSize1
  <2>2. Clear("CNA_DATA_SIZE1", Rk3588!F(c.k - 1, 16, 16))
    <3>1. FieldIs("CNA_DATA_SIZE1", "DATAIN_CHANNEL_REAL", 16, 14)
      BY FieldPlaces
    <3>2. Rk3588!F(c.k - 1, 16, 16) \subseteq 16..16+14-1
      <4>1. Power[14] \in Nat
        BY PowersPositive
      <4>2. c.k - 1 \in Nat /\ c.k - 1 < Power[14]
        BY <4>1
      <4> QED
        BY <4>2, LastChannel
    <3> QED
      BY <3>1, <3>2, ClearBits
  <2>3. Clear("CNA_DATA_SIZE1", Rk3588!F(c.k, 16, 0))
    <3>1. FieldIs("CNA_DATA_SIZE1", "DATAIN_CHANNEL", 0, 16)
      BY FieldPlaces
    <3> QED
      BY <3>1, ClearPart
  <2> QED
    BY <2>1, <2>2, <2>3, ClearParts
<1>7. Clear("CNA_DATA_SIZE2", W["CNA_DATA_SIZE2"])
  <2>1. W["CNA_DATA_SIZE2"] =
          Rk3588!F(1, 11, 0)
    BY WordsSent
  <2>2. Clear("CNA_DATA_SIZE2", Rk3588!F(1, 11, 0))
    <3>1. FieldIs("CNA_DATA_SIZE2", "DATAOUT_WIDTH", 0, 11)
      BY FieldPlaces
    <3> QED
      BY <3>1, ClearPart
  <2> QED
    BY <2>1, <2>2, ClearParts
<1>8. Clear("CNA_DATA_SIZE3", W["CNA_DATA_SIZE3"])
  <2>1. W["CNA_DATA_SIZE3"] =
          Rk3588!F(c.m, 18, 0)
    BY WordsSent
  <2>2. Clear("CNA_DATA_SIZE3", Rk3588!F(c.m, 18, 0))
    <3>1. FieldIs("CNA_DATA_SIZE3", "DATAOUT_ATOMICS", 0, 22)
      BY FieldPlaces
    <3> QED
      BY <3>1, ClearPart
  <2> QED
    BY <2>1, <2>2, ClearParts
<1>9. Clear("CNA_WEIGHT_SIZE0", W["CNA_WEIGHT_SIZE0"])
  <2>1. WholeIs("CNA_WEIGHT_SIZE0", "VALUE")
    BY FieldPlaces
  <2> QED
    BY <2>1, ClearWhole
<1>10. Clear("CNA_WEIGHT_SIZE1", W["CNA_WEIGHT_SIZE1"])
  <2>1. W["CNA_WEIGHT_SIZE1"] =
          Rk3588!F(Rk3588!KernelBytes(c), 19, 0)
    BY WordsSent
  <2>2. Clear("CNA_WEIGHT_SIZE1", Rk3588!F(Rk3588!KernelBytes(c), 19, 0))
    <3>1. FieldIs("CNA_WEIGHT_SIZE1", "WEIGHT_BYTES_PER_KERNEL", 0, 19)
      BY FieldPlaces
    <3> QED
      BY <3>1, ClearPart
  <2> QED
    BY <2>1, <2>2, ClearParts
<1>11. Clear("CNA_WEIGHT_SIZE2", W["CNA_WEIGHT_SIZE2"])
  <2>1. W["CNA_WEIGHT_SIZE2"] =
          Rk3588!F(1, 5, 24) \cup Rk3588!F(1, 5, 16) \cup Rk3588!F(c.n, 14, 0)
    BY WordsSent DEF Rk3588!WeightKernels
  <2>2. Clear("CNA_WEIGHT_SIZE2", Rk3588!F(1, 5, 24))
    <3>1. FieldIs("CNA_WEIGHT_SIZE2", "WEIGHT_WIDTH", 24, 5)
      BY FieldPlaces
    <3> QED
      BY <3>1, ClearPart
  <2>3. Clear("CNA_WEIGHT_SIZE2", Rk3588!F(1, 5, 16))
    <3>1. FieldIs("CNA_WEIGHT_SIZE2", "WEIGHT_HEIGHT", 16, 5)
      BY FieldPlaces
    <3> QED
      BY <3>1, ClearPart
  <2>4. Clear("CNA_WEIGHT_SIZE2", Rk3588!F(c.n, 14, 0))
    <3>1. FieldIs("CNA_WEIGHT_SIZE2", "WEIGHT_KERNELS", 0, 14)
      BY FieldPlaces
    <3> QED
      BY <3>1, ClearPart
  <2>5. Clear("CNA_WEIGHT_SIZE2", Rk3588!F(1, 5, 24) \cup Rk3588!F(1, 5, 16))
    BY <2>2, <2>3, ClearParts
  <2> QED
    BY <2>1, <2>5, <2>4, ClearParts
<1>12. Clear("CNA_CBUF_CON0", W["CNA_CBUF_CON0"])
  <2>1. W["CNA_CBUF_CON0"] =
          Rk3588!F(Banks - Rk3588!FdBanks(c), 4, 4) \cup Rk3588!F(Rk3588!FdBanks(c), 4, 0)
    BY WordsSent
  <2>2. Clear("CNA_CBUF_CON0", Rk3588!F(Banks - Rk3588!FdBanks(c), 4, 4))
    <3>1. FieldIs("CNA_CBUF_CON0", "WEIGHT_BANK", 4, 4)
      BY FieldPlaces
    <3> QED
      BY <3>1, ClearPart
  <2>3. Clear("CNA_CBUF_CON0", Rk3588!F(Rk3588!FdBanks(c), 4, 0))
    <3>1. FieldIs("CNA_CBUF_CON0", "DATA_BANK", 0, 4)
      BY FieldPlaces
    <3> QED
      BY <3>1, ClearPart
  <2> QED
    BY <2>1, <2>2, <2>3, ClearParts
<1>13. Clear("CNA_CBUF_CON1", W["CNA_CBUF_CON1"])
  <2>1. W["CNA_CBUF_CON1"] =
          Rk3588!F(Rk3588!DataEntries(c), 13, 0)
    BY WordsSent
  <2>2. Clear("CNA_CBUF_CON1", Rk3588!F(Rk3588!DataEntries(c), 13, 0))
    <3>1. FieldIs("CNA_CBUF_CON1", "DATA_ENTRIES", 0, 14)
      BY FieldPlaces
    <3> QED
      BY <3>1, ClearPart
  <2> QED
    BY <2>1, <2>2, ClearParts
<1>14. Clear("CNA_CVT_CON0", W["CNA_CVT_CON0"])
  <2>1. W["CNA_CVT_CON0"] =
          Rk3588!F(1, 1, 3) \cup Rk3588!F(1, 1, 1) \cup Rk3588!F(1, 1, 0)
    BY WordsSent
  <2>2. Clear("CNA_CVT_CON0", Rk3588!F(1, 1, 3))
    <3>1. FieldIs("CNA_CVT_CON0", "DATA_SIGN", 3, 1)
      BY FieldPlaces
    <3> QED
      BY <3>1, ClearPart
  <2>3. Clear("CNA_CVT_CON0", Rk3588!F(1, 1, 1))
    <3>1. FieldIs("CNA_CVT_CON0", "CVT_TYPE", 1, 1)
      BY FieldPlaces
    <3> QED
      BY <3>1, ClearPart
  <2>4. Clear("CNA_CVT_CON0", Rk3588!F(1, 1, 0))
    <3>1. FieldIs("CNA_CVT_CON0", "CVT_BYPASS", 0, 1)
      BY FieldPlaces
    <3> QED
      BY <3>1, ClearPart
  <2>5. Clear("CNA_CVT_CON0", Rk3588!F(1, 1, 3) \cup Rk3588!F(1, 1, 1))
    BY <2>2, <2>3, ClearParts
  <2> QED
    BY <2>1, <2>5, <2>4, ClearParts
<1>15. Clear("CNA_CVT_CON1", W["CNA_CVT_CON1"])
  <2>1. W["CNA_CVT_CON1"] =
          Rk3588!F(1, 16, 16)
    BY WordsSent
  <2>2. Clear("CNA_CVT_CON1", Rk3588!F(1, 16, 16))
    <3>1. FieldIs("CNA_CVT_CON1", "CVT_SCALE0", 16, 16)
      BY FieldPlaces
    <3> QED
      BY <3>1, ClearPart
  <2> QED
    BY <2>1, <2>2, ClearParts
<1>16. Clear("CNA_CVT_CON2", W["CNA_CVT_CON2"])
  <2>1. W["CNA_CVT_CON2"] =
          Rk3588!F(1, 16, 16)
    BY WordsSent
  <2>2. Clear("CNA_CVT_CON2", Rk3588!F(1, 16, 16))
    <3>1. FieldIs("CNA_CVT_CON2", "CVT_SCALE1", 16, 16)
      BY FieldPlaces
    <3> QED
      BY <3>1, ClearPart
  <2> QED
    BY <2>1, <2>2, ClearParts
<1>17. Clear("CNA_CVT_CON3", W["CNA_CVT_CON3"])
  <2>1. W["CNA_CVT_CON3"] =
          Rk3588!F(1, 16, 16)
    BY WordsSent
  <2>2. Clear("CNA_CVT_CON3", Rk3588!F(1, 16, 16))
    <3>1. FieldIs("CNA_CVT_CON3", "CVT_SCALE2", 16, 16)
      BY FieldPlaces
    <3> QED
      BY <3>1, ClearPart
  <2> QED
    BY <2>1, <2>2, ClearParts
<1>18. Clear("CNA_CVT_CON4", W["CNA_CVT_CON4"])
  <2>1. W["CNA_CVT_CON4"] =
          Rk3588!F(1, 16, 16)
    BY WordsSent
  <2>2. Clear("CNA_CVT_CON4", Rk3588!F(1, 16, 16))
    <3>1. FieldIs("CNA_CVT_CON4", "CVT_SCALE3", 16, 16)
      BY FieldPlaces
    <3> QED
      BY <3>1, ClearPart
  <2> QED
    BY <2>1, <2>2, ClearParts
<1>19. Clear("CNA_FEATURE_DATA_ADDR", W["CNA_FEATURE_DATA_ADDR"])
  <2>1. WholeIs("CNA_FEATURE_DATA_ADDR", "VALUE")
    BY FieldPlaces
  <2> QED
    BY <2>1, ClearWhole
<1>20. Clear("CNA_DMA_CON0", W["CNA_DMA_CON0"])
  <2>1. W["CNA_DMA_CON0"] =
          Rk3588!F(15, 4, 16) \cup Rk3588!F(15, 4, 0)
    BY WordsSent
  <2>2. Clear("CNA_DMA_CON0", Rk3588!F(15, 4, 16))
    <3>1. FieldIs("CNA_DMA_CON0", "WEIGHT_BURST_LEN", 16, 4)
      BY FieldPlaces
    <3> QED
      BY <3>1, ClearPart
  <2>3. Clear("CNA_DMA_CON0", Rk3588!F(15, 4, 0))
    <3>1. FieldIs("CNA_DMA_CON0", "DATA_BURST_LEN", 0, 4)
      BY FieldPlaces
    <3> QED
      BY <3>1, ClearPart
  <2> QED
    BY <2>1, <2>2, <2>3, ClearParts
<1>21. Clear("CNA_DMA_CON1", W["CNA_DMA_CON1"])
  <2>1. W["CNA_DMA_CON1"] =
          Rk3588!F(Rk3588!LineStride, 28, 0)
    BY WordsSent
  <2>2. Clear("CNA_DMA_CON1", Rk3588!F(Rk3588!LineStride, 28, 0))
    <3>1. FieldIs("CNA_DMA_CON1", "LINE_STRIDE", 0, 28)
      BY FieldPlaces
    <3> QED
      BY <3>1, ClearPart
  <2> QED
    BY <2>1, <2>2, ClearParts
<1>22. Clear("CNA_DMA_CON2", W["CNA_DMA_CON2"])
  <2>1. W["CNA_DMA_CON2"] =
          Rk3588!F(Rk3588!SurfStride(c), 28, 0)
    BY WordsSent
  <2>2. Clear("CNA_DMA_CON2", Rk3588!F(Rk3588!SurfStride(c), 28, 0))
    <3>1. FieldIs("CNA_DMA_CON2", "SURF_STRIDE", 0, 28)
      BY FieldPlaces
    <3> QED
      BY <3>1, ClearPart
  <2> QED
    BY <2>1, <2>2, ClearParts
<1>23. Clear("CNA_FC_DATA_SIZE0", W["CNA_FC_DATA_SIZE0"])
  <2>1. W["CNA_FC_DATA_SIZE0"] =
          Rk3588!F(1, 11, 16) \cup Rk3588!F(c.m, 11, 0)
    BY WordsSent
  <2>2. Clear("CNA_FC_DATA_SIZE0", Rk3588!F(1, 11, 16))
    <3>1. FieldIs("CNA_FC_DATA_SIZE0", "DMA_WIDTH", 16, 14)
      BY FieldPlaces
    <3> QED
      BY <3>1, ClearPart
  <2>3. Clear("CNA_FC_DATA_SIZE0", Rk3588!F(c.m, 11, 0))
    <3>1. FieldIs("CNA_FC_DATA_SIZE0", "DMA_HEIGHT", 0, 11)
      BY FieldPlaces
    <3> QED
      BY <3>1, ClearPart
  <2> QED
    BY <2>1, <2>2, <2>3, ClearParts
<1>24. Clear("CNA_FC_DATA_SIZE1", W["CNA_FC_DATA_SIZE1"])
  <2>1. W["CNA_FC_DATA_SIZE1"] =
          Rk3588!F(c.k, 16, 0)
    BY WordsSent
  <2>2. Clear("CNA_FC_DATA_SIZE1", Rk3588!F(c.k, 16, 0))
    <3>1. FieldIs("CNA_FC_DATA_SIZE1", "DMA_CHANNEL", 0, 16)
      BY FieldPlaces
    <3> QED
      BY <3>1, ClearPart
  <2> QED
    BY <2>1, <2>2, ClearParts
<1>25. Clear("CNA_DCOMP_ADDR0", W["CNA_DCOMP_ADDR0"])
  <2>1. WholeIs("CNA_DCOMP_ADDR0", "VALUE")
    BY FieldPlaces
  <2> QED
    BY <2>1, ClearWhole
<1>26. Clear("CORE_MISC_CFG", W["CORE_MISC_CFG"])
  <2>1. W["CORE_MISC_CFG"] =
          Rk3588!F(Rk3588!Precision(c), 3, 8) \cup Rk3588!F(Rk3588!QdEn(c), 1, 0)
    BY WordsSent
  <2>2. Clear("CORE_MISC_CFG", Rk3588!F(Rk3588!Precision(c), 3, 8))
    <3>1. FieldIs("CORE_MISC_CFG", "PROC_PRECISION", 8, 3)
      BY FieldPlaces
    <3> QED
      BY <3>1, ClearPart
  <2>3. Clear("CORE_MISC_CFG", Rk3588!F(Rk3588!QdEn(c), 1, 0))
    <3>1. FieldIs("CORE_MISC_CFG", "QD_EN", 0, 1)
      BY FieldPlaces
    <3> QED
      BY <3>1, ClearPart
  <2> QED
    BY <2>1, <2>2, <2>3, ClearParts
<1>27. Clear("CORE_DATAOUT_SIZE_0", W["CORE_DATAOUT_SIZE_0"])
  <2>1. W["CORE_DATAOUT_SIZE_0"] =
          Rk3588!F(Rk3588!LastRow(c), 16, 16)
    BY WordsSent
  <2>2. Clear("CORE_DATAOUT_SIZE_0", Rk3588!F(Rk3588!LastRow(c), 16, 16))
    <3>1. FieldIs("CORE_DATAOUT_SIZE_0", "DATAOUT_HEIGHT", 16, 16)
      BY FieldPlaces
    <3> QED
      BY <3>1, ClearPart
  <2> QED
    BY <2>1, <2>2, ClearParts
<1>28. Clear("CORE_DATAOUT_SIZE_1", W["CORE_DATAOUT_SIZE_1"])
  <2>1. W["CORE_DATAOUT_SIZE_1"] =
          Rk3588!F(Rk3588!LastKernel(c), 16, 0)
    BY WordsSent
  <2>2. Clear("CORE_DATAOUT_SIZE_1", Rk3588!F(Rk3588!LastKernel(c), 16, 0))
    <3>1. FieldIs("CORE_DATAOUT_SIZE_1", "DATAOUT_CHANNEL", 0, 16)
      BY FieldPlaces
    <3> QED
      BY <3>1, ClearPart
  <2> QED
    BY <2>1, <2>2, ClearParts
<1>29. Clear("DPU_FEATURE_MODE_CFG", W["DPU_FEATURE_MODE_CFG"])
  <2>1. W["DPU_FEATURE_MODE_CFG"] =
          Rk3588!F(15, 4, 5) \cup Rk3588!F(2, 2, 1)
    BY WordsSent
  <2>2. Clear("DPU_FEATURE_MODE_CFG", Rk3588!F(15, 4, 5))
    <3>1. FieldIs("DPU_FEATURE_MODE_CFG", "BURST_LEN", 5, 4)
      BY FieldPlaces
    <3> QED
      BY <3>1, ClearPart
  <2>3. Clear("DPU_FEATURE_MODE_CFG", Rk3588!F(2, 2, 1))
    <3>1. FieldIs("DPU_FEATURE_MODE_CFG", "OUTPUT_MODE", 1, 2)
      BY FieldPlaces
    <3> QED
      BY <3>1, ClearPart
  <2> QED
    BY <2>1, <2>2, <2>3, ClearParts
<1>30. Clear("DPU_DATA_FORMAT", W["DPU_DATA_FORMAT"])
  <2>1. W["DPU_DATA_FORMAT"] =
          Rk3588!F(Rk3588!OutPrecision(c), 3, 29) \cup Rk3588!F(Rk3588!Precision(c), 3, 26)
              \cup Rk3588!F(Rk3588!Precision(c), 3, 0)
    BY WordsSent
  <2>2. Clear("DPU_DATA_FORMAT", Rk3588!F(Rk3588!OutPrecision(c), 3, 29))
    <3>1. FieldIs("DPU_DATA_FORMAT", "OUT_PRECISION", 29, 3)
      BY FieldPlaces
    <3> QED
      BY <3>1, ClearPart
  <2>3. Clear("DPU_DATA_FORMAT", Rk3588!F(Rk3588!Precision(c), 3, 26))
    <3>1. FieldIs("DPU_DATA_FORMAT", "IN_PRECISION", 26, 3)
      BY FieldPlaces
    <3> QED
      BY <3>1, ClearPart
  <2>4. Clear("DPU_DATA_FORMAT", Rk3588!F(Rk3588!Precision(c), 3, 0))
    <3>1. FieldIs("DPU_DATA_FORMAT", "PROC_PRECISION", 0, 3)
      BY FieldPlaces
    <3> QED
      BY <3>1, ClearPart
  <2>5. Clear("DPU_DATA_FORMAT", Rk3588!F(Rk3588!OutPrecision(c), 3, 29)
                                  \cup Rk3588!F(Rk3588!Precision(c), 3, 26))
    BY <2>2, <2>3, ClearParts
  <2> QED
    BY <2>1, <2>5, <2>4, ClearParts
<1>31. Clear("DPU_DST_BASE_ADDR", W["DPU_DST_BASE_ADDR"])
  <2>1. WholeIs("DPU_DST_BASE_ADDR", "VALUE")
    BY FieldPlaces
  <2> QED
    BY <2>1, ClearWhole
<1>32. Clear("DPU_DST_SURF_STRIDE", W["DPU_DST_SURF_STRIDE"])
  <2>1. W["DPU_DST_SURF_STRIDE"] =
          Rk3588!F(c.m, 28, 4)
    BY WordsSent
  <2>2. Clear("DPU_DST_SURF_STRIDE", Rk3588!F(c.m, 28, 4))
    <3>1. FieldIs("DPU_DST_SURF_STRIDE", "DST_SURF_STRIDE", 4, 28)
      BY FieldPlaces
    <3> QED
      BY <3>1, ClearPart
  <2> QED
    BY <2>1, <2>2, ClearParts
<1>33. Clear("DPU_DATA_CUBE_HEIGHT", W["DPU_DATA_CUBE_HEIGHT"])
  <2>1. W["DPU_DATA_CUBE_HEIGHT"] =
          Rk3588!F(Rk3588!LastRow(c), 13, 0)
    BY WordsSent
  <2>2. Clear("DPU_DATA_CUBE_HEIGHT", Rk3588!F(Rk3588!LastRow(c), 13, 0))
    <3>1. FieldIs("DPU_DATA_CUBE_HEIGHT", "HEIGHT", 0, 13)
      BY FieldPlaces
    <3> QED
      BY <3>1, ClearPart
  <2> QED
    BY <2>1, <2>2, ClearParts
<1>34. Clear("DPU_DATA_CUBE_CHANNEL", W["DPU_DATA_CUBE_CHANNEL"])
  <2>1. W["DPU_DATA_CUBE_CHANNEL"] =
          Rk3588!F(Rk3588!LastKernel(c), 13, 16) \cup Rk3588!F(Rk3588!LastKernel(c), 13, 0)
    BY WordsSent
  <2>2. Clear("DPU_DATA_CUBE_CHANNEL", Rk3588!F(Rk3588!LastKernel(c), 13, 16))
    <3>1. FieldIs("DPU_DATA_CUBE_CHANNEL", "ORIG_CHANNEL", 16, 13)
      BY FieldPlaces
    <3> QED
      BY <3>1, ClearPart
  <2>3. Clear("DPU_DATA_CUBE_CHANNEL", Rk3588!F(Rk3588!LastKernel(c), 13, 0))
    <3>1. FieldIs("DPU_DATA_CUBE_CHANNEL", "CHANNEL", 0, 13)
      BY FieldPlaces
    <3> QED
      BY <3>1, ClearPart
  <2> QED
    BY <2>1, <2>2, <2>3, ClearParts
<1>35. Clear("DPU_BS_CFG", W["DPU_BS_CFG"])
  <2>1. W["DPU_BS_CFG"] =
          {6} \cup {4} \cup {1} \cup {0}
    BY WordsSent DEF Rk3588!Bypass
  <2>2. Clear("DPU_BS_CFG", {6})
    <3>1. FieldIs("DPU_BS_CFG", "BS_RELU_BYPASS", 6, 1)
      BY FieldPlaces
    <3>2. {6} \subseteq 6..6+1-1
      OBVIOUS
    <3> QED
      BY <3>1, <3>2, ClearBits
  <2>3. Clear("DPU_BS_CFG", {4})
    <3>1. FieldIs("DPU_BS_CFG", "BS_MUL_BYPASS", 4, 1)
      BY FieldPlaces
    <3>2. {4} \subseteq 4..4+1-1
      OBVIOUS
    <3> QED
      BY <3>1, <3>2, ClearBits
  <2>4. Clear("DPU_BS_CFG", {1})
    <3>1. FieldIs("DPU_BS_CFG", "BS_ALU_BYPASS", 1, 1)
      BY FieldPlaces
    <3>2. {1} \subseteq 1..1+1-1
      OBVIOUS
    <3> QED
      BY <3>1, <3>2, ClearBits
  <2>5. Clear("DPU_BS_CFG", {0})
    <3>1. FieldIs("DPU_BS_CFG", "BS_BYPASS", 0, 1)
      BY FieldPlaces
    <3>2. {0} \subseteq 0..0+1-1
      OBVIOUS
    <3> QED
      BY <3>1, <3>2, ClearBits
  <2>6. Clear("DPU_BS_CFG", {6} \cup {4})
    BY <2>2, <2>3, ClearParts
  <2>7. Clear("DPU_BS_CFG", {6} \cup {4} \cup {1})
    BY <2>6, <2>4, ClearParts
  <2> QED
    BY <2>1, <2>7, <2>5, ClearParts
<1>36. Clear("DPU_BS_OW_CFG", W["DPU_BS_OW_CFG"])
  <2>1. W["DPU_BS_OW_CFG"] =
          Rk3588!F(Rk3588!SizeE(c), 3, 8) \cup Rk3588!F(Rk3588!SizeE(c), 3, 5)
              \cup Rk3588!F(Rk3588!SizeE(c), 3, 2) \cup {1}
    BY WordsSent
  <2>2. Clear("DPU_BS_OW_CFG", Rk3588!F(Rk3588!SizeE(c), 3, 8))
    <3>1. FieldIs("DPU_BS_OW_CFG", "SIZE_E_2", 8, 3)
      BY FieldPlaces
    <3> QED
      BY <3>1, ClearPart
  <2>3. Clear("DPU_BS_OW_CFG", Rk3588!F(Rk3588!SizeE(c), 3, 5))
    <3>1. FieldIs("DPU_BS_OW_CFG", "SIZE_E_1", 5, 3)
      BY FieldPlaces
    <3> QED
      BY <3>1, ClearPart
  <2>4. Clear("DPU_BS_OW_CFG", Rk3588!F(Rk3588!SizeE(c), 3, 2))
    <3>1. FieldIs("DPU_BS_OW_CFG", "SIZE_E_0", 2, 3)
      BY FieldPlaces
    <3> QED
      BY <3>1, ClearPart
  <2>5. Clear("DPU_BS_OW_CFG", {1})
    <3>1. FieldIs("DPU_BS_OW_CFG", "OD_BYPASS", 1, 1)
      BY FieldPlaces
    <3>2. {1} \subseteq 1..1+1-1
      OBVIOUS
    <3> QED
      BY <3>1, <3>2, ClearBits
  <2>6. Clear("DPU_BS_OW_CFG", Rk3588!F(Rk3588!SizeE(c), 3, 8)
                                \cup Rk3588!F(Rk3588!SizeE(c), 3, 5))
    BY <2>2, <2>3, ClearParts
  <2>7. Clear("DPU_BS_OW_CFG", Rk3588!F(Rk3588!SizeE(c), 3, 8)
                                \cup Rk3588!F(Rk3588!SizeE(c), 3, 5)
                                \cup Rk3588!F(Rk3588!SizeE(c), 3, 2))
    BY <2>6, <2>4, ClearParts
  <2> QED
    BY <2>1, <2>7, <2>5, ClearParts
<1>37. Clear("DPU_WDMA_SIZE_0", W["DPU_WDMA_SIZE_0"])
  <2>1. W["DPU_WDMA_SIZE_0"] =
          Rk3588!F(Rk3588!LastKernel(c), 13, 0)
    BY WordsSent
  <2>2. Clear("DPU_WDMA_SIZE_0", Rk3588!F(Rk3588!LastKernel(c), 13, 0))
    <3>1. FieldIs("DPU_WDMA_SIZE_0", "CHANNEL_WDMA", 0, 13)
      BY FieldPlaces
    <3> QED
      BY <3>1, ClearPart
  <2> QED
    BY <2>1, <2>2, ClearParts
<1>38. Clear("DPU_WDMA_SIZE_1", W["DPU_WDMA_SIZE_1"])
  <2>1. W["DPU_WDMA_SIZE_1"] =
          Rk3588!F(Rk3588!LastRow(c), 13, 16)
    BY WordsSent
  <2>2. Clear("DPU_WDMA_SIZE_1", Rk3588!F(Rk3588!LastRow(c), 13, 16))
    <3>1. FieldIs("DPU_WDMA_SIZE_1", "HEIGHT_WDMA", 16, 13)
      BY FieldPlaces
    <3> QED
      BY <3>1, ClearPart
  <2> QED
    BY <2>1, <2>2, ClearParts
<1>39. Clear("DPU_BN_CFG", W["DPU_BN_CFG"])
  <2>1. W["DPU_BN_CFG"] =
          {6} \cup {4} \cup {1} \cup {0}
    BY WordsSent DEF Rk3588!Bypass
  <2>2. Clear("DPU_BN_CFG", {6})
    <3>1. FieldIs("DPU_BN_CFG", "BN_RELU_BYPASS", 6, 1)
      BY FieldPlaces
    <3>2. {6} \subseteq 6..6+1-1
      OBVIOUS
    <3> QED
      BY <3>1, <3>2, ClearBits
  <2>3. Clear("DPU_BN_CFG", {4})
    <3>1. FieldIs("DPU_BN_CFG", "BN_MUL_BYPASS", 4, 1)
      BY FieldPlaces
    <3>2. {4} \subseteq 4..4+1-1
      OBVIOUS
    <3> QED
      BY <3>1, <3>2, ClearBits
  <2>4. Clear("DPU_BN_CFG", {1})
    <3>1. FieldIs("DPU_BN_CFG", "BN_ALU_BYPASS", 1, 1)
      BY FieldPlaces
    <3>2. {1} \subseteq 1..1+1-1
      OBVIOUS
    <3> QED
      BY <3>1, <3>2, ClearBits
  <2>5. Clear("DPU_BN_CFG", {0})
    <3>1. FieldIs("DPU_BN_CFG", "BN_BYPASS", 0, 1)
      BY FieldPlaces
    <3>2. {0} \subseteq 0..0+1-1
      OBVIOUS
    <3> QED
      BY <3>1, <3>2, ClearBits
  <2>6. Clear("DPU_BN_CFG", {6} \cup {4})
    BY <2>2, <2>3, ClearParts
  <2>7. Clear("DPU_BN_CFG", {6} \cup {4} \cup {1})
    BY <2>6, <2>4, ClearParts
  <2> QED
    BY <2>1, <2>7, <2>5, ClearParts
<1>40. Clear("DPU_EW_CFG", W["DPU_EW_CFG"])
  <2>1. W["DPU_EW_CFG"] =
          {9} \cup {8} \cup {7} \cup {1} \cup {0}
    BY WordsSent
  <2>2. Clear("DPU_EW_CFG", {9})
    <3>1. FieldIs("DPU_EW_CFG", "EW_RELU_BYPASS", 9, 1)
      BY FieldPlaces
    <3>2. {9} \subseteq 9..9+1-1
      OBVIOUS
    <3> QED
      BY <3>1, <3>2, ClearBits
  <2>3. Clear("DPU_EW_CFG", {8})
    <3>1. FieldIs("DPU_EW_CFG", "EW_OP_CVT_BYPASS", 8, 1)
      BY FieldPlaces
    <3>2. {8} \subseteq 8..8+1-1
      OBVIOUS
    <3> QED
      BY <3>1, <3>2, ClearBits
  <2>4. Clear("DPU_EW_CFG", {7})
    <3>1. FieldIs("DPU_EW_CFG", "EW_LUT_BYPASS", 7, 1)
      BY FieldPlaces
    <3>2. {7} \subseteq 7..7+1-1
      OBVIOUS
    <3> QED
      BY <3>1, <3>2, ClearBits
  <2>5. Clear("DPU_EW_CFG", {1})
    <3>1. FieldIs("DPU_EW_CFG", "EW_OP_BYPASS", 1, 1)
      BY FieldPlaces
    <3>2. {1} \subseteq 1..1+1-1
      OBVIOUS
    <3> QED
      BY <3>1, <3>2, ClearBits
  <2>6. Clear("DPU_EW_CFG", {0})
    <3>1. FieldIs("DPU_EW_CFG", "EW_BYPASS", 0, 1)
      BY FieldPlaces
    <3>2. {0} \subseteq 0..0+1-1
      OBVIOUS
    <3> QED
      BY <3>1, <3>2, ClearBits
  <2>7. Clear("DPU_EW_CFG", {9} \cup {8})
    BY <2>2, <2>3, ClearParts
  <2>8. Clear("DPU_EW_CFG", {9} \cup {8} \cup {7})
    BY <2>7, <2>4, ClearParts
  <2>9. Clear("DPU_EW_CFG", {9} \cup {8} \cup {7} \cup {1})
    BY <2>8, <2>5, ClearParts
  <2> QED
    BY <2>1, <2>9, <2>6, ClearParts
<1>41. Clear("DPU_EW_CVT_SCALE_VALUE", W["DPU_EW_CVT_SCALE_VALUE"])
  <2>1. W["DPU_EW_CVT_SCALE_VALUE"] =
          {0}
    BY WordsSent, SomeBits, SameWords
  <2>2. Clear("DPU_EW_CVT_SCALE_VALUE", {0})
    <3>1. FieldIs("DPU_EW_CVT_SCALE_VALUE", "EW_OP_CVT_SCALE", 0, 16)
      BY FieldPlaces
    <3>2. {0} \subseteq 0..0+16-1
      OBVIOUS
    <3> QED
      BY <3>1, <3>2, ClearBits
  <2> QED
    BY <2>1, <2>2, ClearParts
<1>42. Clear("DPU_OUT_CVT_SCALE", W["DPU_OUT_CVT_SCALE"])
  <2>1. W["DPU_OUT_CVT_SCALE"] =
          Rk3588!F(Rk3588!ToFp16(c), 1, 16) \cup Rk3588!F(1, 16, 0)
    BY WordsSent
  <2>2. Clear("DPU_OUT_CVT_SCALE", Rk3588!F(Rk3588!ToFp16(c), 1, 16))
    <3>1. FieldIs("DPU_OUT_CVT_SCALE", "FP32TOFP16_EN", 16, 1)
      BY FieldPlaces
    <3> QED
      BY <3>1, ClearPart
  <2>3. Clear("DPU_OUT_CVT_SCALE", Rk3588!F(1, 16, 0))
    <3>1. FieldIs("DPU_OUT_CVT_SCALE", "OUT_CVT_SCALE", 0, 16)
      BY FieldPlaces
    <3> QED
      BY <3>1, ClearPart
  <2> QED
    BY <2>1, <2>2, <2>3, ClearParts
<1>43. Clear("DPU_SURFACE_ADD", W["DPU_SURFACE_ADD"])
  <2>1. W["DPU_SURFACE_ADD"] =
          Rk3588!F(Rk3588!SurfAdd(c), 28, 4)
    BY WordsSent
  <2>2. Clear("DPU_SURFACE_ADD", Rk3588!F(Rk3588!SurfAdd(c), 28, 4))
    <3>1. FieldIs("DPU_SURFACE_ADD", "SURF_ADD", 4, 28)
      BY FieldPlaces
    <3> QED
      BY <3>1, ClearPart
  <2> QED
    BY <2>1, <2>2, ClearParts
<1> HIDE DEF W
<1>50. \A r \in DOMAIN W : Clear(r, W[r])
  <2> TAKE r \in DOMAIN W
  <2> QED
    BY <1>1, <1>2, <1>3, <1>4, <1>5, <1>6, <1>7, <1>8, <1>9, <1>10, <1>11, <1>12, <1>13,
    <1>14, <1>15, <1>16, <1>17, <1>18, <1>19, <1>20, <1>21, <1>22, <1>23, <1>24, <1>25, <1>26,
    <1>27, <1>28, <1>29, <1>30, <1>31, <1>32, <1>33, <1>34, <1>35, <1>36, <1>37, <1>38, <1>39,
    <1>40, <1>41, <1>42, <1>43, SentNames DEF W
<1> QED
  BY <1>50 DEF W

(* The other registers are cleared, so no register's word has such a bit.  *)
LEMMA WordsAreClear ==
  \A c : c.k \in Nat /\ c.k # 0 /\ c.k <= Power[14] =>
    \A r \in Settings : Clear(r, RkWord(c)[r])
<1> SUFFICES ASSUME NEW c, c.k \in Nat, c.k # 0, c.k <= Power[14], NEW r \in Settings
             PROVE  Clear(r, RkWord(c)[r])
  OBVIOUS
<1>1. RkWord(c)[r] = Cut(Word(c, r), 32)
  BY DEF RkWord
<1>2. Clear(r, Word(c, r))
  <2>1. CASE r \in DOMAIN Sent(c)
    BY <2>1, SentClear, WordIs
  <2>2. CASE r \notin DOMAIN Sent(c)
    BY <2>2, WordIs, ClearParts
  <2> QED
    BY <2>1, <2>2
<1> QED
  BY <1>1, <1>2 DEF Clear, Cut

(* A command of an rk3588 list is for a register that is set, for one that *)
(* is not documented, or for no unit.                                      *)
LEMMA TaskGoes ==
  \A c : \A cmd \in CommandsIn(Rk3588!gen_matmul_task(c)) :
    \/ ~Writes(cmd)
    \/ \E r \in Settings : Key(cmd) = Place(r)
    \/ Key(cmd) \in Undocumented \cup Raw
<1> SUFFICES ASSUME NEW c, NEW cmd \in CommandsIn(Rk3588!gen_matmul_task(c)), Writes(cmd)
             PROVE  \/ \E r \in Settings : Key(cmd) = Place(r)
                    \/ Key(cmd) \in Undocumented \cup Raw
  OBVIOUS
<1>1. cmd \in {SentCmd(c, r) : r \in TaskRegs} \/ cmd \in Enabling
  BY TaskCovers
<1>2. CASE cmd \in Enabling
  BY <1>2, EnablingIs DEF Settings
<1>3. ASSUME NEW r \in TaskRegs, cmd = SentCmd(c, r)
      PROVE  \/ \E q \in Settings : Key(cmd) = Place(q)
             \/ Key(cmd) \in Undocumented \cup Raw
  BY <1>3, SentLands, UndocumentedSent DEF TaskRegs, Settings
<1> QED
  BY <1>1, <1>2, <1>3

(* The numbers that are not documented, and those of the commands for no   *)
(* unit, name no register of the header.                                   *)
LEMMA NoneUndocumented == \A r \in DOMAIN Registers : Place(r) \notin Undocumented \cup Raw
<1> SUFFICES ASSUME NEW r \in DOMAIN Registers, Place(r) \in Undocumented \cup Raw
             PROVE  FALSE
  OBVIOUS
<1>1. PICK no : no = Registers[r].no
  OBVIOUS
<1>2. no \in Nat /\ no < 65536
  BY <1>1, NumberBounds
<1>3. Place(r) \notin Known
  BY NotKnown
<1>4. r \notin Settings
  BY <1>3, SettingKeys
<1>5. r # "PC_OPERATION_ENABLE"
  <2>1. "PC_OPERATION_ENABLE" \in DOMAIN PcRegs
    BY GroupNames
  <2>2. /\ Registers["PC_OPERATION_ENABLE"].no \in UnitRegs["PC"]
        /\ "PC_OPERATION_ENABLE" \in DOMAIN Registers
    BY <2>1, UnitHas, RegisterNames, AllGroups DEF UnitRegs
  <2>3. "PC" \in {"PC", "CNA", "CORE", "DPU"} /\ {} \in SUBSET Low(32)
    OBVIOUS
  <2>4. Place("PC_OPERATION_ENABLE") \in Known
    BY <2>2, <2>3, MesaLands, Zenon
  <2> QED
    BY <1>3, <2>4
<1>6. \/ r \in {"CNA_S_POINTER", "CNA_OPERATION_ENABLE", "DPU_OPERATION_ENABLE"}
      \/ \h5000 < no /\ no < \h6000
  BY <1>1, <1>4, <1>5, AllRegisters DEF Settings, Config
<1>7. no = \h1004 \/ no = \h1008 \/ no = \h4008 \/ (\h5000 < no /\ no < \h6000)
  <2>1. /\ Registers["CNA_S_POINTER"].no = \h1004
        /\ Registers["CNA_OPERATION_ENABLE"].no = \h1008
    BY InGroups, GroupNames DEF CnaEnable, R
  <2>2. Registers["DPU_OPERATION_ENABLE"].no = \h4008
    BY InGroups, GroupNames DEF DpuEnable, R
  <2> QED
    BY <1>1, <1>6, <2>1, <2>2
<1>8. Bits(no) = Bits(\h3030) \/ Bits(no) = Bits(\h40C4) \/ Bits(no) = Bits(\h8)
        \/ Bits(no) = Bits(0)
  <2>1. Bits(0) = {}
    BY SomeBits
  <2>2. Place(r)[2] = Bits(no)
    BY <1>1 DEF Place
  <2> QED
    BY <2>1, <2>2 DEF Undocumented, Raw
<1>9. no = \h3030 \/ no = \h40C4 \/ no = \h8 \/ no = 0
  <2>1. \A n \in Nat : n < 65536 /\ Bits(no) = Bits(n) => no = n
    BY <1>2, BitsDiffer
  <2> QED
    BY <1>8, <2>1
<1> QED
  BY <1>7, <1>9

(* No command of an rk3588 job sets a bit that the header reserves, if     *)
(* there are channels at all, as the programs see to (ReservedClear).      *)
THEOREM ReservedBitsClear == 0 \notin Ks => (Spec => []ReservedClear)
<1> SUFFICES ASSUME 0 \notin Ks PROVE Spec => []ReservedClear
  OBVIOUS
<1>1. FetchInv => ReservedClear
  <2> SUFFICES ASSUME FetchInv, job.gen = "rk3588", job.call.k <= 2^14,
                      NEW r \in DOMAIN Registers, Wrote(Place(r))
               PROVE  Reserved(r, file[Place(r)]) = {}
    <3>1. \A d \in Described : \E r \in DOMAIN Registers : d[1] = r /\ d[2] = Place(r)
      BY DEF Described
    <3> QED
      BY <3>1 DEF ReservedClear
  <2>1. pos \in 1..Len(list) /\ Writes(list[pos]) /\ Key(list[pos]) = Place(r)
    BY ListLength DEF FetchInv, Wrote
  <2>2. list = Rk3588!gen_matmul_task(job.call)
    BY DEF FetchInv, Commands, Small!SmallPrograms
  <2>3. list[pos] \in CommandsIn(list)
    BY <2>1, Fetched
  <2>4. (\E q \in Settings : Place(r) = Place(q)) \/ Place(r) \in Undocumented \cup Raw
    BY <2>1, <2>2, <2>3, TaskGoes
  <2>5. r \in Settings
    BY <2>4, NoneUndocumented, PlacesDiffer, SettingPlaces
  <2>6. Place(r) \in fresh
    <3>1. pos \in 1..pos
      BY <2>1
    <3> QED
      BY <2>1, <3>1 DEF FetchInv
  <2>7. file[Place(r)] = RkWord(job.call)[r]
    BY <2>5, <2>6, FreshHold DEF JobWord
  <2>8. job.call.k \in Nat /\ job.call.k # 0 /\ job.call.k <= Power[14]
    <3>1. job.call.k \in Ks
      BY DEF FetchInv, Requests, Calls, Small!SmallPrograms
    <3>2. Ks \subseteq Nat
      BY DimsAssumption, WidthsAssumption
    <3>3. job.call.k <= Power[14]
      <4>1. Power[14] = 2^14
        BY DEF Power
      <4> QED
        BY <4>1, Zenon
    <3>4. job.call.k # 0
      BY <3>1, Zenon
    <3> QED
      BY <3>1, <3>2, <3>3, <3>4, Zenon
  <2>9. Clear(r, file[Place(r)])
    BY <2>5, <2>7, <2>8, WordsAreClear
  <2>10. file[Place(r)] \subseteq Low(32)
    BY <2>6 DEF FetchInv
  <2> QED
    BY <2>9, <2>10 DEF Clear, Cut
<1> QED
  BY <1>1, FetchInvariant, PTL
=============================================================================
