------------------------- MODULE HostRuntime_proofs -------------------------
(***************************************************************************)
(* Only verified firmware runs; every request is in one place; every fault *)
(* has its command; every answer belongs to its request: for every set of  *)
(* requests, images, queue sizes and resets.                               *)
(***************************************************************************)
EXTENDS HostRuntime, FiniteSetTheorems, FunctionTheorems, WellFoundedInduction, TLAPS

Fields ==
  {"status", "enabled", "entries", "command_ring", "completion_ring", "fault_ring",
   "pending", "kv_pages", "secure_verified", "boot_failed", "debug_locked",
   "firmware_version", "otp_minimum_version", "counters", "dropped"}

\* What serving requests may do to the security state: nothing, except that the
\* device may stop.
SameSecurity(d, e) ==
  /\ DOMAIN e = Fields
  /\ e.secure_verified = d.secure_verified /\ e.boot_failed = d.boot_failed
  /\ e.firmware_version = d.firmware_version
  /\ e.otp_minimum_version = d.otp_minimum_version
  /\ e.enabled => d.enabled /\ e.status = d.status

LEMMA SameTransitive ==
  ASSUME NEW c, NEW d, NEW e, SameSecurity(c, d), SameSecurity(d, e)
  PROVE  SameSecurity(c, e)
BY DEF SameSecurity

LEMMA CountSame ==
  ASSUME NEW d, DOMAIN d = Fields, NEW counter, NEW amount
  PROVE  SameSecurity(d, Increment(d, counter, amount)) /\ SameSecurity(d, Count(d, counter))
BY DEF Increment, Count, SameSecurity, Fields

LEMMA CompleteSame ==
  ASSUME NEW d, DOMAIN d = Fields, NEW id, NEW status, NEW result
  PROVE  SameSecurity(d, Complete(d, id, status, result))
<1>. DEFINE completion == [request_id |-> id, status |-> status, result |-> result]
            stopped == [Count(d, "QUEUE_ERRORS") EXCEPT
                          !.status = "FATAL", !.enabled = FALSE, !.dropped = @ \cup {id}]
            appended == [d EXCEPT !.completion_ring = Append(@, completion)]
            pushed == Count(appended, "COMPLETED")
<1>1. SameSecurity(d, stopped)
  <2>1. SameSecurity(d, Count(d, "QUEUE_ERRORS")) BY CountSame
  <2>. QED BY <2>1 DEF SameSecurity, Fields
<1>2. SameSecurity(d, appended) BY DEF SameSecurity, Fields
<1>3. SameSecurity(d, pushed)
  <2>1. DOMAIN appended = Fields BY <1>2 DEF SameSecurity
  <2>2. SameSecurity(appended, pushed) BY <2>1, CountSame
  <2>. HIDE DEF appended, pushed
  <2>. QED BY <1>2, <2>2, SameTransitive
<1>4. SameSecurity(d, Count(pushed, "ERRORS"))
  <2>1. DOMAIN pushed = Fields BY <1>3 DEF SameSecurity
  <2>. HIDE DEF pushed
  <2>2. SameSecurity(pushed, Count(pushed, "ERRORS")) BY <2>1, CountSame
  <2>. QED BY <1>3, <2>2, SameTransitive
<1>5. Complete(d, id, status, result) \in {stopped, pushed, Count(pushed, "ERRORS")}
  BY DEF Complete
<1>. HIDE DEF stopped, pushed
<1>. QED BY <1>1, <1>3, <1>4, <1>5

LEMMA TranslateSame ==
  ASSUME NEW d, DOMAIN d = Fields, NEW command
  PROVE  SameSecurity(d, Translate(d, command))
<1>. DEFINE id == command.request_id
            page == command.argument
            faulted == Count(d, "KV_FAULTS")
            parked == [faulted EXCEPT !.pending = @ \cup {command},
                                      !.fault_ring = Append(@, Fault(command))]
            overflowed == Count(faulted, "FAULT_OVERFLOWS")
            mapped == Complete(d, id, "OK", <<"page", d.kv_pages[page]>>)
            missed == Complete(overflowed, id, "KV_MISS", <<"page", page>>)
<1>1. SameSecurity(d, faulted) BY CountSame
<1>2. DOMAIN faulted = Fields BY <1>1 DEF SameSecurity
<1>3. SameSecurity(d, parked)
  <2>. HIDE DEF faulted
  <2>1. SameSecurity(faulted, parked) BY <1>2 DEF SameSecurity, Fields
  <2>. HIDE DEF parked
  <2>. QED BY <1>1, <2>1, SameTransitive
<1>4. SameSecurity(d, missed)
  <2>. HIDE DEF faulted
  <2>1. SameSecurity(faulted, overflowed) BY <1>2, CountSame
  <2>2. DOMAIN overflowed = Fields BY <2>1 DEF SameSecurity
  <2>. HIDE DEF overflowed
  <2>3. SameSecurity(overflowed, missed) BY <2>2, CompleteSame
  <2>. HIDE DEF missed
  <2>. QED BY <1>1, <2>1, <2>3, SameTransitive
<1>5. SameSecurity(d, mapped) BY CompleteSame
<1>6. Translate(d, command) \in {mapped, parked, missed} BY DEF Translate
<1>. HIDE DEF mapped, parked, missed
<1>. QED BY <1>3, <1>4, <1>5, <1>6

LEMMA ExecuteSame ==
  ASSUME NEW d, DOMAIN d = Fields, NEW command
  PROVE  SameSecurity(d, Execute(d, command))
<1>1. SameSecurity(d, RunGraph(d, command))
  <2>. DEFINE counted == IF GraphValid(command.graph, command.priority)
                         THEN Increment(d, "GRAPH_NODES", Len(command.graph)) ELSE d
              answer == GraphAnswers[<<command.graph, command.priority>>]
  <2>1. SameSecurity(d, counted)
    <3>1. SameSecurity(d, d) BY DEF SameSecurity
    <3>2. SameSecurity(d, Increment(d, "GRAPH_NODES", Len(command.graph))) BY CountSame
    <3>. QED BY <3>1, <3>2
  <2>2. DOMAIN counted = Fields BY <2>1 DEF SameSecurity
  <2>. HIDE DEF counted
  <2>3. SameSecurity(counted, Complete(counted, command.request_id,
                                       answer.status, answer.result))
    BY <2>2, CompleteSame
  <2>4. RunGraph(d, command)
          = Complete(counted, command.request_id, answer.status, answer.result)
    BY DEF RunGraph, counted
  <2>. QED BY <2>1, <2>3, <2>4, SameTransitive
<1>2. SameSecurity(d, Translate(d, command)) BY TranslateSame
<1>3. \A status, result : SameSecurity(d, Complete(d, command.request_id, status, result))
  BY CompleteSame
<1>. QED BY <1>1, <1>2, <1>3 DEF Execute

LEMMA ServeFaultSame ==
  ASSUME NEW d, DOMAIN d = Fields, NEW fault
  PROVE  SameSecurity(d, ServeFault(d, fault))
<1>. DEFINE id == fault.request_id
            m == Mapped(d, fault.address)
            u == Unparked(m, id)
            r == Replay(m, id)
<1>1. SameSecurity(d, m) BY DEF Mapped, SameSecurity, Fields
<1>2. DOMAIN m = Fields BY <1>1 DEF SameSecurity
<1>. HIDE DEF m
<1>3. SameSecurity(m, u) BY <1>2 DEF Unparked, SameSecurity, Fields
<1>4. DOMAIN u = Fields BY <1>3 DEF SameSecurity
<1>5. SameSecurity(m, r)
  <2>. DEFINE command == CHOOSE c \in PendingOf(m, id) : TRUE
              again == [command EXCEPT !.retry_count = @ + 1]
  <2>1. r = u \/ r = Execute(u, again) BY DEF Replay
  <2>. HIDE DEF u, r, again
  <2>2. SameSecurity(u, Execute(u, again)) BY <1>4, ExecuteSame
  <2>. QED BY <1>3, <2>1, <2>2, SameTransitive
<1>6. DOMAIN r = Fields BY <1>5 DEF SameSecurity
<1>7. ServeFault(d, fault) = r \/ ServeFault(d, fault) = Count(r, "KV_RECOVERED")
  BY DEF ServeFault, Recovered, m
<1>. HIDE DEF r
<1>8. SameSecurity(r, Count(r, "KV_RECOVERED")) BY <1>6, CountSame
<1>. QED BY <1>1, <1>5, <1>7, <1>8, SameTransitive

-----------------------------------------------------------------------------
\* The inductive invariant: a boot that stops at the queue size leaves the
\* device enabled if it was, so a device is enabled only by a firmware whose
\* queue size is good, and its boots do not stop there.
Verified(d) ==
  /\ d.secure_verified /\ ~ d.boot_failed /\ d.status = "RUNNING"
  /\ d.firmware_version = d.otp_minimum_version
  /\ QueueSizeValid(queue_entries)

SecurityInv ==
  /\ DOMAIN device = Fields
  /\ device.otp_minimum_version \in Nat
  /\ device.enabled => Verified(device)

LEMMA ServingKeeps ==
  ASSUME SecurityInv, SameSecurity(device, device'), UNCHANGED queue_entries
  PROVE  SecurityInv'
BY DEF SecurityInv, SameSecurity, Verified, QueueSizeValid

LEMMA BootKeeps ==
  ASSUME SecurityInv, NEW image \in Images, NEW lock_debug, Boot(image, lock_debug)
  PROVE  SecurityInv'
<1>. DEFINE attempted == Count(device, "BOOT_ATTEMPTS")
            failed == BootFailed(attempted)
            fresh == InitializeQueues(attempted, queue_entries)
            booted == [fresh EXCEPT
                         !.secure_verified = TRUE, !.boot_failed = FALSE,
                         !.firmware_version = image.security_version,
                         !.otp_minimum_version = Larger(@, image.security_version),
                         !.debug_locked = @ \/ lock_debug,
                         !.enabled = TRUE, !.status = "RUNNING"]
<1>0. image.security_version \in Nat /\ queue_entries' = queue_entries
  BY HostAssumption DEF Boot
<1>1. SameSecurity(device, attempted) BY CountSame DEF SecurityInv
<1>8. device' = IF ~ RomVerify(device, image)
                THEN [failed EXCEPT !.secure_verified = FALSE, !.enabled = FALSE]
                ELSE IF ~ QueueSizeValid(queue_entries) THEN failed ELSE booted
  <2>1. device' = BootDevice(device, image, queue_entries, lock_debug) BY DEF Boot
  <2>. QED BY ONLY <2>1, Zenon DEF BootDevice
<1>2. DOMAIN attempted = Fields BY <1>1 DEF SameSecurity
<1>. HIDE DEF attempted
<1>3. /\ DOMAIN failed = Fields /\ failed.enabled = attempted.enabled
      /\ failed.otp_minimum_version = attempted.otp_minimum_version
  <2>1. SameSecurity(attempted, Count(attempted, "BOOT_FAILURES")) BY <1>2, CountSame
  <2>2. Count(attempted, "BOOT_FAILURES").enabled = attempted.enabled
    BY <1>2 DEF Count, Increment, Fields
  <2>. QED BY <2>1, <2>2 DEF BootFailed, SameSecurity, Fields
<1>4. DOMAIN fresh = Fields
      /\ fresh.otp_minimum_version = attempted.otp_minimum_version
  BY <1>2 DEF InitializeQueues, Fields
<1>5. CASE ~ RomVerify(device, image)
  <2>1. device' = [failed EXCEPT !.secure_verified = FALSE, !.enabled = FALSE]
    BY <1>5, <1>8
  <2>. HIDE DEF failed
  <2>. QED BY <1>1, <1>3, <2>1 DEF SecurityInv, SameSecurity, Fields
<1>6. CASE RomVerify(device, image) /\ ~ QueueSizeValid(queue_entries)
  <2>1. device' = failed BY <1>6, <1>8
  <2>2. ~ device.enabled BY <1>6 DEF SecurityInv, Verified
  <2>. HIDE DEF failed
  <2>. QED BY <1>1, <1>3, <2>1, <2>2 DEF SecurityInv, SameSecurity
<1>7. CASE RomVerify(device, image) /\ QueueSizeValid(queue_entries)
  <2>1. device' = booted BY <1>7, <1>8
  <2>. HIDE DEF fresh
  <2>2. /\ DOMAIN device' = Fields /\ device'.secure_verified /\ ~ device'.boot_failed
        /\ device'.status = "RUNNING" /\ device'.firmware_version = image.security_version
        /\ device'.otp_minimum_version
             = Larger(attempted.otp_minimum_version, image.security_version)
    BY <1>4, <2>1 DEF Fields
  <2>3. Larger(attempted.otp_minimum_version, image.security_version) = image.security_version
    BY <1>0, <1>1, <1>7 DEF Larger, RomVerify, SecurityInv, SameSecurity
  <2>. QED BY <1>0, <1>7, <2>2, <2>3 DEF SecurityInv, Verified, QueueSizeValid
<1>. QED BY <1>5, <1>6, <1>7

LEMMA ResetKeeps ==
  ASSUME SecurityInv, PowerOnReset \/ WarmReset
  PROVE  SecurityInv'
<1>. DEFINE quiet == NoQueues(device)
<1>1. /\ DOMAIN quiet = Fields /\ quiet.enabled = FALSE
      /\ quiet.otp_minimum_version = device.otp_minimum_version
  BY DEF NoQueues, InitializeQueues, SecurityInv, Fields
<1>. HIDE DEF quiet
<1>2. DOMAIN device' = Fields /\ device'.enabled = FALSE
      /\ device'.otp_minimum_version = device.otp_minimum_version
  <2>1. CASE PowerOnReset
    <3>1. device' = [quiet EXCEPT
             !.status = "BOOT_ROM", !.secure_verified = FALSE, !.boot_failed = FALSE,
             !.debug_locked = FALSE, !.firmware_version = 0,
             !.kv_pages = [p \in Pages |-> 0]]
      BY <2>1 DEF PowerOnReset, Reset, PowerOn, quiet
    <3>. QED BY <1>1, <3>1 DEF Fields
  <2>2. CASE WarmReset
    <3>1. device' = [quiet EXCEPT
             !.status = IF device.secure_verified THEN "FIRMWARE_READY" ELSE "BOOT_ROM"]
      BY <2>2 DEF WarmReset, Reset, Warm, quiet
    <3>. QED BY <1>1, <3>1 DEF Fields
  <2>. QED BY <2>1, <2>2
<1>. QED BY <1>2 DEF SecurityInv

\* Every step of the driver keeps the security state or stops the device.
LEMMA DriverSame ==
  ASSUME SecurityInv,
         \/ Submit \/ ProcessOne \/ ServiceOne \/ Drain
         \/ \E service \in BOOLEAN : Poll(service)
         \/ \E c \in completions : TakeCompletion(c)
  PROVE  SameSecurity(device, device') /\ UNCHANGED queue_entries
<1>0. DOMAIN device = Fields BY DEF SecurityInv
<1>1. UNCHANGED device => SameSecurity(device, device') BY <1>0 DEF SameSecurity
<1>2. CASE Submit
  <2>1. PICK command, q : device' \in {[device EXCEPT !.command_ring = Append(@, command)],
                                       Count(device, q), device}
    BY <1>2 DEF Submit, SubmitRequest
  <2>2. SameSecurity(device, [device EXCEPT !.command_ring = Append(@, command)])
    BY <1>0 DEF SameSecurity, Fields
  <2>3. SameSecurity(device, Count(device, q)) BY <1>0, CountSame
  <2>. QED BY <1>1, <1>2, <2>1, <2>2, <2>3 DEF Submit, SubmitRequest
<1>3. CASE ProcessOne
  <2>. DEFINE popped == [device EXCEPT !.command_ring = Tail(@)]
              counted == Count(popped, "ACCEPTED")
  <2>1. SameSecurity(device, popped) BY <1>0 DEF SameSecurity, Fields
  <2>2. DOMAIN popped = Fields BY <2>1 DEF SameSecurity
  <2>3. UNCHANGED device \/ device' = Execute(counted, Head(device.command_ring))
    BY <1>3 DEF ProcessOne
  <2>. HIDE DEF popped
  <2>4. SameSecurity(popped, counted) BY <2>2, CountSame
  <2>5. DOMAIN counted = Fields BY <2>4 DEF SameSecurity
  <2>. HIDE DEF counted
  <2>6. SameSecurity(counted, Execute(counted, Head(device.command_ring)))
    BY <2>5, ExecuteSame
  <2>. QED BY <1>1, <1>3, <2>1, <2>3, <2>4, <2>6, SameTransitive DEF ProcessOne
<1>4. CASE ServiceOne
  <2>. DEFINE popped == [device EXCEPT !.fault_ring = Tail(@)]
              fault == Head(device.fault_ring)
  <2>1. SameSecurity(device, popped) BY <1>0 DEF SameSecurity, Fields
  <2>2. DOMAIN popped = Fields BY <2>1 DEF SameSecurity
  <2>3. UNCHANGED device \/ device' = popped \/ device' = ServeFault(popped, fault)
    BY <1>4 DEF ServiceOne
  <2>. HIDE DEF popped
  <2>4. SameSecurity(popped, ServeFault(popped, fault)) BY <2>2, ServeFaultSame
  <2>. QED BY <1>1, <1>4, <2>1, <2>3, <2>4, SameTransitive DEF ServiceOne
<1>5. CASE Drain BY <1>0, <1>5 DEF Drain, SameSecurity, Fields
<1>6. CASE \E service \in BOOLEAN : Poll(service) BY <1>1, <1>6 DEF Poll
<1>7. CASE \E c \in completions : TakeCompletion(c) BY <1>1, <1>7 DEF TakeCompletion
<1>. QED BY <1>2, <1>3, <1>4, <1>5, <1>6, <1>7

\* A device takes commands only while the newest authenticated firmware runs,
\* whatever images are booted and however the device is reset in between.
THEOREM VerifiedFirmware == Spec => []OnlyVerifiedFirmwareRuns
<1>1. Init => SecurityInv
  BY DEF Init, SecurityInv, Fields
<1>2. SecurityInv /\ [Next]_vars => SecurityInv'
  <2>. SUFFICES ASSUME SecurityInv, [Next]_vars PROVE SecurityInv' OBVIOUS
  <2>1. CASE \E image \in Images, lock_debug \in LockDebug : Boot(image, lock_debug)
    BY <2>1, BootKeeps
  <2>2. CASE PowerOnReset \/ WarmReset BY <2>2, ResetKeeps
  <2>3. CASE UNCHANGED vars BY <2>3 DEF vars, SecurityInv, Verified, QueueSizeValid
  <2>4. CASE \/ Submit \/ ProcessOne \/ ServiceOne \/ Drain
             \/ \E service \in BOOLEAN : Poll(service)
             \/ \E c \in completions : TakeCompletion(c)
    BY <2>4, DriverSame, ServingKeeps
  <2>. QED BY <2>1, <2>2, <2>3, <2>4 DEF Next
<1>3. SecurityInv => OnlyVerifiedFirmwareRuns
  BY DEF SecurityInv, Verified, OnlyVerifiedFirmwareRuns
<1>. QED BY <1>1, <1>2, <1>3, PTL DEF Spec

-----------------------------------------------------------------------------
(* Rings: what a push and a pop do to the requests in a ring *)

IdsIn(ring) == {ring[i].request_id : i \in DOMAIN ring}

Distinct(ring) ==
  \A i, j \in DOMAIN ring : ring[i].request_id = ring[j].request_id => i = j

IsRing(ring) == \E S : ring \in Seq(S)

LEMMA IdsOfElements == \A ring : Ids(Elements(ring)) = IdsIn(ring)
BY DEF Ids, Elements, IdsIn

LEMMA EmptyRing ==
  /\ IsRing(<<>>) /\ Distinct(<<>>) /\ IdsIn(<<>>) = {} /\ Elements(<<>>) = {}
BY DEF IsRing, Distinct, IdsIn, Elements

LEMMA Push ==
  ASSUME NEW ring, IsRing(ring), NEW x
  PROVE  /\ IsRing(Append(ring, x))
         /\ Elements(Append(ring, x)) = Elements(ring) \cup {x}
         /\ IdsIn(Append(ring, x)) = IdsIn(ring) \cup {x.request_id}
         /\ Distinct(ring) /\ x.request_id \notin IdsIn(ring) => Distinct(Append(ring, x))
<1>1. PICK S : ring \in Seq(S) BY DEF IsRing
<1>. DEFINE T == S \cup {x}
            longer == Append(ring, x)
<1>2. ring \in Seq(T) BY <1>1
<1>3. x \in T OBVIOUS
<1>. HIDE DEF T
<1>4. /\ longer \in Seq(T) /\ DOMAIN longer = DOMAIN ring \cup {Len(ring) + 1}
      /\ longer[Len(ring) + 1] = x /\ \A i \in DOMAIN ring : longer[i] = ring[i]
      /\ Len(ring) + 1 \notin DOMAIN ring
  BY <1>2, <1>3
<1>. HIDE DEF longer
<1>5. Elements(longer) = Elements(ring) \cup {x} BY <1>4 DEF Elements
<1>6. IdsIn(longer) = IdsIn(ring) \cup {x.request_id} BY <1>4 DEF IdsIn
<1>7. Distinct(ring) /\ x.request_id \notin IdsIn(ring) => Distinct(longer)
  BY <1>4 DEF Distinct, IdsIn
<1>. QED BY <1>4, <1>5, <1>6, <1>7 DEF longer, IsRing

LEMMA Pop ==
  ASSUME NEW ring, IsRing(ring), ring # <<>>
  PROVE  /\ IsRing(Tail(ring)) /\ Head(ring) \in Elements(ring)
         /\ Elements(Tail(ring)) \subseteq Elements(ring)
         /\ Head(ring).request_id \in IdsIn(ring)
         /\ Distinct(ring) => /\ Distinct(Tail(ring))
                              /\ IdsIn(Tail(ring)) = IdsIn(ring) \ {Head(ring).request_id}
<1>1. PICK S : ring \in Seq(S) BY DEF IsRing
<1>. DEFINE rest == Tail(ring)
<1>2. /\ rest \in Seq(S) /\ Len(ring) \in Nat \ {0} /\ Head(ring) = ring[1]
      /\ DOMAIN ring = 1 .. Len(ring) /\ DOMAIN rest = 1 .. Len(ring) - 1
      /\ \A i \in 1 .. Len(ring) - 1 : rest[i] = ring[i + 1]
  BY <1>1
<1>. HIDE DEF rest
<1>3. \A i \in DOMAIN rest : i + 1 \in DOMAIN ring /\ rest[i] = ring[i + 1] BY <1>2
<1>4. \A j \in DOMAIN ring \ {1} : j - 1 \in DOMAIN rest /\ rest[j - 1] = ring[j]
  BY <1>2
<1>5. Elements(rest) \subseteq Elements(ring) BY <1>3 DEF Elements
<1>6. 1 \in DOMAIN ring BY <1>2
<1>7. ASSUME Distinct(ring)
      PROVE  Distinct(rest) /\ IdsIn(rest) = IdsIn(ring) \ {ring[1].request_id}
  <2>1. Distinct(rest)
    <3>. SUFFICES ASSUME NEW i \in DOMAIN rest, NEW j \in DOMAIN rest,
                         rest[i].request_id = rest[j].request_id
                  PROVE  i = j
      BY DEF Distinct
    <3>1. i + 1 = j + 1 BY <1>3, <1>7 DEF Distinct
    <3>2. i \in Nat /\ j \in Nat BY <1>2
    <3>. QED BY <3>1, <3>2
  <2>2. ASSUME NEW i \in DOMAIN rest PROVE rest[i].request_id # ring[1].request_id
    <3>1. i + 1 # 1 BY <1>2
    <3>. QED BY <1>3, <1>6, <1>7, <3>1 DEF Distinct
  <2>3. IdsIn(rest) \subseteq IdsIn(ring) \ {ring[1].request_id}
    BY <1>3, <2>2 DEF IdsIn
  <2>4. IdsIn(ring) \ {ring[1].request_id} \subseteq IdsIn(rest)
    BY <1>4 DEF IdsIn
  <2>. QED BY <2>1, <2>3, <2>4
<1>. QED BY <1>2, <1>5, <1>6, <1>7 DEF rest, IsRing, Elements, IdsIn

\* A ring of distinct requests is as long as it has requests.
LEMMA RingCount ==
  ASSUME NEW ring, IsRing(ring), Distinct(ring)
  PROVE  IsFiniteSet(IdsIn(ring)) /\ Cardinality(IdsIn(ring)) = Len(ring)
<1>1. PICK S : ring \in Seq(S) BY DEF IsRing
<1>2. Len(ring) \in Nat /\ DOMAIN ring = 1 .. Len(ring) BY <1>1
<1>3. IsFiniteSet(1 .. Len(ring)) /\ Cardinality(1 .. Len(ring)) = Len(ring)
  <2>1. \A a, b \in Int : /\ IsFiniteSet(a .. b)
                          /\ Cardinality(a .. b) = IF a > b THEN 0 ELSE b - a + 1
    BY FS_Interval
  <2>2. \A n \in Nat : (IF 1 > n THEN 0 ELSE n - 1 + 1) = n OBVIOUS
  <2>. DEFINE n == Len(ring)
  <2>3. n \in Nat /\ n \in Int /\ 1 \in Int BY <1>2
  <2>. HIDE DEF n
  <2>4. IsFiniteSet(1 .. n) /\ Cardinality(1 .. n) = n BY <2>1, <2>2, <2>3
  <2>. QED BY <2>4 DEF n
<1>. DEFINE id == [i \in 1 .. Len(ring) |-> ring[i].request_id]
<1>4. id \in Bijection(1 .. Len(ring), IdsIn(ring))
  <2>1. id \in [1 .. Len(ring) -> IdsIn(ring)] BY <1>2 DEF IdsIn
  <2>2. \A i, j \in 1 .. Len(ring) : id[i] = id[j] => i = j BY <1>2 DEF Distinct
  <2>3. \A x \in IdsIn(ring) : \E i \in 1 .. Len(ring) : id[i] = x BY <1>2 DEF IdsIn
  <2>. HIDE DEF id
  <2>. QED BY <2>1, <2>2, <2>3 DEF Bijection, Injection, Surjection, IsInjective
<1>5. ExistsBijection(1 .. Len(ring), IdsIn(ring)) BY <1>4 DEF ExistsBijection
<1>. QED BY <1>3, <1>5, FS_Bijection

-----------------------------------------------------------------------------
(* What serving a command does to the device *)

\* A command that still has its first try, as the host submits them.
Command ==
  [request_id : Nat, opcode : {"SUBMIT_GRAPH", "KV_TRANSLATE", "OTHER"}, flags : BOOLEAN,
   graph : Seq(GraphNode), priority : Int, argument : Pages, retry_count : {0}]

Shape(d) ==
  /\ DOMAIN d = Fields
  /\ IsRing(d.command_ring) /\ IsRing(d.completion_ring) /\ IsRing(d.fault_ring)
  /\ Elements(d.command_ring) \subseteq Command /\ d.pending \subseteq Command
  /\ d.counters \in [Counter -> Nat]
  /\ d.kv_pages \in [Pages -> Nat]

SameQueues(d, e) ==
  /\ e.command_ring = d.command_ring /\ e.fault_ring = d.fault_ring
  /\ e.pending = d.pending /\ e.kv_pages = d.kv_pages

SameAnswers(d, e) ==
  /\ e.completion_ring = d.completion_ring /\ e.dropped = d.dropped
  /\ e.counters["COMPLETED"] = d.counters["COMPLETED"]

SameFaults(d, e) ==
  /\ e.counters["ACCEPTED"] = d.counters["ACCEPTED"]
  /\ e.counters["KV_RECOVERED"] = d.counters["KV_RECOVERED"]
  /\ e.counters["KV_FAULTS"] + d.counters["FAULT_OVERFLOWS"]
       = d.counters["KV_FAULTS"] + e.counters["FAULT_OVERFLOWS"]

\* A request is answered: its completion is in the ring, or dropped.
Answers(d, e, id) ==
  \/ /\ \E x : x.request_id = id /\ e.completion_ring = Append(d.completion_ring, x)
     /\ e.dropped = d.dropped
     /\ e.counters["COMPLETED"] = d.counters["COMPLETED"] + 1
  \/ /\ e.completion_ring = d.completion_ring /\ e.dropped = d.dropped \cup {id}
     /\ e.counters["COMPLETED"] = d.counters["COMPLETED"]

\* A command is parked and its fault queued.
Parks(d, e, command) ==
  /\ e.command_ring = d.command_ring /\ e.kv_pages = d.kv_pages
  /\ e.pending = d.pending \cup {command}
  /\ e.fault_ring = Append(d.fault_ring, Fault(command))
  /\ e.counters["ACCEPTED"] = d.counters["ACCEPTED"]
  /\ e.counters["KV_RECOVERED"] = d.counters["KV_RECOVERED"]
  /\ e.counters["KV_FAULTS"] = d.counters["KV_FAULTS"] + 1
  /\ e.counters["FAULT_OVERFLOWS"] = d.counters["FAULT_OVERFLOWS"]

LEMMA CountDoes ==
  ASSUME NEW d, Shape(d), NEW counter \in Counter, NEW amount \in Nat
  PROVE  LET e == Increment(d, counter, amount)
         IN  /\ Shape(e) /\ SameQueues(d, e)
             /\ e.completion_ring = d.completion_ring /\ e.dropped = d.dropped
             /\ e.entries = d.entries
             /\ e.counters = [d.counters EXCEPT ![counter] = @ + amount]
<1>. DEFINE e == Increment(d, counter, amount)
<1>1. /\ DOMAIN e = Fields /\ \A f \in Fields \ {"counters"} : e[f] = d[f]
      /\ e.counters = [d.counters EXCEPT ![counter] = @ + amount]
  BY DEF Increment, Shape, Fields
<1>2. e.counters \in [Counter -> Nat] BY <1>1 DEF Shape
<1>. HIDE DEF e
<1>3. Shape(e) /\ SameQueues(d, e) /\ e.completion_ring = d.completion_ring
      /\ e.dropped = d.dropped /\ e.entries = d.entries
  BY <1>1, <1>2 DEF Shape, SameQueues, Fields
<1>. QED BY <1>1, <1>3 DEF e

LEMMA CompleteDoes ==
  ASSUME NEW d, Shape(d), NEW id, NEW status, NEW result
  PROVE  LET e == Complete(d, id, status, result)
         IN  Shape(e) /\ SameQueues(d, e) /\ SameFaults(d, e) /\ Answers(d, e, id)
<1>. DEFINE x == [request_id |-> id, status |-> status, result |-> result]
            refused == Count(d, "QUEUE_ERRORS")
            stopped == [refused EXCEPT !.status = "FATAL", !.enabled = FALSE,
                                       !.dropped = @ \cup {id}]
            appended == [d EXCEPT !.completion_ring = Append(@, x)]
            pushed == Count(appended, "COMPLETED")
            failed == Count(pushed, "ERRORS")
<1>0. {"QUEUE_ERRORS", "COMPLETED", "ERRORS", "ACCEPTED", "KV_RECOVERED", "KV_FAULTS",
       "FAULT_OVERFLOWS"} \subseteq Counter
  BY DEF Counter
<1>1. Shape(stopped) /\ SameQueues(d, stopped) /\ SameFaults(d, stopped)
      /\ Answers(d, stopped, id)
  <2>1. /\ Shape(refused) /\ SameQueues(d, refused)
        /\ refused.completion_ring = d.completion_ring /\ refused.dropped = d.dropped
        /\ refused.counters = [d.counters EXCEPT !["QUEUE_ERRORS"] = @ + 1]
    BY <1>0, CountDoes DEF Count
  <2>. HIDE DEF refused
  <2>2. /\ DOMAIN stopped = Fields /\ stopped.dropped = d.dropped \cup {id}
        /\ \A f \in Fields \ {"status", "enabled", "dropped"} : stopped[f] = refused[f]
    BY <2>1 DEF Shape, Fields
  <2>. HIDE DEF stopped
  <2>3. Shape(stopped) /\ SameQueues(d, stopped)
    BY <2>1, <2>2 DEF Shape, SameQueues, Fields
  <2>4. stopped.counters = [d.counters EXCEPT !["QUEUE_ERRORS"] = @ + 1]
        /\ stopped.completion_ring = d.completion_ring
    BY <2>1, <2>2 DEF Fields
  <2>. QED BY <1>0, <2>2, <2>3, <2>4 DEF SameFaults, Answers, Shape, Counter
<1>2. /\ Shape(appended) /\ SameQueues(d, appended) /\ appended.dropped = d.dropped
      /\ appended.completion_ring = Append(d.completion_ring, x)
      /\ appended.counters = d.counters
  <2>1. /\ DOMAIN appended = Fields
        /\ appended.completion_ring = Append(d.completion_ring, x)
        /\ \A f \in Fields \ {"completion_ring"} : appended[f] = d[f]
    BY DEF Shape, Fields
  <2>2. IsRing(Append(d.completion_ring, x)) BY Push DEF Shape
  <2>. HIDE DEF appended
  <2>. QED BY <2>1, <2>2 DEF Shape, SameQueues, Fields
<1>3. /\ Shape(pushed) /\ SameQueues(d, pushed) /\ pushed.dropped = d.dropped
      /\ pushed.completion_ring = Append(d.completion_ring, x)
      /\ pushed.counters = [d.counters EXCEPT !["COMPLETED"] = @ + 1]
  <2>. HIDE DEF appended
  <2>1. /\ Shape(pushed) /\ SameQueues(appended, pushed)
        /\ pushed.completion_ring = appended.completion_ring
        /\ pushed.dropped = appended.dropped
        /\ pushed.counters = [appended.counters EXCEPT !["COMPLETED"] = @ + 1]
    BY <1>0, <1>2, CountDoes DEF Count
  <2>. HIDE DEF pushed
  <2>. QED BY <1>2, <2>1 DEF SameQueues
<1>4. x.request_id = id OBVIOUS
<1>5. SameFaults(d, pushed) /\ Answers(d, pushed, id)
  <2>. HIDE DEF pushed, x
  <2>. QED BY <1>0, <1>3, <1>4 DEF SameFaults, Answers, Shape, Counter
<1>6. Shape(failed) /\ SameQueues(d, failed) /\ SameFaults(d, failed)
      /\ Answers(d, failed, id)
  <2>. HIDE DEF pushed, x
  <2>1. /\ Shape(failed) /\ SameQueues(pushed, failed) /\ failed.dropped = pushed.dropped
        /\ failed.completion_ring = pushed.completion_ring
        /\ failed.counters = [pushed.counters EXCEPT !["ERRORS"] = @ + 1]
    BY <1>0, <1>3, CountDoes DEF Count
  <2>. HIDE DEF failed
  <2>2. \A c \in Counter \ {"ERRORS"} : failed.counters[c] = pushed.counters[c]
    BY <1>3, <2>1 DEF Shape
  <2>3. SameQueues(d, failed) BY <1>3, <2>1 DEF SameQueues
  <2>4. SameFaults(d, failed) BY <1>5, <2>2 DEF SameFaults, Counter
  <2>5. Answers(d, failed, id) BY <1>5, <2>1, <2>2 DEF Answers, Counter
  <2>. QED BY <2>1, <2>3, <2>4, <2>5
<1>7. Complete(d, id, status, result) \in {stopped, pushed, failed} BY DEF Complete
<1>. HIDE DEF stopped, pushed, failed
<1>. QED BY <1>1, <1>3, <1>5, <1>6, <1>7

\* A command is answered, or parked with its fault if its page is not mapped.
LEMMA ExecuteDoes ==
  ASSUME NEW d, Shape(d), NEW command
  PROVE  LET e == Execute(d, command)
         IN  \/ /\ Shape(e) /\ SameQueues(d, e) /\ SameFaults(d, e)
                /\ Answers(d, e, command.request_id)
             \/ /\ Parks(d, e, command) /\ SameAnswers(d, e) /\ DOMAIN e = Fields
                /\ e.counters \in [Counter -> Nat]
                /\ d.kv_pages[command.argument] = 0
<1>. DEFINE id == command.request_id
            Handled(e) == /\ Shape(e) /\ SameQueues(d, e) /\ SameFaults(d, e)
                           /\ Answers(d, e, id)
<1>0. {"KV_FAULTS", "FAULT_OVERFLOWS", "GRAPH_NODES", "ACCEPTED", "KV_RECOVERED",
       "COMPLETED"} \subseteq Counter
  BY DEF Counter
\* A counter that the accounts do not see, or a fault that overflows, may be
\* counted before the answer.
<1>1. ASSUME NEW c, Shape(c), SameQueues(d, c), SameFaults(d, c), SameAnswers(d, c),
             NEW status, NEW result
      PROVE  Handled(Complete(c, id, status, result))
  <2>. DEFINE e == Complete(c, id, status, result)
  <2>1. Shape(e) /\ SameQueues(c, e) /\ SameFaults(c, e) /\ Answers(c, e, id)
    BY <1>1, CompleteDoes
  <2>. HIDE DEF e
  <2>2. SameQueues(d, e) BY <1>1, <2>1 DEF SameQueues
  <2>3. SameFaults(d, e)
    <3>1. \A z \in {d, c, e} : /\ z.counters["KV_FAULTS"] \in Nat
                               /\ z.counters["FAULT_OVERFLOWS"] \in Nat
      BY <1>0, <1>1, <2>1 DEF Shape
    <3>. QED BY <1>1, <2>1, <3>1 DEF SameFaults
  <2>4. Answers(d, e, id) BY <1>1, <2>1 DEF Answers, SameAnswers
  <2>. QED BY <2>1, <2>2, <2>3, <2>4 DEF e
<1>2. SameQueues(d, d) /\ SameFaults(d, d) /\ SameAnswers(d, d)
  BY DEF SameQueues, SameFaults, SameAnswers
<1>3. \A status, result : Handled(Complete(d, id, status, result)) BY <1>1, <1>2
<1>4. Handled(RunGraph(d, command))
  <2>. DEFINE counted == IF GraphValid(command.graph, command.priority)
                         THEN Increment(d, "GRAPH_NODES", Len(command.graph)) ELSE d
              answer == GraphAnswers[<<command.graph, command.priority>>]
  <2>1. /\ Shape(counted) /\ SameQueues(d, counted) /\ SameFaults(d, counted)
        /\ SameAnswers(d, counted)
    <3>1. CASE GraphValid(command.graph, command.priority)
      <4>. DEFINE nodes == Len(command.graph)
                  e == Increment(d, "GRAPH_NODES", nodes)
      <4>1. nodes \in Nat /\ "GRAPH_NODES" \in Counter BY <1>0, <3>1 DEF GraphValid
      <4>. HIDE DEF nodes
      <4>2. /\ Shape(e) /\ SameQueues(d, e)
            /\ e.completion_ring = d.completion_ring /\ e.dropped = d.dropped
            /\ e.counters = [d.counters EXCEPT !["GRAPH_NODES"] = @ + nodes]
        BY <4>1, CountDoes
      <4>. HIDE DEF e
      <4>3. \A c \in Counter \ {"GRAPH_NODES"} : e.counters[c] = d.counters[c]
        BY <4>2 DEF Shape
      <4>4. counted = e BY <3>1 DEF e, nodes
      <4>. HIDE DEF counted
      <4>. QED BY <4>2, <4>3, <4>4 DEF SameFaults, SameAnswers, Counter
    <3>2. CASE ~ GraphValid(command.graph, command.priority) BY <1>2, <3>2
    <3>. QED BY <3>1, <3>2
  <2>. HIDE DEF counted
  <2>2. Handled(Complete(counted, id, answer.status, answer.result)) BY <1>1, <2>1
  <2>3. RunGraph(d, command) = Complete(counted, id, answer.status, answer.result)
    BY DEF RunGraph, counted
  <2>. QED BY <2>2, <2>3
<1>5. \/ Handled(Translate(d, command))
      \/ /\ Parks(d, Translate(d, command), command) /\ SameAnswers(d, Translate(d, command))
         /\ DOMAIN Translate(d, command) = Fields
         /\ Translate(d, command).counters \in [Counter -> Nat]
         /\ d.kv_pages[command.argument] = 0
  <2>. DEFINE page == command.argument
              faulted == Count(d, "KV_FAULTS")
              parked == [faulted EXCEPT !.pending = @ \cup {command},
                                        !.fault_ring = Append(@, Fault(command))]
              overflowed == Count(faulted, "FAULT_OVERFLOWS")
              missed == Complete(overflowed, id, "KV_MISS", <<"page", page>>)
              mapped == Complete(d, id, "OK", <<"page", d.kv_pages[page]>>)
  <2>1. /\ Shape(faulted) /\ SameQueues(d, faulted)
        /\ faulted.completion_ring = d.completion_ring /\ faulted.dropped = d.dropped
        /\ faulted.counters = [d.counters EXCEPT !["KV_FAULTS"] = @ + 1]
    BY <1>0, CountDoes DEF Count
  <2>. HIDE DEF faulted
  <2>2. /\ Parks(d, parked, command) /\ SameAnswers(d, parked) /\ DOMAIN parked = Fields
        /\ parked.counters \in [Counter -> Nat]
    <3>1. /\ DOMAIN parked = Fields /\ parked.pending = d.pending \cup {command}
          /\ parked.fault_ring = Append(d.fault_ring, Fault(command))
          /\ \A f \in Fields \ {"pending", "fault_ring"} : parked[f] = faulted[f]
      BY <2>1 DEF Shape, SameQueues, Fields
    <3>. HIDE DEF parked
    <3>2. /\ parked.command_ring = d.command_ring /\ parked.kv_pages = d.kv_pages
          /\ parked.completion_ring = d.completion_ring /\ parked.dropped = d.dropped
          /\ parked.counters = [d.counters EXCEPT !["KV_FAULTS"] = @ + 1]
      BY <2>1, <3>1 DEF SameQueues, Fields
    <3>3. parked.counters \in [Counter -> Nat] BY <1>0, <3>2 DEF Shape
    <3>. QED BY <1>0, <3>1, <3>2, <3>3 DEF Parks, SameAnswers, Shape, Counter
  <2>3. Handled(missed)
    <3>1. /\ Shape(overflowed) /\ SameQueues(faulted, overflowed)
          /\ overflowed.completion_ring = faulted.completion_ring
          /\ overflowed.dropped = faulted.dropped
          /\ overflowed.counters = [faulted.counters EXCEPT !["FAULT_OVERFLOWS"] = @ + 1]
      BY <1>0, <2>1, CountDoes DEF Count
    <3>. HIDE DEF overflowed
    <3>2. SameQueues(d, overflowed) BY <2>1, <3>1 DEF SameQueues
    <3>3. /\ SameFaults(d, overflowed) /\ SameAnswers(d, overflowed)
      BY <1>0, <2>1, <3>1 DEF SameFaults, SameAnswers, Shape, Counter
    <3>. QED BY <1>1, <3>1, <3>2, <3>3
  <2>4. Handled(mapped) BY <1>3
  <2>5. Translate(d, command) = IF d.kv_pages[page] # 0 THEN mapped
                                ELSE IF ~ RingFull(d, d.fault_ring) THEN parked ELSE missed
    BY DEF Translate, faulted
  <2>. HIDE DEF parked, missed, mapped, Handled
  <2>. QED BY <2>2, <2>3, <2>4, <2>5
<1>. DEFINE E == Execute(d, command)
<1>6. Handled(E) \/ E = Translate(d, command)
  <2>. HIDE DEF Handled
  <2>. QED BY <1>3, <1>4 DEF Execute
<1>. HIDE DEF E
<1>7. QED BY <1>5, <1>6 DEF E

\* Serving the fault of a parked command maps its page, so the replay answers it.
LEMMA ServeFaultDoes ==
  ASSUME NEW d, Shape(d), NEW c \in d.pending, next_physical_page \in Nat \ {0},
         \A x \in d.pending : x.request_id = c.request_id => x = c
  PROVE  LET e == ServeFault(d, Fault(c))
         IN  /\ Shape(e)
             /\ e.command_ring = d.command_ring /\ e.fault_ring = d.fault_ring
             /\ e.pending = d.pending \ {c} /\ Answers(d, e, c.request_id)
             /\ e.counters["ACCEPTED"] = d.counters["ACCEPTED"]
             /\ e.counters["KV_RECOVERED"] = d.counters["KV_RECOVERED"] + 1
             /\ e.counters["KV_FAULTS"] + d.counters["FAULT_OVERFLOWS"]
                  = d.counters["KV_FAULTS"] + e.counters["FAULT_OVERFLOWS"]
<1>. DEFINE id == c.request_id
            page == c.argument
            m == Mapped(d, page)
            u == Unparked(m, id)
            again == [c EXCEPT !.retry_count = @ + 1]
            r == Execute(u, again)
            e == Count(r, "KV_RECOVERED")
<1>0. {"KV_FAULTS", "FAULT_OVERFLOWS", "ACCEPTED", "KV_RECOVERED", "COMPLETED"}
        \subseteq Counter
  BY DEF Counter
<1>1. c \in Command /\ page \in Pages /\ c.retry_count = 0 BY DEF Shape, Command
<1>2. Fault(c).request_id = id /\ Fault(c).address = page BY DEF Fault
<1>3. /\ Shape(m) /\ m.pending = d.pending /\ m.kv_pages[page] # 0
      /\ m.command_ring = d.command_ring /\ m.fault_ring = d.fault_ring
      /\ m.completion_ring = d.completion_ring /\ m.dropped = d.dropped
      /\ m.counters = d.counters
  <2>1. /\ DOMAIN m = Fields /\ \A f \in Fields \ {"kv_pages"} : m[f] = d[f]
        /\ m.kv_pages = [d.kv_pages EXCEPT ![page] = IF @ = 0 THEN next_physical_page ELSE @]
    BY DEF Mapped, Shape, Fields
  <2>2. m.kv_pages \in [Pages -> Nat] /\ m.kv_pages[page] # 0
    BY <1>1, <2>1 DEF Shape
  <2>. HIDE DEF m
  <2>. QED BY <2>1, <2>2 DEF Shape, Fields
<1>4. PendingOf(m, id) = {c} BY <1>3 DEF PendingOf
<1>5. Replayable(m, id) BY <1>1, <1>4 DEF Replayable
<1>6. (CHOOSE x \in PendingOf(m, id) : TRUE) = c BY <1>4
<1>. HIDE DEF m
<1>7. /\ Shape(u) /\ u.pending = d.pending \ {c} /\ u.kv_pages[page] # 0
      /\ u.command_ring = d.command_ring /\ u.fault_ring = d.fault_ring
      /\ u.completion_ring = d.completion_ring /\ u.dropped = d.dropped
      /\ u.counters = d.counters
  <2>1. /\ DOMAIN u = Fields /\ u.pending = m.pending \ {c}
        /\ \A f \in Fields \ {"pending"} : u[f] = m[f]
    BY <1>3, <1>4 DEF Unparked, Shape, Fields
  <2>. HIDE DEF u
  <2>. QED BY <1>3, <2>1 DEF Shape, Fields
<1>8. Replay(m, id) = r BY <1>5, <1>6 DEF Replay
<1>9. again.request_id = id /\ again.argument = page BY <1>1 DEF Command
<1>. HIDE DEF u, again
<1>10. Shape(r) /\ SameQueues(u, r) /\ SameFaults(u, r) /\ Answers(u, r, id)
  <2>1. \/ Shape(r) /\ SameQueues(u, r) /\ SameFaults(u, r) /\ Answers(u, r, again.request_id)
        \/ u.kv_pages[again.argument] = 0
    BY <1>7, ExecuteDoes
  <2>. HIDE DEF r
  <2>. QED BY <1>7, <1>9, <2>1
<1>11. ServeFault(d, Fault(c)) = e
  <2>1. ServeFault(d, Fault(c)) = Recovered(m, id) BY <1>2 DEF ServeFault, m
  <2>2. Recovered(m, id) = Count(Replay(m, id), "KV_RECOVERED") BY <1>5 DEF Recovered
  <2>. QED BY <1>8, <2>1, <2>2
<1>. HIDE DEF r
<1>12. /\ Shape(e) /\ SameQueues(r, e)
       /\ e.completion_ring = r.completion_ring /\ e.dropped = r.dropped
       /\ e.counters = [r.counters EXCEPT !["KV_RECOVERED"] = @ + 1]
  BY <1>0, <1>10, CountDoes DEF Count
<1>13. /\ \A k \in Counter \ {"KV_RECOVERED"} : e.counters[k] = r.counters[k]
       /\ e.counters["KV_RECOVERED"] = r.counters["KV_RECOVERED"] + 1
  BY <1>0, <1>10, <1>12 DEF Shape
<1>. HIDE DEF e
<1>14. Answers(d, e, id)
  BY <1>0, <1>7, <1>10, <1>12, <1>13 DEF Answers
<1>15. /\ e.counters["ACCEPTED"] = d.counters["ACCEPTED"]
       /\ e.counters["KV_RECOVERED"] = d.counters["KV_RECOVERED"] + 1
       /\ e.counters["KV_FAULTS"] + d.counters["FAULT_OVERFLOWS"]
            = d.counters["KV_FAULTS"] + e.counters["FAULT_OVERFLOWS"]
  BY <1>0, <1>7, <1>10, <1>13 DEF SameFaults
<1>16. /\ e.command_ring = d.command_ring /\ e.fault_ring = d.fault_ring
       /\ e.pending = d.pending \ {c}
  BY <1>7, <1>10, <1>12 DEF SameQueues
<1>. QED BY <1>11, <1>12, <1>14, <1>15, <1>16

-----------------------------------------------------------------------------
(* Where the requests are *)

Place ==
  {"command", "parked", "answered", "driver", "host", "dropped",
   "lost_command", "lost_parked", "lost_completion"}

\* Every request of S is in one place, and nothing else is in any.
Partition(where, S) ==
  /\ \A p, q \in Place : p # q => where[p] \cap where[q] = {}
  /\ UNION {where[p] : p \in Place} = S

\* The requests M go from one place to another.
LEMMA Moved ==
  ASSUME NEW S, NEW before, Partition(before, S), NEW p \in Place, NEW q \in Place, p # q,
         NEW after, NEW M, M \subseteq before[p],
         after[p] = before[p] \ M, after[q] = before[q] \cup M,
         \A r \in Place \ {p, q} : after[r] = before[r]
  PROVE  Partition(after, S)
<1>1. \A r, s \in Place : r # s => after[r] \cap after[s] = {}
  <2>. SUFFICES ASSUME NEW r \in Place, NEW s \in Place, r # s, NEW x, x \in after[r],
                       x \in after[s]
                PROVE  FALSE
    OBVIOUS
  <2>1. \A t \in Place : x \in after[t] => x \in before[t] \/ (t = q /\ x \in M) OBVIOUS
  <2>2. \A t, v \in Place : x \in before[t] /\ x \in before[v] => t = v
    BY DEF Partition
  <2>. QED BY <2>1, <2>2
<1>2. \A x : (\E r \in Place : x \in after[r]) <=> (\E r \in Place : x \in before[r])
  OBVIOUS
<1>. QED BY <1>1, <1>2 DEF Partition

\* A new request enters.
LEMMA Entered ==
  ASSUME NEW S, NEW before, Partition(before, S), NEW p \in Place, NEW id, id \notin S,
         NEW after, after[p] = before[p] \cup {id},
         \A r \in Place \ {p} : after[r] = before[r]
  PROVE  Partition(after, S \cup {id})
<1>1. \A x, r : r \in Place => (x \in after[r] <=> x \in before[r] \/ (r = p /\ x = id))
  OBVIOUS
<1>2. \A r \in Place : id \notin before[r] BY DEF Partition
<1>3. \A r, s \in Place : r # s => after[r] \cap after[s] = {}
  BY <1>1, <1>2 DEF Partition
<1>4. \A x : (\E r \in Place : x \in after[r]) <=> x \in S \cup {id}
  BY <1>1 DEF Partition
<1>. QED BY <1>3, <1>4 DEF Partition

\* All requests of some places go to other places.
LEMMA Merged ==
  ASSUME NEW S, NEW before, Partition(before, S), NEW to \in [Place -> Place], NEW after,
         \A p \in Place : after[p] = UNION {before[q] : q \in {r \in Place : to[r] = p}}
  PROVE  Partition(after, S)
<1>1. \A x, p : p \in Place =>
        (x \in after[p] <=> \E q \in Place : to[q] = p /\ x \in before[q])
  OBVIOUS
<1>2. \A p, q \in Place : p # q => after[p] \cap after[q] = {}
  BY <1>1 DEF Partition
<1>3. \A x : (\E p \in Place : x \in after[p]) <=> x \in S
  BY <1>1 DEF Partition
<1>. QED BY <1>2, <1>3 DEF Partition

\* The places of the requests, given the device, the driver's completions, the
\* host's and what was lost.
Where(d, cs, tk, lo) ==
  [command |-> IdsIn(d.command_ring), parked |-> Ids(d.pending) \ lo.parked,
   answered |-> IdsIn(d.completion_ring), driver |-> Ids(cs), host |-> tk,
   dropped |-> d.dropped, lost_command |-> lo.command, lost_parked |-> lo.parked,
   lost_completion |-> lo.completion]

Keyed(S) == \A x, y \in S : x.request_id = y.request_id => x = y

\* No ring or set holds a request twice, and the faults are those of the parked.
Settled(d, cs, lo) ==
  /\ Distinct(d.command_ring) /\ Distinct(d.completion_ring) /\ Distinct(d.fault_ring)
  /\ Keyed(d.pending) /\ Keyed(cs)
  /\ IdsIn(d.fault_ring) = Ids(d.pending) \ lo.parked
  /\ \A fault \in Elements(d.fault_ring) : \E c \in d.pending : fault = Fault(c)

\* The performance counters count the places.
Balance(d, cs, tk, lo, S) ==
  LET n == d.counters
  IN  /\ n["ACCEPTED"] = Cardinality(S \ (IdsIn(d.command_ring) \cup lo.command))
      /\ n["COMPLETED"]
           = Cardinality(IdsIn(d.completion_ring) \cup Ids(cs) \cup tk \cup lo.completion)
      /\ n["KV_FAULTS"] = n["KV_RECOVERED"] + n["FAULT_OVERFLOWS"]
                            + Cardinality(Ids(d.pending) \cup lo.parked)

Accounts(d, cs, tk, lo, S) ==
  /\ Shape(d) /\ IsFiniteSet(S)
  /\ Partition(Where(d, cs, tk, lo), S)
  /\ Settled(d, cs, lo)
  /\ Balance(d, cs, tk, lo, S)

LEMMA CardinalityOneMore ==
  \A X, x : IsFiniteSet(X) /\ x \notin X =>
    Cardinality(X) \in Nat /\ Cardinality(X \cup {x}) = Cardinality(X) + 1
<1>1. \A X, x : IsFiniteSet(X) => Cardinality(X \cup {x})
                   = IF x \in X THEN Cardinality(X) ELSE Cardinality(X) + 1
  BY FS_AddElement
<1>2. \A X : IsFiniteSet(X) => Cardinality(X) \in Nat BY FS_CardinalityType
<1>. QED BY <1>1, <1>2

LEMMA SubsetFinite == \A X, S : IsFiniteSet(S) /\ X \subseteq S => IsFiniteSet(X)
BY FS_Subset

\* The places apart, as the steps below use them.
LEMMA PlacesApart ==
  ASSUME NEW d, NEW cs, NEW tk, NEW lo, NEW S, Partition(Where(d, cs, tk, lo), S)
  PROVE  \A p, q \in Place : /\ Where(d, cs, tk, lo)[p] \subseteq S
                             /\ p # q => Where(d, cs, tk, lo)[p] \cap Where(d, cs, tk, lo)[q] = {}
BY DEF Partition

LEMMA Places ==
  ASSUME NEW d, NEW cs, NEW tk, NEW lo
  PROVE  LET w == Where(d, cs, tk, lo)
         IN  /\ w["command"] = IdsIn(d.command_ring)
             /\ w["parked"] = Ids(d.pending) \ lo.parked
             /\ w["answered"] = IdsIn(d.completion_ring)
             /\ w["driver"] = Ids(cs) /\ w["host"] = tk /\ w["dropped"] = d.dropped
             /\ w["lost_command"] = lo.command /\ w["lost_parked"] = lo.parked
             /\ w["lost_completion"] = lo.completion
BY DEF Where

\* What an answer does to the ring, the dropped requests and the counter.
LEMMA AnswerSettles ==
  ASSUME NEW d, NEW e, NEW id, NEW cs, NEW tk, NEW lo, NEW S,
         Accounts(d, cs, tk, lo, S), Shape(e), Answers(d, e, id),
         id \in Where(d, cs, tk, lo)["command"] \cup Where(d, cs, tk, lo)["parked"]
  PROVE  /\ Distinct(e.completion_ring)
         /\ \/ /\ IdsIn(e.completion_ring) = IdsIn(d.completion_ring) \cup {id}
               /\ e.dropped = d.dropped
            \/ /\ IdsIn(e.completion_ring) = IdsIn(d.completion_ring)
               /\ e.dropped = d.dropped \cup {id}
         /\ e.counters["COMPLETED"]
              = Cardinality(IdsIn(e.completion_ring) \cup Ids(cs) \cup tk \cup lo.completion)
<1>. DEFINE w == Where(d, cs, tk, lo)
            done == IdsIn(d.completion_ring) \cup Ids(cs) \cup tk \cup lo.completion
<1>0. /\ IsFiniteSet(S) /\ Partition(w, S) /\ Distinct(d.completion_ring)
      /\ IsRing(d.completion_ring) /\ d.counters["COMPLETED"] = Cardinality(done)
  BY DEF Accounts, Settled, Shape, Balance
<1>1. /\ w["answered"] = IdsIn(d.completion_ring) /\ w["driver"] = Ids(cs)
      /\ w["host"] = tk /\ w["lost_completion"] = lo.completion
  BY Places
<1>2. \A p, q \in Place : /\ w[p] \subseteq S /\ (p # q => w[p] \cap w[q] = {})
  BY <1>0, PlacesApart
<1>. HIDE DEF w
<1>3. id \in w["command"] \cup w["parked"] BY DEF w
<1>4. done \subseteq S /\ id \notin done /\ id \notin w["answered"]
  BY <1>1, <1>2, <1>3 DEF Place
<1>5. IsFiniteSet(done) BY <1>0, <1>4, SubsetFinite
<1>6. Cardinality(done \cup {id}) = Cardinality(done) + 1
  BY <1>4, <1>5, CardinalityOneMore
<1>7. CASE /\ \E x : x.request_id = id /\ e.completion_ring = Append(d.completion_ring, x)
           /\ e.dropped = d.dropped
           /\ e.counters["COMPLETED"] = d.counters["COMPLETED"] + 1
  <2>1. PICK x : x.request_id = id /\ e.completion_ring = Append(d.completion_ring, x)
    BY <1>7
  <2>2. /\ IdsIn(e.completion_ring) = IdsIn(d.completion_ring) \cup {id}
        /\ Distinct(e.completion_ring)
    <3>. DEFINE ring == d.completion_ring
    <3>1. IsRing(ring) /\ Distinct(ring) /\ x.request_id \notin IdsIn(ring)
      BY <1>0, <1>4, <2>1
    <3>. HIDE DEF ring
    <3>2. /\ IdsIn(Append(ring, x)) = IdsIn(ring) \cup {x.request_id}
          /\ Distinct(Append(ring, x))
      BY <3>1, Push
    <3>. QED BY <2>1, <3>2 DEF ring
  <2>3. IdsIn(e.completion_ring) \cup Ids(cs) \cup tk \cup lo.completion = done \cup {id}
    BY <2>2
  <2>. HIDE DEF done
  <2>. QED BY <1>0, <1>6, <1>7, <2>2, <2>3
<1>8. CASE /\ e.completion_ring = d.completion_ring /\ e.dropped = d.dropped \cup {id}
           /\ e.counters["COMPLETED"] = d.counters["COMPLETED"]
  BY <1>0, <1>8
<1>. QED BY <1>7, <1>8 DEF Answers

\* A command of the ring is answered.
LEMMA ProcessedAnswered ==
  ASSUME NEW d, NEW e, NEW cs, NEW tk, NEW lo, NEW S, Accounts(d, cs, tk, lo, S),
         NEW id, id \in IdsIn(d.command_ring), Shape(e),
         Distinct(e.command_ring), IdsIn(e.command_ring) = IdsIn(d.command_ring) \ {id},
         e.fault_ring = d.fault_ring, e.pending = d.pending, Answers(d, e, id),
         e.counters["ACCEPTED"] = d.counters["ACCEPTED"] + 1,
         e.counters["KV_RECOVERED"] = d.counters["KV_RECOVERED"],
         e.counters["KV_FAULTS"] + d.counters["FAULT_OVERFLOWS"]
           = d.counters["KV_FAULTS"] + e.counters["FAULT_OVERFLOWS"]
  PROVE  Accounts(e, cs, tk, lo, S)
<1>. DEFINE w == Where(d, cs, tk, lo)
            v == Where(e, cs, tk, lo)
<1>0. Shape(d) /\ IsFiniteSet(S) /\ Partition(w, S) /\ Settled(d, cs, lo)
      /\ Balance(d, cs, tk, lo, S)
  BY DEF Accounts
<1>2. w["command"] = IdsIn(d.command_ring) BY Places
<1>3. /\ Distinct(e.completion_ring)
      /\ \/ /\ IdsIn(e.completion_ring) = IdsIn(d.completion_ring) \cup {id}
            /\ e.dropped = d.dropped
         \/ /\ IdsIn(e.completion_ring) = IdsIn(d.completion_ring)
            /\ e.dropped = d.dropped \cup {id}
      /\ e.counters["COMPLETED"]
           = Cardinality(IdsIn(e.completion_ring) \cup Ids(cs) \cup tk \cup lo.completion)
  <2>1. id \in Where(d, cs, tk, lo)["command"] \cup Where(d, cs, tk, lo)["parked"]
    BY <1>2
  <2>. QED BY <2>1, AnswerSettles
<1>4. Partition(v, S)
  <2>1. /\ v["command"] = w["command"] \ {id} /\ v["parked"] = w["parked"]
        /\ v["driver"] = w["driver"] /\ v["host"] = w["host"]
        /\ v["lost_command"] = w["lost_command"] /\ v["lost_parked"] = w["lost_parked"]
        /\ v["lost_completion"] = w["lost_completion"]
    BY DEF Where
  <2>2. \/ v["answered"] = w["answered"] \cup {id} /\ v["dropped"] = w["dropped"]
        \/ v["answered"] = w["answered"] /\ v["dropped"] = w["dropped"] \cup {id}
    BY <1>3 DEF Where
  <2>3. {id} \subseteq w["command"] BY <1>2
  <2>. HIDE DEF w, v
  <2>4. CASE v["answered"] = w["answered"] \cup {id} /\ v["dropped"] = w["dropped"]
    <3>1. \A r \in Place \ {"command", "answered"} : v[r] = w[r]
      BY <2>1, <2>4 DEF Place
    <3>2. "command" \in Place /\ "answered" \in Place BY DEF Place
    <3>. QED BY <1>0, <2>1, <2>3, <2>4, <3>1, <3>2, Moved
  <2>5. CASE v["answered"] = w["answered"] /\ v["dropped"] = w["dropped"] \cup {id}
    <3>1. \A r \in Place \ {"command", "dropped"} : v[r] = w[r]
      BY <2>1, <2>5 DEF Place
    <3>2. "command" \in Place /\ "dropped" \in Place BY DEF Place
    <3>. QED BY <1>0, <2>1, <2>3, <2>5, <3>1, <3>2, Moved
  <2>. QED BY <2>2, <2>4, <2>5
<1>5. Settled(e, cs, lo) BY <1>0, <1>3 DEF Settled
<1>6. e.counters["ACCEPTED"] = Cardinality(S \ (IdsIn(e.command_ring) \cup lo.command))
  <2>. DEFINE X == S \ (IdsIn(d.command_ring) \cup lo.command)
  <2>1. id \in S /\ id \notin lo.command
    BY <1>0, <1>2, Places, PlacesApart DEF Place
  <2>2. S \ (IdsIn(e.command_ring) \cup lo.command) = X \cup {id} BY <2>1
  <2>3. id \notin X /\ IsFiniteSet(X) BY <1>0, SubsetFinite
  <2>4. d.counters["ACCEPTED"] = Cardinality(X) BY <1>0 DEF Balance
  <2>. HIDE DEF X
  <2>. QED BY <2>2, <2>3, <2>4, CardinalityOneMore
<1>7. e.counters["KV_FAULTS"] = e.counters["KV_RECOVERED"] + e.counters["FAULT_OVERFLOWS"]
                                  + Cardinality(Ids(e.pending) \cup lo.parked)
  <2>. DEFINE X == Ids(d.pending) \cup lo.parked
  <2>1. X \subseteq S
    <3>1. /\ w["parked"] = Ids(d.pending) \ lo.parked /\ w["lost_parked"] = lo.parked
      BY Places
    <3>2. w["parked"] \subseteq S /\ w["lost_parked"] \subseteq S
      BY <1>0, PlacesApart DEF Place
    <3>. QED BY <3>1, <3>2
  <2>2. Cardinality(X) \in Nat
    <3>1. IsFiniteSet(X) BY <1>0, <2>1, SubsetFinite
    <3>. QED BY <3>1, FS_CardinalityType
  <2>3. d.counters["KV_FAULTS"] = d.counters["KV_RECOVERED"] + d.counters["FAULT_OVERFLOWS"]
                                    + Cardinality(X)
    BY <1>0 DEF Balance
  <2>4. Ids(e.pending) \cup lo.parked = X OBVIOUS
  <2>. HIDE DEF X
  <2>5. \A z \in {d, e}, c \in {"KV_FAULTS", "KV_RECOVERED", "FAULT_OVERFLOWS"} :
          z.counters[c] \in Nat
    BY <1>0 DEF Shape, Counter
  <2>6. \A f, r, o, g, p, x \in Nat : f = r + o + x /\ g + o = f + p => g = r + p + x
    OBVIOUS
  <2>7. e.counters["KV_FAULTS"] = d.counters["KV_RECOVERED"] + e.counters["FAULT_OVERFLOWS"]
                                    + Cardinality(X)
    BY <2>2, <2>3, <2>5, <2>6
  <2>. QED BY <2>4, <2>7
<1>. QED BY <1>0, <1>3, <1>4, <1>5, <1>6, <1>7 DEF Accounts, Balance

LEMMA PendingPlaces ==
  ASSUME NEW d, NEW cs, NEW tk, NEW lo, NEW S, Partition(Where(d, cs, tk, lo), S),
         IsFiniteSet(S)
  PROVE  /\ Ids(d.pending) \cup lo.parked \subseteq S
         /\ IsFiniteSet(Ids(d.pending) \cup lo.parked)
         /\ Cardinality(Ids(d.pending) \cup lo.parked) \in Nat
         /\ \A id \in IdsIn(d.command_ring) :
              id \notin Ids(d.pending) /\ id \notin lo.parked /\ id \notin lo.command /\ id \in S
         /\ \A id \in Ids(d.pending) \ lo.parked : id \in S
<1>. DEFINE w == Where(d, cs, tk, lo)
<1>1. /\ w["command"] = IdsIn(d.command_ring) /\ w["lost_command"] = lo.command
      /\ w["parked"] = Ids(d.pending) \ lo.parked /\ w["lost_parked"] = lo.parked
  BY Places
<1>2. \A p, q \in Place : /\ w[p] \subseteq S /\ (p # q => w[p] \cap w[q] = {})
  BY PlacesApart
<1>. HIDE DEF w
<1>3. Ids(d.pending) \cup lo.parked \subseteq S BY <1>1, <1>2 DEF Place
<1>4. IsFiniteSet(Ids(d.pending) \cup lo.parked) BY <1>3, SubsetFinite
<1>5. Cardinality(Ids(d.pending) \cup lo.parked) \in Nat BY <1>4, FS_CardinalityType
<1>6. \A id \in IdsIn(d.command_ring) :
        id \notin Ids(d.pending) /\ id \notin lo.parked /\ id \notin lo.command /\ id \in S
  BY <1>1, <1>2 DEF Place
<1>. QED BY <1>3, <1>4, <1>5, <1>6

\* A command of the ring is parked for its fault.
LEMMA ProcessedParked ==
  ASSUME NEW d, NEW e, NEW cs, NEW tk, NEW lo, NEW S, Accounts(d, cs, tk, lo, S),
         NEW command, NEW id, id = command.request_id, id \in IdsIn(d.command_ring),
         Shape(e), Distinct(e.command_ring),
         IdsIn(e.command_ring) = IdsIn(d.command_ring) \ {id},
         e.pending = d.pending \cup {command},
         e.fault_ring = Append(d.fault_ring, Fault(command)), SameAnswers(d, e),
         e.counters["ACCEPTED"] = d.counters["ACCEPTED"] + 1,
         e.counters["KV_RECOVERED"] = d.counters["KV_RECOVERED"],
         e.counters["KV_FAULTS"] = d.counters["KV_FAULTS"] + 1,
         e.counters["FAULT_OVERFLOWS"] = d.counters["FAULT_OVERFLOWS"]
  PROVE  Accounts(e, cs, tk, lo, S)
<1>. DEFINE w == Where(d, cs, tk, lo)
            v == Where(e, cs, tk, lo)
<1>0. Shape(d) /\ IsFiniteSet(S) /\ Partition(w, S) /\ Settled(d, cs, lo)
      /\ Balance(d, cs, tk, lo, S)
  BY DEF Accounts
<1>1. id \notin Ids(d.pending) /\ id \notin lo.parked /\ id \notin lo.command /\ id \in S
  BY <1>0, PendingPlaces
<1>2. Ids(e.pending) = Ids(d.pending) \cup {id} BY DEF Ids
<1>3. Partition(v, S)
  <2>1. /\ v["command"] = w["command"] \ {id} /\ v["parked"] = w["parked"] \cup {id}
        /\ v["driver"] = w["driver"] /\ v["host"] = w["host"]
        /\ v["answered"] = w["answered"] /\ v["dropped"] = w["dropped"]
        /\ v["lost_command"] = w["lost_command"] /\ v["lost_parked"] = w["lost_parked"]
        /\ v["lost_completion"] = w["lost_completion"]
    BY <1>1, <1>2 DEF Where, SameAnswers
  <2>2. {id} \subseteq w["command"] BY DEF Where
  <2>. HIDE DEF w, v
  <2>3. \A r \in Place \ {"command", "parked"} : v[r] = w[r] BY <2>1 DEF Place
  <2>4. "command" \in Place /\ "parked" \in Place BY DEF Place
  <2>. QED BY <1>0, <2>1, <2>2, <2>3, <2>4, Moved
<1>4. Settled(e, cs, lo)
  <2>. DEFINE ring == d.fault_ring
              fault == Fault(command)
  <2>1. IsRing(ring) /\ Distinct(ring) /\ fault.request_id = id /\ id \notin IdsIn(ring)
    BY <1>0, <1>1 DEF Shape, Settled, Fault
  <2>2. IdsIn(ring) = Ids(d.pending) \ lo.parked BY <1>0 DEF Settled
  <2>3. \A f \in Elements(ring) : \E c \in d.pending : f = Fault(c) BY <1>0 DEF Settled
  <2>. HIDE DEF ring, fault
  <2>4. /\ IdsIn(Append(ring, fault)) = IdsIn(ring) \cup {fault.request_id}
        /\ Distinct(Append(ring, fault))
        /\ Elements(Append(ring, fault)) = Elements(ring) \cup {fault}
    BY <2>1, Push
  <2>5. e.fault_ring = Append(ring, fault) BY DEF ring, fault
  <2>6. Keyed(e.pending) BY <1>0, <1>1 DEF Keyed, Settled, Ids
  <2>7. IdsIn(e.fault_ring) = Ids(e.pending) \ lo.parked
    BY <1>1, <1>2, <2>1, <2>2, <2>4, <2>5
  <2>8. \A f \in Elements(e.fault_ring) : \E c \in e.pending : f = Fault(c)
    BY <2>3, <2>4, <2>5 DEF fault
  <2>. QED BY <1>0, <2>4, <2>5, <2>6, <2>7, <2>8 DEF Settled, SameAnswers
<1>5. e.counters["ACCEPTED"] = Cardinality(S \ (IdsIn(e.command_ring) \cup lo.command))
  <2>. DEFINE X == S \ (IdsIn(d.command_ring) \cup lo.command)
  <2>1. S \ (IdsIn(e.command_ring) \cup lo.command) = X \cup {id} BY <1>1
  <2>2. id \notin X /\ IsFiniteSet(X) BY <1>0, SubsetFinite
  <2>3. d.counters["ACCEPTED"] = Cardinality(X) BY <1>0 DEF Balance
  <2>. HIDE DEF X
  <2>. QED BY <2>1, <2>2, <2>3, CardinalityOneMore
<1>6. e.counters["KV_FAULTS"] = e.counters["KV_RECOVERED"] + e.counters["FAULT_OVERFLOWS"]
                                  + Cardinality(Ids(e.pending) \cup lo.parked)
  <2>. DEFINE X == Ids(d.pending) \cup lo.parked
  <2>1. IsFiniteSet(X) /\ id \notin X BY <1>0, <1>1, PendingPlaces
  <2>2. Ids(e.pending) \cup lo.parked = X \cup {id} BY <1>2
  <2>3. d.counters["KV_FAULTS"] = d.counters["KV_RECOVERED"] + d.counters["FAULT_OVERFLOWS"]
                                    + Cardinality(X)
    BY <1>0 DEF Balance
  <2>. HIDE DEF X
  <2>4. Cardinality(X) \in Nat /\ Cardinality(X \cup {id}) = Cardinality(X) + 1
    BY <2>1, CardinalityOneMore
  <2>5. \A z \in {d, e}, k \in {"KV_FAULTS", "KV_RECOVERED", "FAULT_OVERFLOWS"} :
          z.counters[k] \in Nat
    BY <1>0 DEF Shape, Counter
  <2>. DEFINE f == d.counters["KV_FAULTS"]
              r == d.counters["KV_RECOVERED"]
              o == d.counters["FAULT_OVERFLOWS"]
              y == Cardinality(X)
  <2>6. f \in Nat /\ r \in Nat /\ o \in Nat /\ y \in Nat BY <2>4, <2>5
  <2>7. f = r + o + y BY <2>3
  <2>8. /\ e.counters["KV_FAULTS"] = f + 1 /\ e.counters["KV_RECOVERED"] = r
        /\ e.counters["FAULT_OVERFLOWS"] = o
        /\ Cardinality(Ids(e.pending) \cup lo.parked) = y + 1
    BY <2>2, <2>4
  <2>. HIDE DEF f, r, o, y
  <2>9. f + 1 = r + o + (y + 1) BY <2>6, <2>7
  <2>. QED BY <2>8, <2>9
<1>. QED BY <1>0, <1>3, <1>4, <1>5, <1>6 DEF Accounts, Balance, SameAnswers

\* The fault of a parked command is served, and the command answered.
LEMMA Replayed ==
  ASSUME NEW d, NEW e, NEW cs, NEW tk, NEW lo, NEW S, Accounts(d, cs, tk, lo, S),
         NEW c \in d.pending, NEW id, id = c.request_id, id \in IdsIn(d.fault_ring), Shape(e),
         Distinct(e.fault_ring), IdsIn(e.fault_ring) = IdsIn(d.fault_ring) \ {id},
         Elements(e.fault_ring) \subseteq Elements(d.fault_ring),
         e.command_ring = d.command_ring, e.pending = d.pending \ {c}, Answers(d, e, id),
         e.counters["ACCEPTED"] = d.counters["ACCEPTED"],
         e.counters["KV_RECOVERED"] = d.counters["KV_RECOVERED"] + 1,
         e.counters["KV_FAULTS"] + d.counters["FAULT_OVERFLOWS"]
           = d.counters["KV_FAULTS"] + e.counters["FAULT_OVERFLOWS"]
  PROVE  Accounts(e, cs, tk, lo, S)
<1>. DEFINE w == Where(d, cs, tk, lo)
            v == Where(e, cs, tk, lo)
<1>0. Shape(d) /\ IsFiniteSet(S) /\ Partition(w, S) /\ Settled(d, cs, lo)
      /\ Balance(d, cs, tk, lo, S)
  BY DEF Accounts
<1>1. id \in Ids(d.pending) /\ id \notin lo.parked BY <1>0 DEF Settled
<1>2. Ids(e.pending) = Ids(d.pending) \ {id} BY <1>0 DEF Ids, Settled, Keyed
<1>3. /\ Distinct(e.completion_ring)
      /\ \/ /\ IdsIn(e.completion_ring) = IdsIn(d.completion_ring) \cup {id}
            /\ e.dropped = d.dropped
         \/ /\ IdsIn(e.completion_ring) = IdsIn(d.completion_ring)
            /\ e.dropped = d.dropped \cup {id}
      /\ e.counters["COMPLETED"]
           = Cardinality(IdsIn(e.completion_ring) \cup Ids(cs) \cup tk \cup lo.completion)
  <2>1. id \in Where(d, cs, tk, lo)["command"] \cup Where(d, cs, tk, lo)["parked"]
    BY <1>1 DEF Where
  <2>. QED BY <2>1, AnswerSettles
<1>4. Partition(v, S)
  <2>1. /\ v["command"] = w["command"] /\ v["parked"] = w["parked"] \ {id}
        /\ v["driver"] = w["driver"] /\ v["host"] = w["host"]
        /\ v["lost_command"] = w["lost_command"] /\ v["lost_parked"] = w["lost_parked"]
        /\ v["lost_completion"] = w["lost_completion"]
    BY <1>2 DEF Where
  <2>2. \/ v["answered"] = w["answered"] \cup {id} /\ v["dropped"] = w["dropped"]
        \/ v["answered"] = w["answered"] /\ v["dropped"] = w["dropped"] \cup {id}
    BY <1>3 DEF Where
  <2>3. {id} \subseteq w["parked"] BY <1>1 DEF Where
  <2>. HIDE DEF w, v
  <2>4. CASE v["answered"] = w["answered"] \cup {id} /\ v["dropped"] = w["dropped"]
    <3>1. \A r \in Place \ {"parked", "answered"} : v[r] = w[r] BY <2>1, <2>4 DEF Place
    <3>2. "parked" \in Place /\ "answered" \in Place BY DEF Place
    <3>. QED BY <1>0, <2>1, <2>3, <2>4, <3>1, <3>2, Moved
  <2>5. CASE v["answered"] = w["answered"] /\ v["dropped"] = w["dropped"] \cup {id}
    <3>1. \A r \in Place \ {"parked", "dropped"} : v[r] = w[r] BY <2>1, <2>5 DEF Place
    <3>2. "parked" \in Place /\ "dropped" \in Place BY DEF Place
    <3>. QED BY <1>0, <2>1, <2>3, <2>5, <3>1, <3>2, Moved
  <2>. QED BY <2>2, <2>4, <2>5
<1>5. Settled(e, cs, lo)
  <2>1. Keyed(e.pending) BY <1>0 DEF Keyed, Settled
  <2>2. IdsIn(e.fault_ring) = Ids(e.pending) \ lo.parked BY <1>0, <1>2 DEF Settled
  <2>3. ASSUME NEW f \in Elements(e.fault_ring) PROVE \E x \in e.pending : f = Fault(x)
    <3>1. PICK x \in d.pending : f = Fault(x) BY <1>0 DEF Settled
    <3>2. f.request_id \in IdsIn(e.fault_ring) BY DEF Elements, IdsIn
    <3>3. x.request_id # id BY <3>1, <3>2 DEF Fault
    <3>. QED BY <3>1, <3>3
  <2>. QED BY <1>0, <1>3, <2>1, <2>2, <2>3 DEF Settled
<1>6. e.counters["KV_FAULTS"] = e.counters["KV_RECOVERED"] + e.counters["FAULT_OVERFLOWS"]
                                  + Cardinality(Ids(e.pending) \cup lo.parked)
  <2>. DEFINE X == Ids(d.pending) \cup lo.parked
              Y == Ids(e.pending) \cup lo.parked
  <2>1. IsFiniteSet(X) BY <1>0, PendingPlaces
  <2>2. X = Y \cup {id} /\ id \notin Y BY <1>1, <1>2
  <2>3. d.counters["KV_FAULTS"] = d.counters["KV_RECOVERED"] + d.counters["FAULT_OVERFLOWS"]
                                    + Cardinality(X)
    BY <1>0 DEF Balance
  <2>. HIDE DEF X, Y
  <2>4. IsFiniteSet(Y) BY <2>1, <2>2, SubsetFinite
  <2>5. Cardinality(Y) \in Nat /\ Cardinality(X) = Cardinality(Y) + 1
    BY <2>2, <2>4, CardinalityOneMore
  <2>6. \A z \in {d, e}, k \in {"KV_FAULTS", "KV_RECOVERED", "FAULT_OVERFLOWS"} :
          z.counters[k] \in Nat
    BY <1>0 DEF Shape, Counter
  <2>7. \A f, r, o, g, p, y \in Nat :
          f = r + o + (y + 1) /\ g + o = f + p => g = (r + 1) + p + y
    OBVIOUS
  <2>8. e.counters["KV_FAULTS"]
          = (d.counters["KV_RECOVERED"] + 1) + e.counters["FAULT_OVERFLOWS"] + Cardinality(Y)
    BY <2>3, <2>5, <2>6, <2>7
  <2>. QED BY <2>8 DEF Y
<1>. QED BY <1>0, <1>3, <1>4, <1>5, <1>6 DEF Accounts, Balance

\* What the driver and the firmware leave alone when they only count.
SameBooks(d, e) ==
  /\ e.command_ring = d.command_ring /\ e.fault_ring = d.fault_ring
  /\ e.completion_ring = d.completion_ring
  /\ e.pending = d.pending /\ e.dropped = d.dropped
  /\ \A k \in {"ACCEPTED", "COMPLETED", "KV_FAULTS", "KV_RECOVERED", "FAULT_OVERFLOWS"} :
       e.counters[k] = d.counters[k]

LEMMA OnlyCounted ==
  ASSUME NEW d, NEW e, NEW cs, NEW tk, NEW lo, NEW S, Accounts(d, cs, tk, lo, S),
         Shape(e), SameBooks(d, e)
  PROVE  Accounts(e, cs, tk, lo, S)
<1>1. Where(e, cs, tk, lo) = Where(d, cs, tk, lo) BY DEF SameBooks, Where
<1>2. Settled(e, cs, lo) BY DEF SameBooks, Settled, Accounts
<1>3. Balance(e, cs, tk, lo, S) BY DEF SameBooks, Balance, Accounts
<1>. QED BY <1>1, <1>2, <1>3 DEF Accounts

\* The command ring accepts a request.
LEMMA Submitted ==
  ASSUME NEW d, NEW e, NEW cs, NEW tk, NEW lo, NEW S, Accounts(d, cs, tk, lo, S),
         NEW x \in Command, NEW id, id = x.request_id, id \notin S,
         e = [d EXCEPT !.command_ring = Append(@, x)]
  PROVE  Accounts(e, cs, tk, lo, S \cup {id})
<1>. DEFINE w == Where(d, cs, tk, lo)
            v == Where(e, cs, tk, lo)
            ring == d.command_ring
<1>0. Shape(d) /\ IsFiniteSet(S) /\ Partition(w, S) /\ Settled(d, cs, lo)
      /\ Balance(d, cs, tk, lo, S)
  BY DEF Accounts
<1>1. /\ DOMAIN e = Fields /\ e.command_ring = Append(ring, x)
      /\ e.completion_ring = d.completion_ring /\ e.fault_ring = d.fault_ring
      /\ e.pending = d.pending /\ e.kv_pages = d.kv_pages
      /\ e.counters = d.counters /\ e.dropped = d.dropped
  BY <1>0 DEF Shape, Fields
<1>2. IsRing(ring) /\ Distinct(ring) /\ Elements(ring) \subseteq Command
      /\ x.request_id \notin IdsIn(ring)
  <2>1. w["command"] = IdsIn(ring) BY DEF Where
  <2>2. w["command"] \subseteq S BY <1>0, PlacesApart DEF Place
  <2>. QED BY <1>0, <2>1, <2>2 DEF Shape, Settled
<1>. HIDE DEF ring
<1>3. /\ IsRing(Append(ring, x)) /\ Distinct(Append(ring, x))
      /\ Elements(Append(ring, x)) = Elements(ring) \cup {x}
      /\ IdsIn(Append(ring, x)) = IdsIn(ring) \cup {x.request_id}
  BY <1>2, Push
<1>4. Shape(e) BY <1>0, <1>1, <1>2, <1>3 DEF Shape
<1>5. IdsIn(e.command_ring) = IdsIn(d.command_ring) \cup {id} BY <1>1, <1>3 DEF ring
<1>. HIDE DEF w, v
<1>6. Partition(v, S \cup {id})
  <2>1. /\ v["command"] = w["command"] \cup {id} /\ v["parked"] = w["parked"]
        /\ v["driver"] = w["driver"] /\ v["host"] = w["host"]
        /\ v["answered"] = w["answered"] /\ v["dropped"] = w["dropped"]
        /\ v["lost_command"] = w["lost_command"] /\ v["lost_parked"] = w["lost_parked"]
        /\ v["lost_completion"] = w["lost_completion"]
    BY <1>1, <1>5 DEF Where, v, w
  <2>2. \A r \in Place \ {"command"} : v[r] = w[r] BY <2>1 DEF Place
  <2>3. "command" \in Place BY DEF Place
  <2>. QED BY <1>0, <2>1, <2>2, <2>3, Entered
<1>7. IsFiniteSet(S \cup {id}) BY <1>0, FS_AddElement
<1>8. Settled(e, cs, lo) BY <1>0, <1>1, <1>3 DEF Settled
<1>9. Balance(e, cs, tk, lo, S \cup {id})
  <2>1. id \notin lo.command
    <3>1. w["lost_command"] = lo.command BY DEF Where, w
    <3>2. w["lost_command"] \subseteq S BY <1>0, PlacesApart DEF Place, w
    <3>. QED BY <3>1, <3>2
  <2>2. (S \cup {id}) \ (IdsIn(e.command_ring) \cup lo.command)
          = S \ (IdsIn(d.command_ring) \cup lo.command)
    BY <1>5
  <2>. QED BY <1>0, <1>1, <2>2 DEF Balance
<1>. QED BY <1>4, <1>6, <1>7, <1>8, <1>9 DEF Accounts, v

\* The driver takes the completions out of the ring.
LEMMA Drained ==
  ASSUME NEW d, NEW e, NEW cs, NEW tk, NEW lo, NEW S, Accounts(d, cs, tk, lo, S),
         NEW cz, cz = {c \in cs : c.request_id \notin IdsIn(d.completion_ring)}
                        \cup Elements(d.completion_ring),
         e = [d EXCEPT !.completion_ring = <<>>]
  PROVE  Accounts(e, cz, tk, lo, S)
<1>. DEFINE w == Where(d, cs, tk, lo)
            v == Where(e, cz, tk, lo)
<1>0. Shape(d) /\ IsFiniteSet(S) /\ Partition(w, S) /\ Settled(d, cs, lo)
      /\ Balance(d, cs, tk, lo, S)
  BY DEF Accounts
<1>1. /\ DOMAIN e = Fields /\ e.command_ring = d.command_ring
      /\ e.completion_ring = <<>> /\ e.fault_ring = d.fault_ring
      /\ e.pending = d.pending /\ e.kv_pages = d.kv_pages
      /\ e.counters = d.counters /\ e.dropped = d.dropped
  BY <1>0 DEF Shape, Fields
<1>2. Shape(e) BY <1>0, <1>1, EmptyRing DEF Shape
<1>3. IdsIn(d.completion_ring) \cap Ids(cs) = {}
  <2>1. w["answered"] \cap w["driver"] = {} BY <1>0, PlacesApart DEF Place
  <2>2. w["answered"] = IdsIn(d.completion_ring) /\ w["driver"] = Ids(cs) BY DEF Where
  <2>. QED BY <2>1, <2>2
<1>4. cz = cs \cup Elements(d.completion_ring) BY <1>3 DEF Ids
<1>5. Ids(Elements(d.completion_ring)) = IdsIn(d.completion_ring) BY IdsOfElements
<1>6. Ids(cz) = Ids(cs) \cup IdsIn(d.completion_ring) BY <1>4, <1>5 DEF Ids
<1>7. Keyed(cz)
  <2>1. Keyed(Elements(d.completion_ring))
    BY <1>0 DEF Keyed, Elements, Settled, Distinct
  <2>2. Keyed(cs) BY <1>0 DEF Settled
  <2>3. \A x \in cs, y \in Elements(d.completion_ring) : x.request_id # y.request_id
    BY <1>3, <1>5 DEF Ids
  <2>. QED BY <1>4, <2>1, <2>2, <2>3 DEF Keyed
<1>8. Partition(v, S)
  <2>1. /\ v["command"] = w["command"] /\ v["parked"] = w["parked"]
        /\ v["driver"] = w["driver"] \cup w["answered"] /\ v["host"] = w["host"]
        /\ v["answered"] = w["answered"] \ w["answered"] /\ v["dropped"] = w["dropped"]
        /\ v["lost_command"] = w["lost_command"] /\ v["lost_parked"] = w["lost_parked"]
        /\ v["lost_completion"] = w["lost_completion"]
    BY <1>1, <1>6, EmptyRing DEF Where
  <2>. HIDE DEF w, v
  <2>2. \A r \in Place \ {"answered", "driver"} : v[r] = w[r] BY <2>1 DEF Place
  <2>3. "answered" \in Place /\ "driver" \in Place BY DEF Place
  <2>. DEFINE M == w["answered"]
  <2>4. /\ M \subseteq w["answered"] /\ v["answered"] = w["answered"] \ M
        /\ v["driver"] = w["driver"] \cup M
    BY <2>1
  <2>. HIDE DEF M
  <2>. QED BY <1>0, <2>2, <2>3, <2>4, Moved
<1>9. Settled(e, cz, lo) BY <1>0, <1>1, <1>7, EmptyRing DEF Settled
<1>10. Balance(e, cz, tk, lo, S)
  <2>1. IdsIn(e.completion_ring) \cup Ids(cz) \cup tk \cup lo.completion
          = IdsIn(d.completion_ring) \cup Ids(cs) \cup tk \cup lo.completion
    BY <1>1, <1>6, EmptyRing
  <2>. QED BY <1>0, <1>1, <2>1 DEF Balance
<1>. QED BY <1>0, <1>2, <1>8, <1>9, <1>10 DEF Accounts

\* The host takes a completion.
LEMMA Taken ==
  ASSUME NEW d, NEW cs, NEW tk, NEW lo, NEW S, Accounts(d, cs, tk, lo, S), NEW c \in cs
  PROVE  Accounts(d, cs \ {c}, tk \cup {c.request_id}, lo, S)
<1>. DEFINE id == c.request_id
            cz == cs \ {c}
            tz == tk \cup {id}
            w == Where(d, cs, tk, lo)
            v == Where(d, cz, tz, lo)
<1>0. Shape(d) /\ IsFiniteSet(S) /\ Partition(w, S) /\ Settled(d, cs, lo)
      /\ Balance(d, cs, tk, lo, S)
  BY DEF Accounts
<1>1. Ids(cz) = Ids(cs) \ {id} /\ id \in Ids(cs) BY <1>0 DEF Ids, Settled, Keyed
<1>2. Keyed(cz) BY <1>0 DEF Settled, Keyed
<1>. HIDE DEF id, cz
<1>3. Partition(v, S)
  <2>1. /\ v["command"] = w["command"] /\ v["parked"] = w["parked"]
        /\ v["driver"] = w["driver"] \ {id} /\ v["host"] = w["host"] \cup {id}
        /\ v["answered"] = w["answered"] /\ v["dropped"] = w["dropped"]
        /\ v["lost_command"] = w["lost_command"] /\ v["lost_parked"] = w["lost_parked"]
        /\ v["lost_completion"] = w["lost_completion"]
    BY <1>1 DEF Where
  <2>2. {id} \subseteq w["driver"] BY <1>1 DEF Where
  <2>. HIDE DEF w, v
  <2>3. \A r \in Place \ {"driver", "host"} : v[r] = w[r] BY <2>1 DEF Place
  <2>4. "driver" \in Place /\ "host" \in Place BY DEF Place
  <2>. QED BY <1>0, <2>1, <2>2, <2>3, <2>4, Moved
<1>4. Settled(d, cz, lo) BY <1>0, <1>2 DEF Settled
<1>5. Balance(d, cz, tz, lo, S)
  <2>1. IdsIn(d.completion_ring) \cup Ids(cz) \cup tz \cup lo.completion
          = IdsIn(d.completion_ring) \cup Ids(cs) \cup tk \cup lo.completion
    BY <1>1
  <2>. QED BY <1>0, <2>1 DEF Balance
<1>. QED BY <1>0, <1>3, <1>4, <1>5 DEF Accounts, id, cz

\* New rings: what the old ones held is lost.
LEMMA RingsLost ==
  ASSUME NEW d, NEW e, NEW cs, NEW tk, NEW lo, NEW S, Accounts(d, cs, tk, lo, S),
         NEW lz, lz = [lo EXCEPT !.command = @ \cup IdsIn(d.command_ring),
                                 !.completion = @ \cup IdsIn(d.completion_ring),
                                 !.parked = @ \cup Ids(d.pending)],
         DOMAIN lo = {"command", "parked", "completion"},
         Shape(e), e.command_ring = <<>>, e.completion_ring = <<>>, e.fault_ring = <<>>,
         e.pending \subseteq d.pending, e.dropped = d.dropped,
         \A k \in {"ACCEPTED", "COMPLETED", "KV_FAULTS", "KV_RECOVERED", "FAULT_OVERFLOWS"} :
           e.counters[k] = d.counters[k]
  PROVE  Accounts(e, cs, tk, lz, S)
<1>. DEFINE w == Where(d, cs, tk, lo)
            v == Where(e, cs, tk, lz)
<1>0. Shape(d) /\ IsFiniteSet(S) /\ Partition(w, S) /\ Settled(d, cs, lo)
      /\ Balance(d, cs, tk, lo, S)
  BY DEF Accounts
<1>1. /\ lz.command = lo.command \cup IdsIn(d.command_ring)
      /\ lz.completion = lo.completion \cup IdsIn(d.completion_ring)
      /\ lz.parked = lo.parked \cup Ids(d.pending)
  OBVIOUS
<1>2. Ids(e.pending) \subseteq Ids(d.pending) BY DEF Ids
<1>3. IdsIn(<<>>) = {} BY EmptyRing
<1>4. Partition(v, S)
  <2>1. /\ v["command"] = {} /\ v["parked"] = {} /\ v["answered"] = {}
        /\ v["driver"] = w["driver"] /\ v["host"] = w["host"] /\ v["dropped"] = w["dropped"]
        /\ v["lost_command"] = w["lost_command"] \cup w["command"]
        /\ v["lost_parked"] = w["lost_parked"] \cup w["parked"]
        /\ v["lost_completion"] = w["lost_completion"] \cup w["answered"]
    BY <1>1, <1>2, <1>3 DEF Where
  <2>. DEFINE to == [p \in Place |-> IF p = "command" THEN "lost_command"
                                     ELSE IF p = "parked" THEN "lost_parked"
                                     ELSE IF p = "answered" THEN "lost_completion" ELSE p]
  <2>2. to \in [Place -> Place] BY DEF Place
  <2>. HIDE DEF w, v
  <2>3. /\ \A p \in {"command", "parked", "answered"} : {r \in Place : to[r] = p} = {}
        /\ \A p \in {"driver", "host", "dropped"} : {r \in Place : to[r] = p} = {p}
        /\ {r \in Place : to[r] = "lost_command"} = {"lost_command", "command"}
        /\ {r \in Place : to[r] = "lost_parked"} = {"lost_parked", "parked"}
        /\ {r \in Place : to[r] = "lost_completion"} = {"lost_completion", "answered"}
    BY DEF Place
  <2>. HIDE DEF to
  <2>4. ASSUME NEW p \in Place
        PROVE  v[p] = UNION {w[q] : q \in {r \in Place : to[r] = p}}
    <3>1. CASE p \in {"command", "parked", "answered"} BY <2>1, <2>3, <3>1
    <3>2. CASE p \in {"driver", "host", "dropped"} BY <2>1, <2>3, <3>2
    <3>3. CASE p = "lost_command" BY <2>1, <2>3, <3>3
    <3>4. CASE p = "lost_parked" BY <2>1, <2>3, <3>4
    <3>5. CASE p = "lost_completion" BY <2>1, <2>3, <3>5
    <3>. QED BY <3>1, <3>2, <3>3, <3>4, <3>5 DEF Place
  <2>. QED BY <1>0, <2>2, <2>4, Merged
<1>5. Settled(e, cs, lz)
  <2>1. Keyed(e.pending) /\ Keyed(cs) BY <1>0 DEF Settled, Keyed
  <2>. QED BY <1>1, <1>2, <2>1, EmptyRing DEF Settled
<1>6. Balance(e, cs, tk, lz, S)
  <2>1. S \ (IdsIn(e.command_ring) \cup lz.command)
          = S \ (IdsIn(d.command_ring) \cup lo.command)
    BY <1>1, <1>3
  <2>2. IdsIn(e.completion_ring) \cup Ids(cs) \cup tk \cup lz.completion
          = IdsIn(d.completion_ring) \cup Ids(cs) \cup tk \cup lo.completion
    BY <1>1, <1>3
  <2>3. Ids(e.pending) \cup lz.parked = Ids(d.pending) \cup lo.parked BY <1>1, <1>2
  <2>. QED BY <1>0, <2>1, <2>2, <2>3 DEF Balance
<1>. QED BY <1>0, <1>4, <1>5, <1>6 DEF Accounts

-----------------------------------------------------------------------------
(* Every request in one place, and the parked commands those of the faults *)

\* The inductive invariant: the places, the rings and the counters agree for the
\* requests that were sent, and no id is sent twice.
AccountInv ==
  /\ Accounts(device, completions, taken, lost, SentIds)
  /\ sent \subseteq Command
  /\ next_request_id \in Nat \ {0} /\ next_physical_page \in Nat \ {0}
  /\ \A id \in SentIds : id < next_request_id
  /\ DOMAIN lost = {"command", "parked", "completion"}

LEMMA CountBooks ==
  ASSUME NEW d, Shape(d), NEW k \in {"QUEUE_ERRORS", "BOOT_ATTEMPTS", "BOOT_FAILURES"}
  PROVE  Shape(Count(d, k)) /\ SameBooks(d, Count(d, k))
<1>. DEFINE e == Increment(d, k, 1)
<1>1. k \in Counter /\ 1 \in Nat BY DEF Counter
<1>2. /\ Shape(e) /\ SameQueues(d, e)
      /\ e.completion_ring = d.completion_ring /\ e.dropped = d.dropped
      /\ e.entries = d.entries
      /\ e.counters = [d.counters EXCEPT ![k] = @ + 1]
  BY <1>1, CountDoes
<1>. HIDE DEF e
<1>3. \A c \in {"ACCEPTED", "COMPLETED", "KV_FAULTS", "KV_RECOVERED", "FAULT_OVERFLOWS"} :
        e.counters[c] = d.counters[c]
  BY <1>2 DEF Shape, Counter
<1>4. Shape(e) /\ SameBooks(d, e) BY <1>2, <1>3 DEF SameBooks, SameQueues
<1>. QED BY <1>4 DEF e, Count

\* A command of the ring is processed.
LEMMA ProcessBooks ==
  ASSUME NEW d, NEW cs, NEW tk, NEW lo, NEW S, Accounts(d, cs, tk, lo, S),
         d.command_ring # <<>>
  PROVE  Accounts(Execute(Count([d EXCEPT !.command_ring = Tail(@)], "ACCEPTED"),
                          Head(d.command_ring)), cs, tk, lo, S)
<1>. DEFINE ring == d.command_ring
            command == Head(ring)
            id == command.request_id
            p == [d EXCEPT !.command_ring = Tail(@)]
            c == Increment(p, "ACCEPTED", 1)
            e == Execute(c, command)
<1>0. Shape(d) /\ Settled(d, cs, lo) BY DEF Accounts
<1>1. IsRing(ring) /\ Distinct(ring) /\ Elements(ring) \subseteq Command /\ ring # <<>>
  BY <1>0 DEF Shape, Settled
<1>2. /\ DOMAIN p = Fields /\ p.command_ring = Tail(ring)
      /\ p.completion_ring = d.completion_ring /\ p.fault_ring = d.fault_ring
      /\ p.pending = d.pending /\ p.kv_pages = d.kv_pages
      /\ p.counters = d.counters /\ p.dropped = d.dropped
  BY <1>0 DEF Shape, Fields
<1>. HIDE DEF p, ring
<1>3. /\ IsRing(Tail(ring)) /\ Head(ring) \in Elements(ring)
      /\ Elements(Tail(ring)) \subseteq Elements(ring)
      /\ Head(ring).request_id \in IdsIn(ring)
      /\ Distinct(Tail(ring)) /\ IdsIn(Tail(ring)) = IdsIn(ring) \ {Head(ring).request_id}
  BY <1>1, Pop
<1>4. Shape(p) BY <1>0, <1>1, <1>2, <1>3 DEF Shape
<1>5. /\ Shape(c) /\ SameQueues(p, c)
      /\ c.completion_ring = p.completion_ring /\ c.dropped = p.dropped
      /\ c.entries = p.entries
      /\ c.counters = [p.counters EXCEPT !["ACCEPTED"] = @ + 1]
  <2>1. "ACCEPTED" \in Counter /\ 1 \in Nat BY DEF Counter
  <2>. QED BY <1>4, <2>1, CountDoes
<1>. HIDE DEF c, command
<1>6. \/ /\ Shape(e) /\ SameQueues(c, e) /\ SameFaults(c, e)
         /\ Answers(c, e, command.request_id)
      \/ /\ Parks(c, e, command) /\ SameAnswers(c, e) /\ DOMAIN e = Fields
         /\ e.counters \in [Counter -> Nat]
         /\ c.kv_pages[command.argument] = 0
  BY <1>5, ExecuteDoes
<1>. HIDE DEF e, id
<1>7. /\ id = command.request_id /\ id \in IdsIn(d.command_ring) /\ command \in Command
      /\ c.command_ring = Tail(ring) /\ Distinct(c.command_ring)
      /\ IdsIn(c.command_ring) = IdsIn(d.command_ring) \ {id}
      /\ c.completion_ring = d.completion_ring /\ c.fault_ring = d.fault_ring
      /\ c.pending = d.pending /\ c.dropped = d.dropped
  BY <1>1, <1>2, <1>3, <1>5 DEF id, command, ring, SameQueues
<1>8. /\ c.counters["ACCEPTED"] = d.counters["ACCEPTED"] + 1
      /\ \A k \in {"COMPLETED", "KV_FAULTS", "KV_RECOVERED", "FAULT_OVERFLOWS"} :
           c.counters[k] = d.counters[k]
  BY <1>0, <1>2, <1>5 DEF Shape, Counter
<1>9. CASE Shape(e) /\ SameQueues(c, e) /\ SameFaults(c, e) /\ Answers(c, e, command.request_id)
  <2>1. /\ Distinct(e.command_ring)
        /\ IdsIn(e.command_ring) = IdsIn(d.command_ring) \ {id}
        /\ e.fault_ring = d.fault_ring /\ e.pending = d.pending
    BY <1>7, <1>9 DEF SameQueues
  <2>2. Answers(d, e, id) BY <1>7, <1>8, <1>9 DEF Answers
  <2>3. /\ e.counters["ACCEPTED"] = d.counters["ACCEPTED"] + 1
        /\ e.counters["KV_RECOVERED"] = d.counters["KV_RECOVERED"]
        /\ e.counters["KV_FAULTS"] + d.counters["FAULT_OVERFLOWS"]
             = d.counters["KV_FAULTS"] + e.counters["FAULT_OVERFLOWS"]
    BY <1>8, <1>9 DEF SameFaults
  <2>4. Accounts(e, cs, tk, lo, S) BY <1>7, <1>9, <2>1, <2>2, <2>3, ProcessedAnswered
  <2>. QED BY <2>4 DEF e, c, p, command, ring, Count
<1>10. CASE /\ Parks(c, e, command) /\ SameAnswers(c, e) /\ DOMAIN e = Fields
            /\ e.counters \in [Counter -> Nat]
  <2>1. /\ Distinct(e.command_ring)
        /\ IdsIn(e.command_ring) = IdsIn(d.command_ring) \ {id}
        /\ e.pending = d.pending \cup {command}
        /\ e.fault_ring = Append(d.fault_ring, Fault(command))
    BY <1>7, <1>10 DEF Parks
  <2>2. SameAnswers(d, e) BY <1>7, <1>8, <1>10 DEF SameAnswers
  <2>3. /\ e.counters["ACCEPTED"] = d.counters["ACCEPTED"] + 1
        /\ e.counters["KV_RECOVERED"] = d.counters["KV_RECOVERED"]
        /\ e.counters["KV_FAULTS"] = d.counters["KV_FAULTS"] + 1
        /\ e.counters["FAULT_OVERFLOWS"] = d.counters["FAULT_OVERFLOWS"]
    BY <1>8, <1>10 DEF Parks
  <2>4. IsRing(e.fault_ring)
    <3>. DEFINE faults == d.fault_ring
                fault == Fault(command)
    <3>1. IsRing(faults) BY <1>0 DEF Shape
    <3>. HIDE DEF faults, fault
    <3>2. IsRing(Append(faults, fault)) BY <3>1, Push
    <3>. QED BY <2>1, <3>2 DEF faults, fault
  <2>5. Shape(e)
    <3>1. /\ e.command_ring = c.command_ring /\ e.completion_ring = c.completion_ring
          /\ e.kv_pages = c.kv_pages
      BY <1>10 DEF Parks, SameAnswers
    <3>. QED BY <1>5, <1>7, <1>10, <2>1, <2>4, <3>1 DEF Shape
  <2>6. Accounts(e, cs, tk, lo, S) BY <1>7, <2>1, <2>2, <2>3, <2>5, ProcessedParked
  <2>. QED BY <2>6 DEF e, c, p, command, ring, Count
<1>. QED BY <1>6, <1>9, <1>10

\* A fault of the ring is served; its command has not been retried.
LEMMA ServeBooks ==
  ASSUME NEW d, NEW cs, NEW tk, NEW lo, NEW S, Accounts(d, cs, tk, lo, S),
         d.fault_ring # <<>>, next_physical_page \in Nat \ {0}
  PROVE  /\ Head(d.fault_ring).retry_count = 0
         /\ Head(d.fault_ring).address \in Pages
         /\ Accounts(ServeFault([d EXCEPT !.fault_ring = Tail(@)], Head(d.fault_ring)),
                     cs, tk, lo, S)
<1>. DEFINE ring == d.fault_ring
            fault == Head(ring)
            p == [d EXCEPT !.fault_ring = Tail(@)]
<1>0. Shape(d) /\ Settled(d, cs, lo) BY DEF Accounts
<1>1. IsRing(ring) /\ Distinct(ring) /\ ring # <<>>
      /\ (\A f \in Elements(ring) : \E x \in d.pending : f = Fault(x))
  BY <1>0 DEF Shape, Settled
<1>2. /\ DOMAIN p = Fields /\ p.fault_ring = Tail(ring)
      /\ p.completion_ring = d.completion_ring /\ p.command_ring = d.command_ring
      /\ p.pending = d.pending /\ p.kv_pages = d.kv_pages
      /\ p.counters = d.counters /\ p.dropped = d.dropped
  BY <1>0 DEF Shape, Fields
<1>. HIDE DEF p, ring
<1>3. /\ IsRing(Tail(ring)) /\ Head(ring) \in Elements(ring)
      /\ Elements(Tail(ring)) \subseteq Elements(ring)
      /\ Head(ring).request_id \in IdsIn(ring)
      /\ Distinct(Tail(ring)) /\ IdsIn(Tail(ring)) = IdsIn(ring) \ {Head(ring).request_id}
  BY <1>1, Pop
<1>4. PICK c \in d.pending : fault = Fault(c) BY <1>1, <1>3
<1>5. c \in Command BY <1>0 DEF Shape
<1>6. /\ fault.retry_count = 0 /\ fault.address \in Pages
      /\ fault.request_id = c.request_id
  BY <1>4, <1>5 DEF Fault, Command
<1>7. Shape(p) BY <1>0, <1>2, <1>3 DEF Shape
<1>8. \A x \in p.pending : x.request_id = c.request_id => x = c
  BY <1>0, <1>2 DEF Settled, Keyed
<1>. DEFINE id == c.request_id
            e == ServeFault(p, Fault(c))
<1>9. /\ Shape(e)
      /\ e.command_ring = p.command_ring /\ e.fault_ring = p.fault_ring
      /\ e.pending = p.pending \ {c} /\ Answers(p, e, c.request_id)
      /\ e.counters["ACCEPTED"] = p.counters["ACCEPTED"]
      /\ e.counters["KV_RECOVERED"] = p.counters["KV_RECOVERED"] + 1
      /\ e.counters["KV_FAULTS"] + p.counters["FAULT_OVERFLOWS"]
           = p.counters["KV_FAULTS"] + e.counters["FAULT_OVERFLOWS"]
  <2>1. c \in p.pending BY <1>2
  <2>. QED BY <1>7, <1>8, <2>1, ServeFaultDoes
<1>. HIDE DEF e, id
<1>10. /\ Distinct(e.fault_ring) /\ IdsIn(e.fault_ring) = IdsIn(d.fault_ring) \ {id}
       /\ Elements(e.fault_ring) \subseteq Elements(d.fault_ring)
       /\ id = c.request_id /\ id \in IdsIn(d.fault_ring)
  BY <1>2, <1>3, <1>6, <1>9 DEF id, ring
<1>11. Answers(d, e, id) BY <1>2, <1>9 DEF Answers, id
<1>12. Accounts(e, cs, tk, lo, S)
  BY <1>2, <1>9, <1>10, <1>11, Replayed
<1>13. e = ServeFault([d EXCEPT !.fault_ring = Tail(@)], Head(d.fault_ring))
  BY <1>4 DEF e, p, ring
<1>. QED BY <1>6, <1>12, <1>13 DEF ring

\* A boot that fails only counts; one that succeeds makes new rings.
LEMMA BootBooks ==
  ASSUME NEW d, Shape(d), NEW image, NEW entries, NEW lock_debug
  PROVE  LET e == BootDevice(d, image, entries, lock_debug)
         IN  /\ Shape(e) /\ e.dropped = d.dropped /\ e.pending = d.pending
             /\ \A k \in {"ACCEPTED", "COMPLETED", "KV_FAULTS", "KV_RECOVERED",
                          "FAULT_OVERFLOWS"} : e.counters[k] = d.counters[k]
             /\ IF RomVerify(d, image) /\ QueueSizeValid(entries)
                THEN /\ e.command_ring = <<>> /\ e.completion_ring = <<>>
                     /\ e.fault_ring = <<>>
                ELSE SameBooks(d, e)
<1>. DEFINE a == Count(d, "BOOT_ATTEMPTS")
            n == Count(a, "BOOT_FAILURES")
            failed == [n EXCEPT !.boot_failed = TRUE, !.status = "FATAL"]
            refused == [failed EXCEPT !.secure_verified = FALSE, !.enabled = FALSE]
            fresh == InitializeQueues(a, entries)
            booted == [fresh EXCEPT
                         !.secure_verified = TRUE, !.boot_failed = FALSE,
                         !.firmware_version = image.security_version,
                         !.otp_minimum_version = Larger(@, image.security_version),
                         !.debug_locked = @ \/ lock_debug,
                         !.enabled = TRUE, !.status = "RUNNING"]
            e == BootDevice(d, image, entries, lock_debug)
<1>1. e = IF ~ RomVerify(d, image) THEN refused
          ELSE IF ~ QueueSizeValid(entries) THEN failed ELSE booted
  BY Zenon DEF BootDevice, BootFailed
<1>2. Shape(a) /\ SameBooks(d, a) BY CountBooks
<1>. HIDE DEF a
<1>3. Shape(n) /\ SameBooks(a, n) BY <1>2, CountBooks
<1>4. SameBooks(d, n) BY <1>2, <1>3 DEF SameBooks
<1>. HIDE DEF n
<1>5. Shape(failed) /\ SameBooks(d, failed) /\ Shape(refused) /\ SameBooks(d, refused)
  <2>1. DOMAIN n = Fields BY <1>3 DEF Shape
  <2>2. \A z \in {failed, refused} :
          /\ DOMAIN z = Fields /\ z.command_ring = n.command_ring
          /\ z.completion_ring = n.completion_ring /\ z.fault_ring = n.fault_ring
          /\ z.pending = n.pending /\ z.kv_pages = n.kv_pages
          /\ z.counters = n.counters /\ z.dropped = n.dropped
    BY <2>1 DEF Fields
  <2>. HIDE DEF failed, refused
  <2>3. \A z \in {failed, refused} : Shape(z) /\ SameBooks(d, z)
    BY <1>3, <1>4, <2>2 DEF Shape, SameBooks
  <2>. QED BY <2>3
<1>6. /\ Shape(booted) /\ booted.pending = d.pending /\ booted.dropped = d.dropped
      /\ booted.counters = a.counters
      /\ booted.command_ring = <<>> /\ booted.completion_ring = <<>>
      /\ booted.fault_ring = <<>>
  <2>1. DOMAIN a = Fields BY <1>2 DEF Shape
  <2>2. /\ DOMAIN fresh = Fields /\ fresh.command_ring = <<>>
        /\ fresh.completion_ring = <<>> /\ fresh.fault_ring = <<>>
        /\ fresh.pending = a.pending /\ fresh.kv_pages = a.kv_pages
        /\ fresh.counters = a.counters /\ fresh.dropped = a.dropped
    BY <2>1 DEF InitializeQueues, Fields
  <2>. HIDE DEF fresh
  <2>3. /\ DOMAIN booted = Fields /\ booted.command_ring = <<>>
        /\ booted.completion_ring = <<>> /\ booted.fault_ring = <<>>
        /\ booted.pending = a.pending /\ booted.kv_pages = a.kv_pages
        /\ booted.counters = a.counters /\ booted.dropped = a.dropped
    BY <2>2 DEF Fields
  <2>. HIDE DEF booted
  <2>4. Shape(booted) BY <1>2, <2>3, EmptyRing DEF Shape
  <2>. QED BY <1>2, <2>3, <2>4 DEF SameBooks
<1>. HIDE DEF booted, failed, refused
<1>7. CASE RomVerify(d, image) /\ QueueSizeValid(entries)
  <2>1. e = booted BY <1>1, <1>7
  <2>. HIDE DEF e
  <2>2. \A k \in {"ACCEPTED", "COMPLETED", "KV_FAULTS", "KV_RECOVERED", "FAULT_OVERFLOWS"} :
          e.counters[k] = d.counters[k]
    BY <1>2, <1>6, <2>1 DEF SameBooks
  <2>3. /\ Shape(e) /\ e.dropped = d.dropped /\ e.pending = d.pending
        /\ e.command_ring = <<>> /\ e.completion_ring = <<>> /\ e.fault_ring = <<>>
    BY <1>6, <2>1
  <2>. QED BY <1>7, <2>2, <2>3 DEF e
<1>8. CASE ~ (RomVerify(d, image) /\ QueueSizeValid(entries))
  <2>1. e = refused \/ e = failed BY <1>1, <1>8
  <2>. HIDE DEF e
  <2>2. Shape(e) /\ SameBooks(d, e) BY <1>5, <2>1
  <2>3. /\ e.dropped = d.dropped /\ e.pending = d.pending
        /\ \A k \in {"ACCEPTED", "COMPLETED", "KV_FAULTS", "KV_RECOVERED",
                     "FAULT_OVERFLOWS"} : e.counters[k] = d.counters[k]
    BY <2>2 DEF SameBooks
  <2>. QED BY <1>8, <2>2, <2>3 DEF e
<1>. QED BY <1>7, <1>8

\* A reset empties the rings and forgets the parked commands.
LEMMA ResetBooks ==
  ASSUME NEW d, Shape(d), NEW e \in {PowerOn(d), Warm(d)}
  PROVE  /\ Shape(e) /\ e.command_ring = <<>> /\ e.completion_ring = <<>>
         /\ e.fault_ring = <<>> /\ e.pending = {} /\ e.dropped = d.dropped
         /\ e.counters = d.counters
<1>. DEFINE q == NoQueues(d)
<1>1. /\ DOMAIN q = Fields /\ q.command_ring = <<>> /\ q.completion_ring = <<>>
      /\ q.fault_ring = <<>> /\ q.pending = {} /\ q.dropped = d.dropped
      /\ q.counters = d.counters /\ q.kv_pages = d.kv_pages
  BY DEF NoQueues, InitializeQueues, Shape, Fields
<1>. HIDE DEF q
<1>2. /\ DOMAIN e = Fields /\ e.command_ring = <<>> /\ e.completion_ring = <<>>
      /\ e.fault_ring = <<>> /\ e.pending = {} /\ e.dropped = d.dropped
      /\ e.counters = d.counters /\ e.kv_pages \in {d.kv_pages, [p \in Pages |-> 0]}
  <2>1. CASE e = PowerOn(d)
    <3>1. e = [q EXCEPT
             !.status = "BOOT_ROM", !.secure_verified = FALSE, !.boot_failed = FALSE,
             !.debug_locked = FALSE, !.firmware_version = 0,
             !.kv_pages = [p \in Pages |-> 0]]
      BY <2>1 DEF PowerOn, q
    <3>. QED BY <1>1, <3>1 DEF Fields
  <2>2. CASE e = Warm(d)
    <3>1. e = [q EXCEPT !.status = IF d.secure_verified THEN "FIRMWARE_READY" ELSE "BOOT_ROM"]
      BY <2>2 DEF Warm, q
    <3>. QED BY <1>1, <3>1 DEF Fields
  <2>. QED BY <2>1, <2>2
<1>3. Shape(e) BY <1>2, EmptyRing DEF Shape
<1>. QED BY <1>2, <1>3

LEMMA AccountInit == Init => AccountInv
<1>. SUFFICES ASSUME Init PROVE AccountInv OBVIOUS
<1>1. Shape(device)
  <2>1. device.kv_pages \in [Pages -> Nat] /\ device.counters \in [Counter -> Nat]
    BY DEF Init
  <2>2. DOMAIN device = Fields BY DEF Init, Fields
  <2>3. /\ device.command_ring = <<>> /\ device.completion_ring = <<>>
        /\ device.fault_ring = <<>> /\ device.pending = {}
    BY DEF Init
  <2>. QED BY <2>1, <2>2, <2>3, EmptyRing DEF Shape
<1>2. SentIds = {} /\ Ids(completions) = {} /\ Ids(device.pending) = {}
  BY DEF Init, SentIds, Ids
<1>3. Cardinality({}) = 0 /\ IsFiniteSet({}) BY FS_EmptySet
<1>. DEFINE w == Where(device, completions, taken, lost)
<1>4. \A p \in Place : w[p] = {}
  BY <1>2, EmptyRing DEF Init, Where, Place
<1>. HIDE DEF w
<1>5. Partition(w, SentIds) BY <1>2, <1>4 DEF Partition
<1>6. Settled(device, completions, lost)
  BY <1>2, EmptyRing DEF Init, Settled, Keyed
<1>7. Balance(device, completions, taken, lost, SentIds)
  <2>1. \A k \in Counter : device.counters[k] = 0 BY DEF Init
  <2>2. /\ SentIds \ (IdsIn(device.command_ring) \cup lost.command) = {}
        /\ IdsIn(device.completion_ring) \cup Ids(completions) \cup taken \cup lost.completion
             = {}
        /\ Ids(device.pending) \cup lost.parked = {}
    BY <1>2, EmptyRing DEF Init
  <2>3. {"ACCEPTED", "COMPLETED", "KV_FAULTS", "KV_RECOVERED", "FAULT_OVERFLOWS"}
          \subseteq Counter
    BY DEF Counter
  <2>. QED BY <1>3, <2>1, <2>2, <2>3 DEF Balance
<1>8. Accounts(device, completions, taken, lost, SentIds)
  BY <1>1, <1>2, <1>3, <1>5, <1>6, <1>7 DEF Accounts, w
<1>. QED BY <1>2, <1>8 DEF AccountInv, Init, FIRST_PAGE

LEMMA SubmitAccounts == ASSUME AccountInv, Submit PROVE AccountInv'
<1>1. PICK r \in Requests[next_request_id] :
        next_request_id <= MaxRequests /\ SubmitRequest(r)
  BY DEF Submit
<1>. DEFINE accepted == device.enabled /\ ~ RingFull(device, device.command_ring)
            command == [request_id |-> next_request_id, opcode |-> r.opcode, flags |-> r.flags,
                        graph |-> r.graph, priority |-> r.priority, argument |-> r.argument,
                        retry_count |-> 0]
<1>2. /\ next_request_id' = next_request_id + 1
      /\ device' = IF accepted
                   THEN [device EXCEPT !.command_ring = Append(@, command)]
                   ELSE IF device.enabled THEN Count(device, "QUEUE_ERRORS") ELSE device
      /\ sent' = IF accepted THEN sent \cup {command} ELSE sent
      /\ UNCHANGED <<completions, next_physical_page, taken, lost>>
  BY <1>1 DEF SubmitRequest
<1>3. /\ Accounts(device, completions, taken, lost, SentIds) /\ sent \subseteq Command
      /\ next_request_id \in Nat \ {0} /\ next_physical_page \in Nat \ {0}
      /\ \A id \in SentIds : id < next_request_id
      /\ DOMAIN lost = {"command", "parked", "completion"}
  BY DEF AccountInv
<1>4. command \in Command
  <2>1. next_request_id \in 1 .. MaxRequests BY <1>1, <1>3, HostAssumption
  <2>2. RequestOK(r) BY <1>1, <2>1, HostAssumption
  <2>. QED BY <1>3, <2>2 DEF RequestOK, Command
<1>5. SentIds \subseteq Nat BY <1>3 DEF SentIds, Ids, Command
<1>6. CASE accepted
  <2>1. sent' = sent \cup {command} /\ command.request_id = next_request_id BY <1>2, <1>6
  <2>2. SentIds' = SentIds \cup {next_request_id} BY <2>1 DEF SentIds, Ids
  <2>3. next_request_id \notin SentIds BY <1>3
  <2>4. device' = [device EXCEPT !.command_ring = Append(@, command)] BY <1>2, <1>6
  <2>. DEFINE x == command
              e == device'
              id == next_request_id
              S == SentIds
  <2>5. /\ Accounts(device, completions, taken, lost, S) /\ x \in Command
        /\ id = x.request_id /\ id \notin S
        /\ e = [device EXCEPT !.command_ring = Append(@, x)]
    BY <1>3, <1>4, <2>1, <2>3, <2>4
  <2>. HIDE DEF x, e, id, S
  <2>6. Accounts(e, completions, taken, lost, S \cup {id}) BY <2>5, Submitted
  <2>7. Accounts(device, completions, taken, lost, SentIds)'
    BY <1>2, <2>2, <2>6 DEF e, id, S
  <2>8. \A i \in SentIds' : i < next_request_id' BY <1>2, <1>3, <1>5, <2>2
  <2>9. sent' \subseteq Command BY <1>3, <1>4, <2>1
  <2>. QED BY <1>2, <1>3, <2>7, <2>8, <2>9 DEF AccountInv
<1>7. CASE ~ accepted
  <2>1. sent' = sent /\ SentIds' = SentIds BY <1>2, <1>7 DEF SentIds
  <2>2. device' = device \/ device' = Count(device, "QUEUE_ERRORS") BY <1>2, <1>7
  <2>3. Shape(device) BY <1>3 DEF Accounts
  <2>. DEFINE e == Count(device, "QUEUE_ERRORS")
  <2>4. Shape(e) /\ SameBooks(device, e) BY <2>3, CountBooks
  <2>. HIDE DEF e
  <2>5. Accounts(e, completions, taken, lost, SentIds) BY <1>3, <2>4, OnlyCounted
  <2>6. Accounts(device', completions, taken, lost, SentIds) BY <1>3, <2>2, <2>5 DEF e
  <2>7. Accounts(device, completions, taken, lost, SentIds)' BY <1>2, <2>1, <2>6
  <2>8. \A i \in SentIds' : i < next_request_id' BY <1>2, <1>3, <1>5, <2>1
  <2>. QED BY <1>2, <1>3, <2>1, <2>7, <2>8 DEF AccountInv
<1>. QED BY <1>6, <1>7

\* What the steps that submit nothing have to show.
LEMMA AccountsSuffice ==
  ASSUME AccountInv, UNCHANGED <<sent, next_request_id>>,
         next_physical_page' \in Nat \ {0}, DOMAIN lost' = {"command", "parked", "completion"},
         Accounts(device', completions', taken', lost', SentIds)
  PROVE  AccountInv'
<1>1. SentIds' = SentIds BY DEF SentIds
<1>. QED BY <1>1 DEF AccountInv

LEMMA PollAccounts ==
  ASSUME AccountInv,
         \/ ProcessOne \/ ServiceOne \/ Drain
         \/ \E service \in BOOLEAN : Poll(service)
         \/ \E c \in completions : TakeCompletion(c)
  PROVE  AccountInv'
<1>0. /\ Accounts(device, completions, taken, lost, SentIds)
      /\ next_physical_page \in Nat \ {0}
      /\ DOMAIN lost = {"command", "parked", "completion"}
  BY DEF AccountInv
<1>1. CASE ProcessOne
  <2>1. CASE device.command_ring = <<>>
    BY <1>0, <1>1, <2>1, AccountsSuffice DEF ProcessOne
  <2>2. CASE device.command_ring # <<>>
    <3>1. device' = Execute(Count([device EXCEPT !.command_ring = Tail(@)], "ACCEPTED"),
                            Head(device.command_ring))
      BY <1>1, <2>2 DEF ProcessOne
    <3>2. Accounts(device', completions, taken, lost, SentIds)
      BY <1>0, <2>2, <3>1, ProcessBooks
    <3>. QED BY <1>0, <1>1, <3>2, AccountsSuffice DEF ProcessOne
  <2>. QED BY <2>1, <2>2
<1>2. CASE ServiceOne
  <2>1. CASE device.fault_ring = <<>> \/ budget = 0
    BY <1>0, <1>2, <2>1, AccountsSuffice DEF ServiceOne
  <2>2. CASE ~ (device.fault_ring = <<>> \/ budget = 0)
    <3>. DEFINE fault == Head(device.fault_ring)
                popped == [device EXCEPT !.fault_ring = Tail(@)]
    <3>1. /\ fault.retry_count = 0 /\ fault.address \in Pages
          /\ Accounts(ServeFault(popped, fault), completions, taken, lost, SentIds)
      BY <1>0, <2>2, ServeBooks
    <3>2. IF fault.retry_count >= 3
          THEN device' = popped /\ UNCHANGED next_physical_page
          ELSE /\ device' = ServeFault(popped, fault)
               /\ next_physical_page' = NextPhysicalPage(fault.address)
      BY <1>2, <2>2 DEF ServiceOne
    <3>. HIDE DEF fault, popped
    <3>3. /\ device' = ServeFault(popped, fault)
          /\ next_physical_page' = NextPhysicalPage(fault.address)
      BY <3>1, <3>2
    <3>4. next_physical_page' \in Nat \ {0} BY <1>0, <3>3 DEF NextPhysicalPage
    <3>5. UNCHANGED <<sent, next_request_id, completions, taken, lost>>
      BY <1>2 DEF ServiceOne
    <3>. QED BY <1>0, <3>1, <3>3, <3>4, <3>5, AccountsSuffice
  <2>. QED BY <2>1, <2>2
<1>3. CASE Drain
  <2>. DEFINE e == device'
              cz == completions'
  <2>1. Ids(Elements(device.completion_ring)) = IdsIn(device.completion_ring)
    BY IdsOfElements
  <2>2. /\ cz = {c \in completions : c.request_id \notin IdsIn(device.completion_ring)}
                  \cup Elements(device.completion_ring)
        /\ e = [device EXCEPT !.completion_ring = <<>>]
    BY <1>3, <2>1 DEF Drain
  <2>. HIDE DEF e, cz
  <2>3. Accounts(e, cz, taken, lost, SentIds) BY <1>0, <2>2, Drained
  <2>. QED BY <1>0, <1>3, <2>3, AccountsSuffice DEF Drain, e, cz
<1>4. CASE \E service \in BOOLEAN : Poll(service)
  BY <1>0, <1>4, AccountsSuffice DEF Poll
<1>5. CASE \E c \in completions : TakeCompletion(c)
  <2>1. PICK c \in completions : TakeCompletion(c) BY <1>5
  <2>2. Accounts(device, completions \ {c}, taken \cup {c.request_id}, lost, SentIds)
    BY <1>0, Taken
  <2>. QED BY <1>0, <2>1, <2>2, AccountsSuffice DEF TakeCompletion
<1>. QED BY <1>1, <1>2, <1>3, <1>4, <1>5

LEMMA BootAccounts ==
  ASSUME AccountInv,
         \/ \E image \in Images, lock_debug \in LockDebug : Boot(image, lock_debug)
         \/ PowerOnReset \/ WarmReset
  PROVE  AccountInv'
<1>0. /\ Accounts(device, completions, taken, lost, SentIds) /\ Shape(device)
      /\ next_physical_page \in Nat \ {0}
      /\ DOMAIN lost = {"command", "parked", "completion"}
  BY DEF AccountInv, Accounts
<1>1. /\ ThrownAway = [lost EXCEPT !.command = @ \cup IdsIn(device.command_ring),
                                   !.completion = @ \cup IdsIn(device.completion_ring),
                                   !.parked = @ \cup Ids(device.pending)]
      /\ DOMAIN ThrownAway = {"command", "parked", "completion"}
  <2>1. /\ Ids(Elements(device.command_ring)) = IdsIn(device.command_ring)
        /\ Ids(Elements(device.completion_ring)) = IdsIn(device.completion_ring)
    BY IdsOfElements
  <2>. QED BY <1>0, <2>1 DEF ThrownAway
<1>2. CASE \E image \in Images, lock_debug \in LockDebug : Boot(image, lock_debug)
  <2>1. PICK image \in Images, lock_debug \in LockDebug : Boot(image, lock_debug) BY <1>2
  <2>. DEFINE e == BootDevice(device, image, queue_entries, lock_debug)
              good == RomVerify(device, image) /\ QueueSizeValid(queue_entries)
  <2>2. /\ Shape(e) /\ e.dropped = device.dropped /\ e.pending = device.pending
        /\ \A k \in {"ACCEPTED", "COMPLETED", "KV_FAULTS", "KV_RECOVERED",
                     "FAULT_OVERFLOWS"} : e.counters[k] = device.counters[k]
        /\ IF good
           THEN /\ e.command_ring = <<>> /\ e.completion_ring = <<>> /\ e.fault_ring = <<>>
           ELSE SameBooks(device, e)
    BY <1>0, BootBooks
  <2>3. /\ device' = e /\ lost' = IF good THEN ThrownAway ELSE lost
        /\ UNCHANGED <<sent, next_request_id, completions, taken, next_physical_page>>
    BY <2>1 DEF Boot, Booted
  <2>. HIDE DEF e, good
  <2>4. CASE good
    <3>. DEFINE lz == ThrownAway
    <3>1. lz = [lost EXCEPT !.command = @ \cup IdsIn(device.command_ring),
                            !.completion = @ \cup IdsIn(device.completion_ring),
                            !.parked = @ \cup Ids(device.pending)]
      BY <1>1
    <3>. HIDE DEF lz
    <3>2. Accounts(e, completions, taken, lz, SentIds)
      BY <1>0, <2>2, <2>4, <3>1, RingsLost
    <3>. QED BY <1>0, <1>1, <2>3, <2>4, <3>2, AccountsSuffice DEF lz
  <2>5. CASE ~ good
    <3>1. Accounts(e, completions, taken, lost, SentIds) BY <1>0, <2>2, <2>5, OnlyCounted
    <3>. QED BY <1>0, <2>3, <2>5, <3>1, AccountsSuffice
  <2>. QED BY <2>4, <2>5
<1>3. CASE PowerOnReset \/ WarmReset
  <2>. DEFINE e == device'
              lz == ThrownAway
  <2>1. e \in {PowerOn(device), Warm(device)} BY <1>3 DEF PowerOnReset, WarmReset, Reset
  <2>2. /\ lost' = lz
        /\ UNCHANGED <<sent, next_request_id, completions, taken, next_physical_page>>
    BY <1>3 DEF PowerOnReset, WarmReset, Reset
  <2>3. lz = [lost EXCEPT !.command = @ \cup IdsIn(device.command_ring),
                          !.completion = @ \cup IdsIn(device.completion_ring),
                          !.parked = @ \cup Ids(device.pending)]
    BY <1>1
  <2>. HIDE DEF e, lz
  <2>4. /\ Shape(e) /\ e.command_ring = <<>> /\ e.completion_ring = <<>>
        /\ e.fault_ring = <<>> /\ e.pending = {} /\ e.dropped = device.dropped
        /\ e.counters = device.counters
    BY <1>0, <2>1, ResetBooks
  <2>5. /\ e.pending \subseteq device.pending
        /\ \A k \in {"ACCEPTED", "COMPLETED", "KV_FAULTS", "KV_RECOVERED",
                     "FAULT_OVERFLOWS"} : e.counters[k] = device.counters[k]
    BY <2>4
  <2>6. Accounts(e, completions, taken, lz, SentIds)
    BY <1>0, <2>3, <2>4, <2>5, RingsLost
  <2>. QED BY <1>0, <1>1, <2>2, <2>6, AccountsSuffice DEF e, lz
<1>. QED BY <1>2, <1>3

LEMMA AccountStep == AccountInv /\ [Next]_vars => AccountInv'
<1>. SUFFICES ASSUME AccountInv, [Next]_vars PROVE AccountInv' OBVIOUS
<1>1. CASE UNCHANGED vars
  <2>1. AccountInv => Accounts(device, completions, taken, lost, SentIds) BY DEF AccountInv
  <2>. QED BY <1>1, <2>1, AccountsSuffice DEF vars, AccountInv
<1>. QED BY <1>1, SubmitAccounts, PollAccounts, BootAccounts DEF Next

LEMMA DisjointSum ==
  \A X, Y : IsFiniteSet(X) /\ IsFiniteSet(Y) /\ X \cap Y = {} =>
    /\ IsFiniteSet(X \cup Y) /\ Cardinality(X) \in Nat /\ Cardinality(Y) \in Nat
    /\ Cardinality(X \cup Y) = Cardinality(X) + Cardinality(Y)
<1>1. \A X, Y : IsFiniteSet(X) /\ IsFiniteSet(Y) =>
        /\ IsFiniteSet(X \cup Y)
        /\ Cardinality(X \cup Y) = Cardinality(X) + Cardinality(Y) - Cardinality(X \cap Y)
  BY FS_Union
<1>2. \A X : IsFiniteSet(X) => Cardinality(X) \in Nat BY FS_CardinalityType
<1>3. Cardinality({}) = 0 BY FS_EmptySet
<1>4. \A m, n \in Nat : m + n - 0 = m + n OBVIOUS
<1>. SUFFICES ASSUME NEW X, NEW Y, IsFiniteSet(X), IsFiniteSet(Y), X \cap Y = {}
              PROVE  /\ IsFiniteSet(X \cup Y)
                     /\ Cardinality(X) \in Nat /\ Cardinality(Y) \in Nat
                     /\ Cardinality(X \cup Y) = Cardinality(X) + Cardinality(Y)
  OBVIOUS
<1>5. Cardinality(X) \in Nat /\ Cardinality(Y) \in Nat BY <1>2
<1>6. /\ IsFiniteSet(X \cup Y)
      /\ Cardinality(X \cup Y) = Cardinality(X) + Cardinality(Y) - Cardinality(X \cap Y)
  BY <1>1
<1>7. Cardinality(X \cap Y) = 0 BY <1>3
<1>. QED BY <1>4, <1>5, <1>6, <1>7

\* As many completions as requests they answer.
LEMMA KeyedCount ==
  ASSUME NEW S, Keyed(S), IsFiniteSet(Ids(S))
  PROVE  Cardinality(S) = Cardinality(Ids(S))
<1>. DEFINE id == [x \in S |-> x.request_id]
<1>1. id \in Bijection(S, Ids(S))
  <2>1. id \in [S -> Ids(S)] BY DEF Ids
  <2>2. \A x, y \in S : id[x] = id[y] => x = y BY DEF Keyed
  <2>3. \A i \in Ids(S) : \E x \in S : id[x] = i BY DEF Ids
  <2>. HIDE DEF id
  <2>. QED BY <2>1, <2>2, <2>3 DEF Bijection, Injection, Surjection, IsInjective
<1>2. ExistsBijection(S, Ids(S)) BY <1>1 DEF ExistsBijection
<1>3. ExistsBijection(Ids(S), S) BY <1>2, Fun_ExistsBijSymmetric
<1>. QED BY <1>3, FS_Bijection

\* The sizes of the places add up.
LEMMA PlacesAddUp ==
  ASSUME NEW w, NEW S, Partition(w, S), IsFiniteSet(S)
  PROVE  /\ \A p \in Place : IsFiniteSet(w[p]) /\ Cardinality(w[p]) \in Nat
         /\ Cardinality(w["command"]) + Cardinality(w["parked"]) + Cardinality(w["answered"])
              + Cardinality(w["driver"]) + Cardinality(w["host"]) + Cardinality(w["dropped"])
              + Cardinality(w["lost_command"]) + Cardinality(w["lost_parked"])
              + Cardinality(w["lost_completion"]) = Cardinality(S)
<1>0. \A p, q \in Place : p # q => w[p] \cap w[q] = {} BY DEF Partition
<1>1. \A p \in Place : w[p] \subseteq S BY DEF Partition
<1>2. \A p \in Place : IsFiniteSet(w[p]) BY <1>1, SubsetFinite
<1>3. \A p \in Place : Cardinality(w[p]) \in Nat BY <1>2, FS_CardinalityType
<1>. DEFINE A == w["command"]
            B == w["parked"]
            C == w["answered"]
            D == w["driver"]
            E == w["host"]
            F == w["dropped"]
            G == w["lost_command"]
            H == w["lost_parked"]
            J == w["lost_completion"]
<1>4. /\ A \cap B = {} /\ (A \cup B) \cap C = {} /\ (A \cup B \cup C) \cap D = {}
      /\ (A \cup B \cup C \cup D) \cap E = {} /\ (A \cup B \cup C \cup D \cup E) \cap F = {}
      /\ (A \cup B \cup C \cup D \cup E \cup F) \cap G = {}
      /\ (A \cup B \cup C \cup D \cup E \cup F \cup G) \cap H = {}
      /\ (A \cup B \cup C \cup D \cup E \cup F \cup G \cup H) \cap J = {}
  BY <1>0 DEF Place
<1>5. A \cup B \cup C \cup D \cup E \cup F \cup G \cup H \cup J = S
  <2>1. \A x : (\E p \in Place : x \in w[p]) <=> x \in S BY DEF Partition
  <2>. QED BY <2>1 DEF Place
<1>6. /\ IsFiniteSet(A) /\ IsFiniteSet(B) /\ IsFiniteSet(C) /\ IsFiniteSet(D)
      /\ IsFiniteSet(E) /\ IsFiniteSet(F) /\ IsFiniteSet(G) /\ IsFiniteSet(H)
      /\ IsFiniteSet(J)
  BY <1>2 DEF Place
<1>. HIDE DEF A, B, C, D, E, F, G, H, J
<1>7. /\ IsFiniteSet(A \cup B)
      /\ Cardinality(A \cup B) = Cardinality(A) + Cardinality(B)
  BY <1>4, <1>6, DisjointSum
<1>8. /\ IsFiniteSet(A \cup B \cup C)
      /\ Cardinality(A \cup B \cup C) = Cardinality(A) + Cardinality(B) + Cardinality(C)
  BY <1>4, <1>6, <1>7, DisjointSum
<1>9. /\ IsFiniteSet(A \cup B \cup C \cup D)
      /\ Cardinality(A \cup B \cup C \cup D)
           = Cardinality(A) + Cardinality(B) + Cardinality(C) + Cardinality(D)
  BY <1>4, <1>6, <1>8, DisjointSum
<1>10. /\ IsFiniteSet(A \cup B \cup C \cup D \cup E)
       /\ Cardinality(A \cup B \cup C \cup D \cup E)
            = Cardinality(A) + Cardinality(B) + Cardinality(C) + Cardinality(D)
                + Cardinality(E)
  BY <1>4, <1>6, <1>9, DisjointSum
<1>11. /\ IsFiniteSet(A \cup B \cup C \cup D \cup E \cup F)
       /\ Cardinality(A \cup B \cup C \cup D \cup E \cup F)
            = Cardinality(A) + Cardinality(B) + Cardinality(C) + Cardinality(D)
                + Cardinality(E) + Cardinality(F)
  BY <1>4, <1>6, <1>10, DisjointSum
<1>12. /\ IsFiniteSet(A \cup B \cup C \cup D \cup E \cup F \cup G)
       /\ Cardinality(A \cup B \cup C \cup D \cup E \cup F \cup G)
            = Cardinality(A) + Cardinality(B) + Cardinality(C) + Cardinality(D)
                + Cardinality(E) + Cardinality(F) + Cardinality(G)
  BY <1>4, <1>6, <1>11, DisjointSum
<1>13. /\ IsFiniteSet(A \cup B \cup C \cup D \cup E \cup F \cup G \cup H)
       /\ Cardinality(A \cup B \cup C \cup D \cup E \cup F \cup G \cup H)
            = Cardinality(A) + Cardinality(B) + Cardinality(C) + Cardinality(D)
                + Cardinality(E) + Cardinality(F) + Cardinality(G) + Cardinality(H)
  BY <1>4, <1>6, <1>12, DisjointSum
<1>14. Cardinality(S)
         = Cardinality(A) + Cardinality(B) + Cardinality(C) + Cardinality(D)
             + Cardinality(E) + Cardinality(F) + Cardinality(G) + Cardinality(H)
             + Cardinality(J)
  BY <1>4, <1>5, <1>6, <1>13, DisjointSum
<1>. QED BY <1>2, <1>3, <1>14 DEF A, B, C, D, E, F, G, H, J

\* Serving a fault always finds its command, which has a retry left: the parked
\* commands are those of the faults in the ring, each once, whatever the host
\* asks for, the firmware maps and the resets throw away.
THEOREM FaultsParked == Spec => []FaultsAreParked
<1>1. AccountInv => FaultsAreParked
  <2>. SUFFICES ASSUME AccountInv PROVE FaultsAreParked OBVIOUS
  <2>. DEFINE ring == device.fault_ring
  <2>1. Shape(device) /\ Settled(device, completions, lost) BY DEF AccountInv, Accounts
  <2>2. IdsIn(ring) = Parked BY <2>1 DEF Settled, Parked
  <2>3. IsRing(ring) /\ Distinct(ring) BY <2>1 DEF Shape, Settled
  <2>4. \A fault \in Elements(ring) : \E c \in device.pending : fault = Fault(c)
    BY <2>1 DEF Settled
  <2>5. \A c \in device.pending : c.retry_count < 3 BY <2>1 DEF Shape, Command
  <2>. HIDE DEF ring
  <2>6. Cardinality(IdsIn(ring)) = Len(ring) BY <2>3, RingCount
  <2>7. Ids(Elements(ring)) = IdsIn(ring) BY IdsOfElements
  <2>. QED BY <2>2, <2>4, <2>5, <2>6, <2>7 DEF FaultsAreParked, ring
<1>. QED BY <1>1, AccountInit, AccountStep, PTL DEF Spec

\* Every request a ring accepted is in exactly one place, and the performance
\* counters say so, whatever the queue sizes, the requests and the order of
\* submissions, misses, replays, overflows, resets and boots.
THEOREM RequestsPlaced == Spec => []EachRequestInOnePlace
<1>1. AccountInv => EachRequestInOnePlace
  <2>. SUFFICES ASSUME AccountInv PROVE EachRequestInOnePlace OBVIOUS
  <2>. DEFINE w == Where(device, completions, taken, lost)
              commands == device.command_ring
              answers == device.completion_ring
  <2>1. /\ Shape(device) /\ IsFiniteSet(SentIds) /\ Partition(w, SentIds)
        /\ Settled(device, completions, lost)
        /\ Balance(device, completions, taken, lost, SentIds)
    BY DEF AccountInv, Accounts
  <2>2. /\ w["command"] = IdsIn(commands) /\ w["parked"] = Parked
        /\ w["answered"] = IdsIn(answers) /\ w["driver"] = Ids(completions)
        /\ w["host"] = taken /\ w["dropped"] = device.dropped
        /\ w["lost_command"] = lost.command /\ w["lost_parked"] = lost.parked
        /\ w["lost_completion"] = lost.completion
    BY DEF Where, Parked
  <2>3. /\ Ids(Elements(commands)) = IdsIn(commands)
        /\ Ids(Elements(answers)) = IdsIn(answers)
    BY IdsOfElements
  <2>4. /\ IsRing(commands) /\ Distinct(commands) /\ IsRing(answers) /\ Distinct(answers)
        /\ Keyed(completions)
    BY <2>1 DEF Shape, Settled
  <2>5. \A p \in Place : IsFiniteSet(w[p]) /\ Cardinality(w[p]) \in Nat
    BY <2>1, PlacesAddUp
  <2>6. Cardinality(w["command"]) + Cardinality(w["parked"]) + Cardinality(w["answered"])
          + Cardinality(w["driver"]) + Cardinality(w["host"]) + Cardinality(w["dropped"])
          + Cardinality(w["lost_command"]) + Cardinality(w["lost_parked"])
          + Cardinality(w["lost_completion"]) = Cardinality(SentIds)
    BY <2>1, PlacesAddUp
  <2>7. \A p, q \in Place : /\ w[p] \subseteq SentIds
                            /\ p # q => w[p] \cap w[q] = {}
    BY <2>1 DEF Partition
  <2>8. UNION {w[p] : p \in Place} = SentIds BY <2>1 DEF Partition
  <2>. HIDE DEF w, commands, answers
  <2>9. /\ Len(commands) = Cardinality(w["command"])
        /\ Len(answers) = Cardinality(w["answered"])
    BY <2>2, <2>4, RingCount
  <2>10. Cardinality(completions) = Cardinality(w["driver"])
    <3>1. IsFiniteSet(Ids(completions)) BY <2>2, <2>5 DEF Place
    <3>. QED BY <2>2, <2>4, <3>1, KeyedCount
  <2>11. UNION {Ids(Elements(commands)), Parked, Ids(Elements(answers)), Ids(completions),
                taken, LostIds} = SentIds
    <3>1. UNION {w[p] : p \in Place}
            = w["command"] \cup w["parked"] \cup w["answered"] \cup w["driver"]
                \cup w["host"] \cup w["dropped"] \cup w["lost_command"]
                \cup w["lost_parked"] \cup w["lost_completion"]
      BY DEF Place
    <3>. QED BY <2>2, <2>3, <2>8, <3>1 DEF LostIds
  <2>12. device.counters["ACCEPTED"] + Len(commands) + Cardinality(lost.command)
           = Cardinality(SentIds)
    <3>. DEFINE A == SentIds \ (w["command"] \cup w["lost_command"])
                B == w["command"]
                C == w["lost_command"]
    <3>1. device.counters["ACCEPTED"] = Cardinality(A)
      BY <2>1, <2>2 DEF Balance, commands
    <3>2. IsFiniteSet(A) /\ IsFiniteSet(B) /\ IsFiniteSet(C)
      BY <2>1, <2>5, SubsetFinite DEF Place
    <3>3. A \cap B = {} /\ (A \cup B) \cap C = {} /\ A \cup B \cup C = SentIds
      BY <2>7 DEF Place
    <3>. HIDE DEF A, B, C
    <3>4. IsFiniteSet(A \cup B) /\ Cardinality(A \cup B) = Cardinality(A) + Cardinality(B)
      BY <3>2, <3>3, DisjointSum
    <3>5. Cardinality(SentIds) = Cardinality(A) + Cardinality(B) + Cardinality(C)
      BY <3>2, <3>3, <3>4, DisjointSum
    <3>. QED BY <2>2, <2>9, <3>1, <3>5 DEF B, C
  <2>13. device.counters["COMPLETED"] = Len(answers) + Cardinality(completions)
           + Cardinality(taken) + Cardinality(lost.completion)
    <3>. DEFINE A == w["answered"]
                B == w["driver"]
                C == w["host"]
                D == w["lost_completion"]
    <3>1. device.counters["COMPLETED"] = Cardinality(A \cup B \cup C \cup D)
      BY <2>1, <2>2 DEF Balance, answers
    <3>2. IsFiniteSet(A) /\ IsFiniteSet(B) /\ IsFiniteSet(C) /\ IsFiniteSet(D)
      BY <2>5 DEF Place
    <3>3. A \cap B = {} /\ (A \cup B) \cap C = {} /\ (A \cup B \cup C) \cap D = {}
      BY <2>7 DEF Place
    <3>. HIDE DEF A, B, C, D
    <3>4. IsFiniteSet(A \cup B) /\ Cardinality(A \cup B) = Cardinality(A) + Cardinality(B)
      BY <3>2, <3>3, DisjointSum
    <3>5. /\ IsFiniteSet(A \cup B \cup C)
          /\ Cardinality(A \cup B \cup C) = Cardinality(A) + Cardinality(B) + Cardinality(C)
      BY <3>2, <3>3, <3>4, DisjointSum
    <3>6. Cardinality(A \cup B \cup C \cup D)
            = Cardinality(A) + Cardinality(B) + Cardinality(C) + Cardinality(D)
      BY <3>2, <3>3, <3>5, DisjointSum
    <3>. QED BY <2>2, <2>9, <2>10, <3>1, <3>6 DEF A, B, C, D
  <2>14. device.counters["KV_FAULTS"]
           = device.counters["KV_RECOVERED"] + device.counters["FAULT_OVERFLOWS"]
               + Cardinality(Parked) + Cardinality(lost.parked)
    <3>. DEFINE A == w["parked"]
                B == w["lost_parked"]
                r == device.counters["KV_RECOVERED"]
                o == device.counters["FAULT_OVERFLOWS"]
    <3>1. A \cup B = Ids(device.pending) \cup lost.parked
      BY <2>2 DEF Parked
    <3>2. device.counters["KV_FAULTS"] = r + o + Cardinality(A \cup B)
      BY <2>1, <3>1 DEF Balance
    <3>3. IsFiniteSet(A) /\ IsFiniteSet(B) /\ A \cap B = {} BY <2>5, <2>7 DEF Place
    <3>4. r \in Nat /\ o \in Nat BY <2>1 DEF Shape, Counter
    <3>. HIDE DEF A, B, r, o
    <3>5. /\ Cardinality(A \cup B) = Cardinality(A) + Cardinality(B)
          /\ Cardinality(A) \in Nat /\ Cardinality(B) \in Nat
      BY <3>3, DisjointSum
    <3>6. device.counters["KV_FAULTS"] = r + o + Cardinality(A) + Cardinality(B)
      BY <3>2, <3>4, <3>5
    <3>. QED BY <2>2, <3>6 DEF A, B, r, o
  <2>15. CountersBalance BY <2>12, <2>13, <2>14 DEF CountersBalance, commands, answers
  <2>16. Len(commands) + Cardinality(Parked) + Len(answers)
           + Cardinality(completions) + Cardinality(taken) + Cardinality(device.dropped)
           + Cardinality(lost.command) + Cardinality(lost.parked)
           + Cardinality(lost.completion) = Cardinality(SentIds)
    BY <2>2, <2>6, <2>9, <2>10
  <2>. QED BY <2>11, <2>15, <2>16 DEF EachRequestInOnePlace, commands, answers
<1>. QED BY <1>1, AccountInit, AccountStep, PTL DEF Spec

-----------------------------------------------------------------------------
(* The rounds of a graph *)

LEMMA LeastOf ==
  ASSUME NEW S \in SUBSET Nat, S # {}
  PROVE  \E x \in S : \A y \in S : x <= y
<1>1. IsWellFoundedOn(OpToRel(<, Nat), Nat)
  BY NatLessThanWellFounded
<1>2. PICK x \in S : \A y \in S : ~ (<<y, x>> \in OpToRel(<, Nat))
  BY <1>1, WFMin, Zenon
<1>3. \A y \in S : ~ (y < x)
  BY <1>2 DEF OpToRel
<1>. QED BY <1>3

RunAfter(graph, run, k) == IF k = 0 THEN Start ELSE Round(graph, run[k - 1])
RunTo(graph, N, run) == run = [k \in 0 .. N |-> RunAfter(graph, run, k)]

LEMMA RunExists ==
  ASSUME NEW graph, NEW K \in Nat
  PROVE  \E run : RunTo(graph, K, run)
<1>. DEFINE Bad == {N \in Nat : ~ \E run : RunTo(graph, N, run)}
<1>1. SUFFICES ASSUME Bad # {} PROVE FALSE OBVIOUS
<1>2. PICK N \in Bad : \A M \in Bad : N <= M
  BY <1>1, LeastOf
<1>3. CASE N = 0
  <2>. DEFINE first == [k \in 0 .. 0 |-> Start]
  <2>1. \A k \in 0 .. 0 : RunAfter(graph, first, k) = Start BY DEF RunAfter
  <2>2. first = [k \in 0 .. 0 |-> RunAfter(graph, first, k)] BY <2>1
  <2>. QED BY <2>2, <1>3 DEF RunTo
<1>4. CASE N # 0
  <2>0. N - 1 \in Nat /\ N - 1 \notin Bad BY <1>2, <1>4
  <2>1. PICK run : RunTo(graph, N - 1, run) BY <2>0
  <2>. DEFINE next == [k \in 0 .. N |-> RunAfter(graph, run, k)]
  <2>2. ASSUME NEW k \in 0 .. N PROVE RunAfter(graph, run, k) = RunAfter(graph, next, k)
    <3>1. CASE k = 0 BY <3>1 DEF RunAfter
    <3>2. CASE k # 0
      <4>1. k - 1 \in 0 .. N - 1 /\ k - 1 \in 0 .. N BY <3>2, <1>4
      <4>2. run[k - 1] = RunAfter(graph, run, k - 1) BY <4>1, <2>1 DEF RunTo
      <4>3. next[k - 1] = run[k - 1] BY <4>1, <4>2
      <4>. HIDE DEF next
      <4>. QED BY <4>3 DEF RunAfter
    <3>. QED BY <3>1, <3>2
  <2>3. next = [k \in 0 .. N |-> RunAfter(graph, next, k)] BY <2>2
  <2>. HIDE DEF next
  <2>. QED BY <2>3 DEF RunTo
<1>. QED BY <1>3, <1>4

\* What can be executed after nothing but others of A can be executed after
\* nothing but others of more.
LEMMA ExecutableGrows ==
  ASSUME NEW graph, NEW A, NEW B, A \subseteq B
  PROVE  Executable(graph, A) \subseteq Executable(graph, B)
<1>. DEFINE Closed(S, C) ==
       \A k \in C : graph[k].node_id <= 7
                    /\ graph[k].dependencies \subseteq Available(graph, S) => k \in S
<1>1. SUFFICES ASSUME NEW i \in Executable(graph, A), NEW S \in SUBSET B, Closed(S, B)
               PROVE  i \in S
  BY DEF Executable
<1>2. Available(graph, S \cap A) \subseteq Available(graph, S) BY DEF Available
<1>3. Closed(S \cap A, A) BY <1>1, <1>2
<1>. QED BY <1>1, <1>3 DEF Executable

\* A node that is ready after nodes that can be executed can be executed.
LEMMA ReadyExecutable ==
  ASSUME NEW graph, NEW A, NEW B, A \subseteq B, Executable(graph, A) = A,
         NEW i \in B, graph[i].node_id <= 7,
         graph[i].dependencies \subseteq Available(graph, A)
  PROVE  i \in Executable(graph, B)
<1>1. SUFFICES ASSUME NEW S \in SUBSET B,
                      \A k \in B : graph[k].node_id <= 7
                        /\ graph[k].dependencies \subseteq Available(graph, S) => k \in S
               PROVE  i \in S
  BY DEF Executable
<1>2. A \subseteq S
  <2>1. A \subseteq Executable(graph, B) BY ExecutableGrows
  <2>. QED BY <1>1, <2>1 DEF Executable
<1>3. Available(graph, A) \subseteq Available(graph, S) BY <1>2 DEF Available
<1>. QED BY <1>1, <1>3

\* A bit of the combined word changes with each operand that has it.
LEMMA CombinedMore ==
  ASSUME NEW graph, NEW S, IsFiniteSet(S), NEW i, i \notin S
  PROVE  Combined(graph, S \cup {i}) = Xor(Combined(graph, S), graph[i].operand0)
<1>. DEFINE With(T, b) == {j \in T : b \in graph[j].operand0}
<1>1. ASSUME NEW b
      PROVE  /\ Cardinality(With(S, b)) \in Nat
             /\ Cardinality(With(S \cup {i}, b)) =
                  Cardinality(With(S, b)) + (IF b \in graph[i].operand0 THEN 1 ELSE 0)
  <2>1. IsFiniteSet(With(S, b)) BY SubsetFinite
  <2>2. With(S \cup {i}, b) = IF b \in graph[i].operand0 THEN With(S, b) \cup {i} ELSE With(S, b)
    OBVIOUS
  <2>3. i \notin With(S, b) OBVIOUS
  <2>. HIDE DEF With
  <2>. QED BY <2>1, <2>2, <2>3, FS_AddElement, FS_CardinalityType
<1>2. ASSUME NEW T, NEW b
      PROVE  b \in Combined(graph, T) <=> Cardinality(With(T, b)) % 2 = 1
  <2>1. b \in UNION {graph[j].operand0 : j \in T} <=> With(T, b) # {} OBVIOUS
  <2>2. With(T, b) = {} => Cardinality(With(T, b)) % 2 = 0
    <3>. HIDE DEF With
    <3>. QED BY FS_EmptySet
  <2>3. b \in Combined(graph, T) <=> /\ b \in UNION {graph[j].operand0 : j \in T}
                                     /\ Cardinality(With(T, b)) % 2 = 1
    BY DEF Combined
  <2>. HIDE DEF With
  <2>. QED BY <2>1, <2>2, <2>3
<1>. HIDE DEF With
<1>3. ASSUME NEW b
      PROVE  b \in Combined(graph, S \cup {i}) <=> b \in Xor(Combined(graph, S), graph[i].operand0)
  <2>. DEFINE n == Cardinality(With(S, b))
              m == Cardinality(With(S \cup {i}, b))
  <2>1. n \in Nat /\ m = n + (IF b \in graph[i].operand0 THEN 1 ELSE 0) BY <1>1
  <2>2. /\ b \in Combined(graph, S) <=> n % 2 = 1
        /\ b \in Combined(graph, S \cup {i}) <=> m % 2 = 1
    BY <1>2
  <2>. HIDE DEF n, m
  <2>3. m % 2 = 1 <=> (IF b \in graph[i].operand0 THEN n % 2 # 1 ELSE n % 2 = 1)
    BY <2>1
  <2>. QED BY <2>2, <2>3 DEF Xor
<1>. QED BY <1>3

\* The loop between two rounds: it has executed some of the NOPs, in an order
\* their dependencies allow, or it has answered as the graph means.
RunGood(graph, priority, run) ==
  /\ run \in [executed : SUBSET {i \in DOMAIN graph : graph[i].opcode = "NOP"},
              complete_mask : {Available(graph, run.executed)},
              result : {Combined(graph, run.executed)},
              answer : {run.answer}]
  /\ Executable(graph, run.executed) = run.executed
  /\ run.answer # <<>> => MayAnswer(graph, priority, run.answer[1])

LEMMA RoundGood ==
  ASSUME NEW graph \in Seq(GraphNode), NEW priority, GraphValid(graph, priority),
         NEW run, RunGood(graph, priority, run), run.answer = <<>>,
         Cardinality(run.executed) < Len(graph)
  PROVE  LET next == Round(graph, run)
         IN  /\ RunGood(graph, priority, next)
             /\ next.answer = <<>> =>
                  Cardinality(next.executed) = Cardinality(run.executed) + 1
<1>. DEFINE E == run.executed
            reachable == Executable(graph, DOMAIN graph)
            Tells(o) == LET next == Answered(run, o.status, o.result[2])
                        IN  RunGood(graph, priority, next) /\ next.answer # <<>>
<1>1. /\ E \in SUBSET DOMAIN graph /\ \A i \in E : graph[i].opcode = "NOP"
      /\ run.complete_mask = Available(graph, E) /\ run.result = Combined(graph, E)
      /\ Executable(graph, E) = E
      /\ run = [executed |-> E, complete_mask |-> run.complete_mask,
                result |-> run.result, answer |-> <<>>]
  BY DEF RunGood
<1>2. DOMAIN graph = 1 .. Len(graph) /\ Len(graph) \in Nat OBVIOUS
<1>3. IsFiniteSet(E) /\ E # DOMAIN graph
  <2>. DEFINE K == Len(graph)
  <2>1. K \in Nat /\ Cardinality(E) < K /\ DOMAIN graph = 1 .. K BY <1>2
  <2>. HIDE DEF K
  <2>2. IsFiniteSet(1 .. K) /\ Cardinality(1 .. K) = K BY <2>1, FS_Interval
  <2>3. E \subseteq 1 .. K BY <1>1, <2>1
  <2>. QED BY <2>1, <2>2, <2>3, SubsetFinite
<1>4. E \subseteq reachable
  BY <1>1, ExecutableGrows
<1>5. ASSUME NEW status, NEW word, MayAnswer(graph, priority, Outcome(status, word))
      PROVE  LET next == Answered(run, status, word)
             IN  RunGood(graph, priority, next) /\ next.answer # <<>>
  <2>. DEFINE o == Outcome(status, word)
  <2>1. Answered(run, status, word) =
          [executed |-> E, complete_mask |-> run.complete_mask, result |-> run.result,
           answer |-> <<o>>]
    BY <1>1 DEF Answered
  <2>2. MayAnswer(graph, priority, o) BY <1>5
  <2>. HIDE DEF o
  <2>. QED BY <1>1, <2>1, <2>2 DEF RunGood
<1>6. CASE ReadyIn(graph, run) = {}
  <2>1. reachable \subseteq E
    <3>1. ASSUME NEW k \in DOMAIN graph, graph[k].node_id <= 7,
                 graph[k].dependencies \subseteq Available(graph, E)
          PROVE  k \in E
      BY <1>1, <1>6, <3>1 DEF ReadyIn
    <3>. QED BY <1>1, <3>1 DEF Executable
  <2>2. reachable = E /\ reachable # DOMAIN graph BY <1>3, <1>4, <2>1
  <2>3. {graph[i].node_id : i \in reachable} = run.complete_mask
    BY <1>1, <2>2 DEF Available
  <2>4. {i \in reachable : graph[i].opcode # "NOP"} = {} BY <1>1, <2>2
  <2>5. MayAnswer(graph, priority, Outcome("GRAPH_DEADLOCK", run.complete_mask))
    BY <2>2, <2>3, <2>4 DEF MayAnswer, Outcome
  <2>6. Round(graph, run) = Answered(run, "GRAPH_DEADLOCK", run.complete_mask)
    BY <1>6 DEF Round
  <2>. QED BY <1>5, <2>5, <2>6
<1>7. CASE ReadyIn(graph, run) # {}
  <2>. DEFINE i == CHOOSE j \in FirstReadyIn(graph, run) : TRUE
  <2>1. i \in ReadyIn(graph, run)
    <3>1. ReadyIn(graph, run) \in SUBSET Nat BY <1>2 DEF ReadyIn
    <3>2. FirstReadyIn(graph, run) # {} BY <1>7, <3>1, LeastOf DEF FirstReadyIn
    <3>3. i \in FirstReadyIn(graph, run) BY <3>2
    <3>. QED BY <3>3 DEF FirstReadyIn
  <2>2. Round(graph, run) = ExecuteNode(graph, run, i) BY <1>7 DEF Round
  <2>. HIDE DEF i
  <2>3. /\ i \in DOMAIN graph /\ i \notin E /\ graph[i].node_id <= 7
        /\ graph[i].dependencies \subseteq Available(graph, E)
        /\ graph[i] \in GraphNode
    BY <1>1, <2>1 DEF ReadyIn
  <2>4. i \in reachable BY <1>1, <2>3, ReadyExecutable
  <2>5. CASE graph[i].opcode = "NOP"
    <3>. DEFINE F == E \cup {i}
    <3>1. ExecuteNode(graph, run, i) =
            [executed |-> F, complete_mask |-> run.complete_mask \cup {graph[i].node_id},
             result |-> Xor(run.result, graph[i].operand0), answer |-> <<>>]
      BY <1>1, <2>5 DEF ExecuteNode
    <3>2. Available(graph, F) = run.complete_mask \cup {graph[i].node_id}
      BY <1>1, <2>5 DEF Available
    <3>3. Combined(graph, F) = Xor(run.result, graph[i].operand0)
      BY <1>1, <1>3, <2>3, CombinedMore
    <3>4. Executable(graph, F) = F
      <4>1. E \subseteq Executable(graph, F) BY <1>1, ExecutableGrows
      <4>2. i \in Executable(graph, F) BY <1>1, <2>3, ReadyExecutable
      <4>3. Executable(graph, F) \subseteq F BY DEF Executable
      <4>. QED BY <4>1, <4>2, <4>3
    <3>5. Cardinality(F) = Cardinality(E) + 1 BY <1>3, <2>3, FS_AddElement
    <3>6. F \in SUBSET {j \in DOMAIN graph : graph[j].opcode = "NOP"} BY <1>1, <2>3, <2>5
    <3>. HIDE DEF F, E
    <3>. QED BY <2>2, <3>1, <3>2, <3>3, <3>4, <3>5, <3>6 DEF RunGood, E
  <2>6. CASE graph[i].opcode = "COMPLETE"
    <3>. DEFINE word == Xor(run.result, graph[i].operand0)
    <3>1. word = Combined(graph, E \cup {i}) BY <1>1, <1>3, <2>3, CombinedMore
    <3>2. MayComplete(graph, i, word) BY <1>1, <2>3, <3>1 DEF MayComplete
    <3>. HIDE DEF word
    <3>3. MayAnswer(graph, priority, Outcome("OK", word))
      BY <2>4, <2>6, <3>2 DEF MayAnswer, Outcome
    <3>4. ExecuteNode(graph, run, i) = Answered(run, "OK", word)
      BY <2>6 DEF ExecuteNode, word
    <3>. QED BY <1>5, <2>2, <3>3, <3>4
  <2>7. CASE graph[i].opcode \notin {"NOP", "COMPLETE"}
    <3>. DEFINE word == EngineOpcode[graph[i].opcode]
    <3>1. MayAnswer(graph, priority, Outcome("GRAPH_INVALID", word))
      BY <2>4, <2>7 DEF MayAnswer, Outcome
    <3>2. ExecuteNode(graph, run, i) = Answered(run, "GRAPH_INVALID", word)
      BY <2>7 DEF ExecuteNode
    <3>. QED BY <1>5, <2>2, <3>1, <3>2
  <2>. QED BY <2>5, <2>6, <2>7
<1>. QED BY <1>6, <1>7

\* The device answers a graph as the graph means, for every graph.
LEMMA GraphMeans ==
  ASSUME NEW graph \in Seq(GraphNode), NEW priority
  PROVE  MayAnswer(graph, priority, ExecuteGraph(graph, priority))
<1>1. CASE ~ GraphValid(graph, priority)
  BY <1>1 DEF ExecuteGraph, MayAnswer, Outcome
<1>2. CASE GraphValid(graph, priority)
  <2>. DEFINE K == Len(graph)
              run == CHOOSE f : f = [k \in 0 .. K |-> RunAfter(graph, f, k)]
  <2>1. K \in Nat /\ DOMAIN graph = 1 .. K OBVIOUS
  <2>. HIDE DEF K
  <2>2. run = [k \in 0 .. K |-> RunAfter(graph, run, k)]
    BY <2>1, RunExists DEF RunTo
  <2>3. Rounds(graph) = run[K] BY DEF Rounds, RunAfter, K
  <2>. HIDE DEF run
  <2>. DEFINE Holds(k) == /\ RunGood(graph, priority, run[k])
                          /\ run[k].answer = <<>> => Cardinality(run[k].executed) = k
  <2>4. \A k \in 0 .. K : Holds(k)
    <3>. DEFINE Bad == {k \in 0 .. K : ~ Holds(k)}
    <3>1. SUFFICES ASSUME Bad # {} PROVE FALSE OBVIOUS
    <3>2. PICK k \in Bad : \A j \in Bad : k <= j
      <4>1. Bad \in SUBSET Nat OBVIOUS
      <4>. HIDE DEF Bad
      <4>. QED BY <3>1, <4>1, LeastOf
    <3>3. run[k] = RunAfter(graph, run, k) BY <2>2
    <3>4. CASE k = 0
      <4>1. run[k] = Start BY <3>3, <3>4 DEF RunAfter
      <4>2. Available(graph, {}) = {} /\ Combined(graph, {}) = {} /\ Executable(graph, {}) = {}
        BY DEF Available, Combined, Executable
      <4>3. Cardinality({}) = 0 BY FS_EmptySet
      <4>4. RunGood(graph, priority, Start) BY <4>2 DEF RunGood, Start
      <4>5. Start.answer = <<>> /\ Start.executed = {} BY DEF Start
      <4>. QED BY <3>2, <3>4, <4>1, <4>3, <4>4, <4>5
    <3>5. CASE k # 0
      <4>. DEFINE last == run[k - 1]
      <4>1. k - 1 \in 0 .. K /\ k - 1 < k /\ k - 1 < K /\ k - 1 \notin Bad
        BY <2>1, <3>2, <3>5
      <4>2. RunGood(graph, priority, last) /\ (last.answer = <<>> => Cardinality(last.executed) = k - 1)
        BY <4>1
      <4>3. run[k] = Round(graph, last) BY <3>3, <3>5 DEF RunAfter
      <4>. HIDE DEF last
      <4>4. CASE last.answer # <<>>
        <5>1. run[k] = last BY <4>3, <4>4 DEF Round
        <5>. QED BY <3>2, <4>2, <4>4, <5>1
      <4>5. CASE last.answer = <<>>
        <5>1. Cardinality(last.executed) = k - 1 /\ Cardinality(last.executed) < Len(graph)
          BY <4>1, <4>2, <4>5 DEF K
        <5>2. /\ RunGood(graph, priority, run[k])
              /\ run[k].answer = <<>> =>
                   Cardinality(run[k].executed) = Cardinality(last.executed) + 1
          BY <1>2, <4>2, <4>3, <4>5, <5>1, RoundGood
        <5>3. Holds(k) BY <2>1, <3>2, <5>1, <5>2
        <5>. QED BY <3>2, <5>3
      <4>. QED BY <4>4, <4>5
    <3>. QED BY <3>4, <3>5
  <2>. DEFINE end == run[K]
  <2>5. RunGood(graph, priority, end) /\ (end.answer = <<>> => Cardinality(end.executed) = K)
    BY <2>1, <2>4
  <2>6. ExecuteGraph(graph, priority) =
          IF end.answer = <<>> THEN Outcome("GRAPH_INVALID", end.complete_mask) ELSE end.answer[1]
    BY <1>2, <2>3 DEF ExecuteGraph
  <2>. HIDE DEF end
  <2>7. CASE end.answer # <<>> BY <2>5, <2>6, <2>7 DEF RunGood
  <2>8. CASE end.answer = <<>>
    <3>1. /\ end.executed \subseteq DOMAIN graph
          /\ \A i \in end.executed : graph[i].opcode = "NOP"
          /\ Executable(graph, end.executed) = end.executed
      BY <2>5 DEF RunGood
    <3>2. IsFiniteSet(1 .. K) /\ Cardinality(1 .. K) = K BY <2>1, FS_Interval
    <3>3. end.executed = DOMAIN graph BY <2>1, <2>5, <2>8, <3>1, <3>2, FS_Subset
    <3>4. /\ Executable(graph, DOMAIN graph) = DOMAIN graph
          /\ {i \in DOMAIN graph : graph[i].opcode # "NOP"} = {}
      BY <3>1, <3>3
    <3>. QED BY <1>2, <2>6, <2>8, <3>4 DEF MayAnswer, Outcome
  <2>. QED BY <2>7, <2>8
<1>. QED BY <1>1, <1>2

\* The graph loop of the device answers every request as its graph means: a round
\* never executes a node too early, and stops only when none is left that could be.
THEOREM GraphsAsMeant == GraphsMeant
BY GraphMeans, HostAssumption DEF GraphsMeant, RequestOK

-----------------------------------------------------------------------------
(* Answers belong to their requests *)

\* The page a translation answered, for the commands of Q and the completions A.
Told(Q, A) ==
  {<<z[1].argument, z[2].result>> : z \in
     {y \in Q \X A : /\ y[1].request_id = y[2].request_id
                     /\ y[1].opcode = "KV_TRANSLATE" /\ y[2].status = "OK"}}

\* The pages that are mapped, in the words of an answer.
Live(pages) == {<<p, <<"page", pages[p]>>>> : p \in {q \in Pages : pages[q] # 0}}

Below(M, next) == \A m \in M : \E n \in Nat : n < next /\ m[2] = <<"page", n>>
Unaliased(M) == \A m, n \in M : m[2] = n[2] => m[1] = n[1]

Asked(c) ==
  /\ c.request_id \in 1 .. MaxRequests
  /\ \E r \in Requests[c.request_id] :
       /\ c.opcode = r.opcode /\ c.flags = r.flags
       /\ c.graph = r.graph /\ c.priority = r.priority

Means(Q, A) ==
  \A c \in Q, x \in A :
    c.request_id = x.request_id /\ c.opcode = "SUBMIT_GRAPH" /\ ~ c.flags
      => MayAnswer(c.graph, c.priority, x)

\* The commands Q were asked; what the completions say is what they mean; no
\* physical page was ever told, or is mapped, for two virtual pages; and the
\* translations still in the ring are those of the mapping.
Truth(d, cs, Q, next) ==
  LET A == cs \cup Elements(d.completion_ring)
      M == Told(Q, A) \cup Live(d.kv_pages)
  IN  /\ Keyed(Q) /\ \A c \in Q : Asked(c)
      /\ Elements(d.command_ring) \subseteq Q /\ d.pending \subseteq Q
      /\ Means(Q, A)
      /\ Below(M, next) /\ Unaliased(M)
      /\ Told(Q, Elements(d.completion_ring)) \subseteq Live(d.kv_pages)

LEMMA ToldIs ==
  \A Q, A, m : m \in Told(Q, A) <=>
    \E c \in Q, x \in A : /\ m = <<c.argument, x.result>>
                          /\ c.request_id = x.request_id
                          /\ c.opcode = "KV_TRANSLATE" /\ x.status = "OK"
<1>. SUFFICES ASSUME NEW Q, NEW A, NEW m
              PROVE  m \in Told(Q, A) <=>
                       \E c \in Q, x \in A : /\ m = <<c.argument, x.result>>
                                             /\ c.request_id = x.request_id
                                             /\ c.opcode = "KV_TRANSLATE" /\ x.status = "OK"
  OBVIOUS
<1>1. ASSUME m \in Told(Q, A)
      PROVE  \E c \in Q, x \in A : /\ m = <<c.argument, x.result>>
                                    /\ c.request_id = x.request_id
                                    /\ c.opcode = "KV_TRANSLATE" /\ x.status = "OK"
  BY <1>1 DEF Told
<1>2. ASSUME NEW c \in Q, NEW x \in A, m = <<c.argument, x.result>>,
             c.request_id = x.request_id, c.opcode = "KV_TRANSLATE", x.status = "OK"
      PROVE  m \in Told(Q, A)
  <2>1. <<c, x>> \in {y \in Q \X A : /\ y[1].request_id = y[2].request_id
                                     /\ y[1].opcode = "KV_TRANSLATE" /\ y[2].status = "OK"}
    BY <1>2
  <2>2. <<c, x>>[1] = c /\ <<c, x>>[2] = x OBVIOUS
  <2>. QED BY <1>2, <2>1, <2>2 DEF Told
<1>. QED BY <1>1, <1>2

LEMMA ToldGrows ==
  \A Q, A, B : /\ A \subseteq B => Told(Q, A) \subseteq Told(Q, B)
               /\ Told(Q, A \cup B) = Told(Q, A) \cup Told(Q, B)
<1>. SUFFICES ASSUME NEW Q, NEW A, NEW B
              PROVE  /\ A \subseteq B => Told(Q, A) \subseteq Told(Q, B)
                     /\ Told(Q, A \cup B) = Told(Q, A) \cup Told(Q, B)
  OBVIOUS
<1>. QED BY ToldIs

\* Answers taken, mappings forgotten, commands gone.
LEMMA TruthShrinks ==
  ASSUME NEW d, NEW e, NEW cs, NEW cz, NEW Q, NEW next, Truth(d, cs, Q, next),
         Elements(e.command_ring) \subseteq Elements(d.command_ring),
         e.pending \subseteq d.pending,
         cz \cup Elements(e.completion_ring) \subseteq cs \cup Elements(d.completion_ring),
         Live(e.kv_pages) \subseteq Live(d.kv_pages),
         \/ Elements(e.completion_ring) = {}
         \/ /\ Elements(e.completion_ring) \subseteq Elements(d.completion_ring)
            /\ e.kv_pages = d.kv_pages
  PROVE  Truth(e, cz, Q, next)
<1>. DEFINE A == cs \cup Elements(d.completion_ring)
            B == cz \cup Elements(e.completion_ring)
            M == Told(Q, A) \cup Live(d.kv_pages)
            N == Told(Q, B) \cup Live(e.kv_pages)
<1>1. /\ Keyed(Q) /\ \A c \in Q : Asked(c)
      /\ Elements(d.command_ring) \subseteq Q /\ d.pending \subseteq Q
      /\ Means(Q, A) /\ Below(M, next) /\ Unaliased(M)
      /\ Told(Q, Elements(d.completion_ring)) \subseteq Live(d.kv_pages)
  BY DEF Truth
<1>2. B \subseteq A OBVIOUS
<1>3. Means(Q, B) BY <1>1, <1>2 DEF Means
<1>4. N \subseteq M BY <1>2, ToldGrows
<1>5. Told(Q, Elements(e.completion_ring)) \subseteq Live(e.kv_pages)
  <2>1. CASE Elements(e.completion_ring) = {} BY <2>1, ToldIs
  <2>2. CASE /\ Elements(e.completion_ring) \subseteq Elements(d.completion_ring)
             /\ e.kv_pages = d.kv_pages
    BY <1>1, <2>2, ToldGrows
  <2>. QED BY <2>1, <2>2
<1>. HIDE DEF M, N
<1>6. Below(N, next) /\ Unaliased(N) BY <1>1, <1>4 DEF Below, Unaliased
<1>. QED BY <1>1, <1>3, <1>5, <1>6 DEF Truth, N

LEMMA TruthSubmitted ==
  ASSUME NEW d, NEW e, NEW cs, NEW Q, NEW next, Truth(d, cs, Q, next),
         NEW x, Asked(x), x.request_id \notin Ids(Q),
         x.request_id \notin Ids(cs) \cup Ids(Elements(d.completion_ring)),
         Elements(e.command_ring) = Elements(d.command_ring) \cup {x},
         e.pending = d.pending, e.completion_ring = d.completion_ring,
         e.kv_pages = d.kv_pages
  PROVE  Truth(e, cs, Q \cup {x}, next)
<1>. DEFINE A == cs \cup Elements(d.completion_ring)
<1>1. /\ Keyed(Q) /\ \A c \in Q : Asked(c)
      /\ Elements(d.command_ring) \subseteq Q /\ d.pending \subseteq Q
      /\ Means(Q, A) /\ Below(Told(Q, A) \cup Live(d.kv_pages), next)
      /\ Unaliased(Told(Q, A) \cup Live(d.kv_pages))
      /\ Told(Q, Elements(d.completion_ring)) \subseteq Live(d.kv_pages)
  BY DEF Truth
<1>2. \A a \in A : a.request_id # x.request_id BY DEF Ids
<1>3. Keyed(Q \cup {x}) BY <1>1 DEF Keyed, Ids
<1>4. Means(Q \cup {x}, A) BY <1>1, <1>2 DEF Means
<1>5. \A B : B \subseteq A => Told(Q \cup {x}, B) = Told(Q, B)
  <2>. SUFFICES ASSUME NEW B, B \subseteq A PROVE Told(Q \cup {x}, B) = Told(Q, B) OBVIOUS
  <2>1. \A m : m \in Told(Q \cup {x}, B) <=> m \in Told(Q, B) BY <1>2, ToldIs
  <2>. QED BY <2>1
<1>6. Told(Q \cup {x}, A) = Told(Q, A)
      /\ Told(Q \cup {x}, Elements(d.completion_ring)) = Told(Q, Elements(d.completion_ring))
  BY <1>5
<1>7. A = cs \cup Elements(e.completion_ring) OBVIOUS
<1>8. /\ Elements(e.command_ring) \subseteq Q \cup {x} /\ e.pending \subseteq Q \cup {x}
      /\ \A c \in Q \cup {x} : Asked(c)
  BY <1>1
<1>. HIDE DEF A
<1>. QED BY <1>1, <1>3, <1>4, <1>6, <1>7, <1>8 DEF Truth

\* What an answer says of its command, given the mapping of the device.
AnswerOf(pages, command, x) ==
  /\ x.request_id = command.request_id
  /\ command.opcode = "KV_TRANSLATE" /\ x.status = "OK" =>
       pages[command.argument] # 0 /\ x.result = <<"page", pages[command.argument]>>
  /\ command.opcode = "SUBMIT_GRAPH" /\ ~ command.flags =>
       LET answer == GraphAnswers[<<command.graph, command.priority>>]
       IN  x.status = answer.status /\ x.result = answer.result

LEMMA GraphAnswered ==
  ASSUME NEW c, Asked(c), c.opcode = "SUBMIT_GRAPH", ~ c.flags,
         NEW x, NEW pages, AnswerOf(pages, c, x)
  PROVE  MayAnswer(c.graph, c.priority, x)
<1>. DEFINE answer == ExecuteGraph(c.graph, c.priority)
<1>1. PICK r \in Requests[c.request_id] :
        /\ c.opcode = r.opcode /\ c.flags = r.flags
        /\ c.graph = r.graph /\ c.priority = r.priority
  BY DEF Asked
<1>2. c.request_id \in 1 .. MaxRequests BY DEF Asked
<1>3. MayAnswer(c.graph, c.priority, answer) BY <1>1, <1>2, GraphsAsMeant DEF GraphsMeant
<1>4. GraphAnswers[<<c.graph, c.priority>>] = answer
  <2>. DEFINE requests == UNION {Requests[id] : id \in 1 .. MaxRequests}
              works == {<<q.graph, q.priority>> : q \in requests}
  <2>1. r \in requests BY <1>1, <1>2
  <2>2. <<c.graph, c.priority>> \in works BY <1>1, <2>1
  <2>. HIDE DEF requests
  <2>3. GraphAnswers = [work \in works |-> ExecuteGraph(work[1], work[2])]
    BY DEF GraphAnswers, requests
  <2>. HIDE DEF works
  <2>. QED BY <2>2, <2>3
<1>5. x.status = answer.status /\ x.result = answer.result BY <1>4 DEF AnswerOf
<1>. HIDE DEF answer
<1>. QED BY <1>3, <1>5 DEF MayAnswer

\* A command is answered, as it means.
LEMMA TruthAnswered ==
  ASSUME NEW d, NEW e, NEW cs, NEW Q, NEW next, Truth(d, cs, Q, next),
         d.kv_pages \in [Pages -> Nat], \A y \in Q : y.argument \in Pages,
         NEW c \in Q, Elements(e.command_ring) \subseteq Q, e.pending \subseteq Q,
         e.kv_pages = d.kv_pages,
         \/ Elements(e.completion_ring) = Elements(d.completion_ring)
         \/ \E x : /\ Elements(e.completion_ring) = Elements(d.completion_ring) \cup {x}
                   /\ AnswerOf(d.kv_pages, c, x)
  PROVE  Truth(e, cs, Q, next)
<1>. DEFINE A == cs \cup Elements(d.completion_ring)
            L == Live(d.kv_pages)
<1>1. /\ Keyed(Q) /\ \A y \in Q : Asked(y)
      /\ Means(Q, A) /\ Below(Told(Q, A) \cup L, next) /\ Unaliased(Told(Q, A) \cup L)
      /\ Told(Q, Elements(d.completion_ring)) \subseteq L
  BY DEF Truth
<1>2. CASE Elements(e.completion_ring) = Elements(d.completion_ring)
  BY <1>1, <1>2 DEF Truth
<1>3. CASE \E x : /\ Elements(e.completion_ring) = Elements(d.completion_ring) \cup {x}
                  /\ AnswerOf(d.kv_pages, c, x)
  <2>1. PICK x : /\ Elements(e.completion_ring) = Elements(d.completion_ring) \cup {x}
                 /\ AnswerOf(d.kv_pages, c, x)
    BY <1>3
  <2>2. Told(Q, {x}) \subseteq L
    <3>. SUFFICES ASSUME NEW m \in Told(Q, {x}) PROVE m \in L OBVIOUS
    <3>1. PICK y \in Q : /\ m = <<y.argument, x.result>> /\ y.request_id = x.request_id
                         /\ y.opcode = "KV_TRANSLATE" /\ x.status = "OK"
      BY ToldIs
    <3>2. y = c BY <1>1, <2>1, <3>1 DEF Keyed, AnswerOf
    <3>3. /\ d.kv_pages[c.argument] # 0 /\ x.result = <<"page", d.kv_pages[c.argument]>>
      BY <2>1, <3>1, <3>2 DEF AnswerOf
    <3>. QED BY <3>1, <3>2, <3>3 DEF Live
  <2>3. Means(Q, A \cup {x})
    <3>. SUFFICES ASSUME NEW y \in Q, NEW a \in A \cup {x}, y.request_id = a.request_id,
                         y.opcode = "SUBMIT_GRAPH", ~ y.flags
                  PROVE  MayAnswer(y.graph, y.priority, a)
      BY DEF Means
    <3>1. CASE a \in A BY <1>1, <3>1 DEF Means
    <3>2. CASE a = x
      <4>1. y = c BY <1>1, <2>1, <3>2 DEF Keyed, AnswerOf
      <4>. QED BY <1>1, <2>1, <3>2, <4>1, GraphAnswered
    <3>. QED BY <3>1, <3>2
  <2>4. cs \cup Elements(e.completion_ring) = A \cup {x} BY <2>1
  <2>5. /\ Told(Q, A \cup {x}) = Told(Q, A) \cup Told(Q, {x})
        /\ Told(Q, Elements(d.completion_ring) \cup {x})
             = Told(Q, Elements(d.completion_ring)) \cup Told(Q, {x})
    BY ToldGrows
  <2>. HIDE DEF A, L
  <2>6. Told(Q, A \cup {x}) \cup L = Told(Q, A) \cup L BY <2>2, <2>5
  <2>7. Told(Q, Elements(e.completion_ring)) \subseteq L BY <1>1, <2>1, <2>2, <2>5
  <2>. QED BY <1>1, <2>3, <2>4, <2>6, <2>7 DEF Truth, L
<1>. QED BY <1>2, <1>3

\* A page gets the next physical page.
LEMMA TruthMapped ==
  ASSUME NEW d, NEW e, NEW cs, NEW Q, NEW next \in Nat \ {0}, Truth(d, cs, Q, next),
         NEW page \in Pages, d.kv_pages \in [Pages -> Nat], d.kv_pages[page] = 0,
         e.command_ring = d.command_ring, e.pending = d.pending,
         e.completion_ring = d.completion_ring,
         e.kv_pages = [d.kv_pages EXCEPT ![page] = next]
  PROVE  Truth(e, cs, Q, next + 1)
<1>. DEFINE A == cs \cup Elements(d.completion_ring)
            M == Told(Q, A) \cup Live(d.kv_pages)
            new == <<page, <<"page", next>>>>
<1>1. /\ Keyed(Q) /\ \A y \in Q : Asked(y)
      /\ Elements(d.command_ring) \subseteq Q /\ d.pending \subseteq Q
      /\ Means(Q, A) /\ Below(M, next) /\ Unaliased(M)
      /\ Told(Q, Elements(d.completion_ring)) \subseteq Live(d.kv_pages)
  BY DEF Truth
<1>2. Live(e.kv_pages) = Live(d.kv_pages) \cup {new}
  <2>1. {q \in Pages : e.kv_pages[q] # 0} = {q \in Pages : d.kv_pages[q] # 0} \cup {page}
    OBVIOUS
  <2>2. \A q \in Pages \ {page} : e.kv_pages[q] = d.kv_pages[q] OBVIOUS
  <2>3. e.kv_pages[page] = next OBVIOUS
  <2>. QED BY <2>1, <2>2, <2>3 DEF Live
<1>. HIDE DEF M
<1>3. \A m \in M : m[2] # <<"page", next>>
  BY <1>1 DEF Below
<1>. DEFINE P == M \cup {new}
<1>4. Below(P, next + 1)
  <2>. SUFFICES ASSUME NEW m \in P PROVE \E n \in Nat : n < next + 1 /\ m[2] = <<"page", n>>
    BY DEF Below
  <2>1. CASE m \in M
    <3>1. PICK n \in Nat : n < next /\ m[2] = <<"page", n>> BY <1>1, <2>1 DEF Below
    <3>2. n < next + 1 BY <3>1
    <3>. QED BY <3>1, <3>2
  <2>2. CASE m = new
    <3>1. next < next + 1 /\ next \in Nat OBVIOUS
    <3>. QED BY <2>2, <3>1
  <2>. QED BY <2>1, <2>2
<1>5. Unaliased(P)
  <2>1. new[2] = <<"page", next>> OBVIOUS
  <2>. HIDE DEF new
  <2>. QED BY <1>1, <1>3, <2>1 DEF Unaliased
<1>6. P = Told(Q, A) \cup Live(e.kv_pages) BY <1>2 DEF M
<1>. HIDE DEF P
<1>. QED BY <1>1, <1>2, <1>4, <1>5, <1>6 DEF Truth

\* A completion ring takes the completion of a command, or drops it.
LEMMA CompleteAppends ==
  ASSUME NEW d, DOMAIN d = Fields, NEW id, NEW status, NEW result
  PROVE  LET e == Complete(d, id, status, result)
         IN  \/ e.completion_ring = d.completion_ring
             \/ e.completion_ring
                  = Append(d.completion_ring,
                           [request_id |-> id, status |-> status, result |-> result])
<1>. DEFINE x == [request_id |-> id, status |-> status, result |-> result]
            refused == Count(d, "QUEUE_ERRORS")
            stopped == [refused EXCEPT !.status = "FATAL", !.enabled = FALSE,
                                       !.dropped = @ \cup {id}]
            appended == [d EXCEPT !.completion_ring = Append(@, x)]
            pushed == Count(appended, "COMPLETED")
            failed == Count(pushed, "ERRORS")
<1>1. DOMAIN refused = Fields /\ refused.completion_ring = d.completion_ring
  BY DEF Count, Increment, Fields
<1>. HIDE DEF refused
<1>2. stopped.completion_ring = d.completion_ring BY <1>1 DEF Fields
<1>3. DOMAIN appended = Fields /\ appended.completion_ring = Append(d.completion_ring, x)
  BY DEF Fields
<1>. HIDE DEF appended
<1>4. DOMAIN pushed = Fields /\ pushed.completion_ring = Append(d.completion_ring, x)
  BY <1>3 DEF Count, Increment, Fields
<1>. HIDE DEF pushed
<1>5. failed.completion_ring = Append(d.completion_ring, x)
  BY <1>4 DEF Count, Increment, Fields
<1>. HIDE DEF failed, stopped
<1>6. Complete(d, id, status, result) \in {stopped, pushed, failed}
  BY DEF Complete, stopped, refused, pushed, appended, failed
<1>. QED BY <1>2, <1>4, <1>5, <1>6

LEMMA CountKeepsRing ==
  ASSUME NEW d, DOMAIN d = Fields, NEW counter, NEW amount
  PROVE  LET e == Increment(d, counter, amount)
         IN  DOMAIN e = Fields /\ e.completion_ring = d.completion_ring
             /\ e.kv_pages = d.kv_pages
BY DEF Increment, Fields

\* What executing a command appends to the completion ring is its answer.
LEMMA ExecuteAnswers ==
  ASSUME NEW d, DOMAIN d = Fields, NEW command
  PROVE  LET e == Execute(d, command)
         IN  \/ e.completion_ring = d.completion_ring
             \/ \E x : /\ e.completion_ring = Append(d.completion_ring, x)
                       /\ AnswerOf(d.kv_pages, command, x)
<1>. DEFINE id == command.request_id
            Right(e) == \/ e.completion_ring = d.completion_ring
                        \/ \E x : /\ e.completion_ring = Append(d.completion_ring, x)
                                  /\ AnswerOf(d.kv_pages, command, x)
<1>1. ASSUME NEW c, DOMAIN c = Fields, c.completion_ring = d.completion_ring,
             NEW status, NEW result,
             AnswerOf(d.kv_pages, command,
                      [request_id |-> id, status |-> status, result |-> result])
      PROVE  Right(Complete(c, id, status, result))
  BY <1>1, CompleteAppends
<1>2. ASSUME command.flags PROVE Right(Complete(d, id, "BAD_FLAGS", <<"word", {}>>))
  <2>1. AnswerOf(d.kv_pages, command,
                 [request_id |-> id, status |-> "BAD_FLAGS", result |-> <<"word", {}>>])
    BY <1>2 DEF AnswerOf
  <2>. QED BY <1>1, <2>1
<1>3. ASSUME command.opcode \notin {"SUBMIT_GRAPH", "KV_TRANSLATE"}
      PROVE  Right(Complete(d, id, "UNSUPPORTED", <<"word", {}>>))
  <2>1. AnswerOf(d.kv_pages, command,
                 [request_id |-> id, status |-> "UNSUPPORTED", result |-> <<"word", {}>>])
    BY <1>3 DEF AnswerOf
  <2>. QED BY <1>1, <2>1
<1>4. ASSUME command.opcode = "SUBMIT_GRAPH" PROVE Right(RunGraph(d, command))
  <2>. DEFINE counted == IF GraphValid(command.graph, command.priority)
                         THEN Increment(d, "GRAPH_NODES", Len(command.graph)) ELSE d
              answer == GraphAnswers[<<command.graph, command.priority>>]
  <2>1. DOMAIN counted = Fields /\ counted.completion_ring = d.completion_ring
    BY CountKeepsRing
  <2>. HIDE DEF counted
  <2>2. AnswerOf(d.kv_pages, command,
                 [request_id |-> id, status |-> answer.status, result |-> answer.result])
    BY <1>4 DEF AnswerOf
  <2>3. RunGraph(d, command) = Complete(counted, id, answer.status, answer.result)
    BY DEF RunGraph, counted
  <2>. QED BY <1>1, <2>1, <2>2, <2>3
<1>5. ASSUME command.opcode = "KV_TRANSLATE" PROVE Right(Translate(d, command))
  <2>. DEFINE page == command.argument
              faulted == Count(d, "KV_FAULTS")
              parked == [faulted EXCEPT !.pending = @ \cup {command},
                                        !.fault_ring = Append(@, Fault(command))]
              overflowed == Count(faulted, "FAULT_OVERFLOWS")
              missed == Complete(overflowed, id, "KV_MISS", <<"page", page>>)
              mapped == Complete(d, id, "OK", <<"page", d.kv_pages[page]>>)
  <2>1. DOMAIN faulted = Fields /\ faulted.completion_ring = d.completion_ring
    BY CountKeepsRing DEF Count
  <2>. HIDE DEF faulted
  <2>2. parked.completion_ring = d.completion_ring BY <2>1 DEF Fields
  <2>3. Right(missed)
    <3>1. DOMAIN overflowed = Fields /\ overflowed.completion_ring = d.completion_ring
      BY <2>1, CountKeepsRing DEF Count
    <3>2. AnswerOf(d.kv_pages, command,
                   [request_id |-> id, status |-> "KV_MISS", result |-> <<"page", page>>])
      BY <1>5 DEF AnswerOf
    <3>. HIDE DEF overflowed
    <3>. QED BY <1>1, <3>1, <3>2
  <2>4. ASSUME d.kv_pages[page] # 0 PROVE Right(mapped)
    <3>1. AnswerOf(d.kv_pages, command,
                   [request_id |-> id, status |-> "OK",
                    result |-> <<"page", d.kv_pages[page]>>])
      BY <1>5, <2>4 DEF AnswerOf
    <3>. QED BY <1>1, <3>1
  <2>5. Translate(d, command) = IF d.kv_pages[page] # 0 THEN mapped
                                ELSE IF ~ RingFull(d, d.fault_ring) THEN parked ELSE missed
    BY DEF Translate, faulted
  <2>. HIDE DEF parked, missed, mapped
  <2>. QED BY <2>2, <2>3, <2>4, <2>5
<1>. DEFINE E == Execute(d, command)
<1>6. Right(E)
  <2>. HIDE DEF Right
  <2>. QED BY <1>2, <1>3, <1>4, <1>5 DEF Execute
<1>. QED BY <1>6

\* What serving the fault of a parked command does to the answers: its page is
\* mapped, and the answer is where.
LEMMA ServeFaultAnswers ==
  ASSUME NEW d, Shape(d), NEW c \in d.pending, next_physical_page \in Nat \ {0},
         \A x \in d.pending : x.request_id = c.request_id => x = c
  PROVE  LET m == Mapped(d, c.argument)
             e == ServeFault(d, Fault(c))
         IN  /\ m.kv_pages = [d.kv_pages EXCEPT ![c.argument] =
                                IF @ = 0 THEN next_physical_page ELSE @]
             /\ m.command_ring = d.command_ring /\ m.pending = d.pending
             /\ m.completion_ring = d.completion_ring
             /\ e.kv_pages = m.kv_pages
             /\ \/ e.completion_ring = d.completion_ring
                \/ \E x : /\ e.completion_ring = Append(d.completion_ring, x)
                          /\ AnswerOf(m.kv_pages, c, x)
<1>. DEFINE id == c.request_id
            page == c.argument
            m == Mapped(d, page)
            u == Unparked(m, id)
            again == [c EXCEPT !.retry_count = @ + 1]
            r == Execute(u, again)
            e == Count(r, "KV_RECOVERED")
<1>1. c \in Command /\ page \in Pages /\ c.retry_count = 0 BY DEF Shape, Command
<1>2. Fault(c).request_id = id /\ Fault(c).address = page BY DEF Fault
<1>3. /\ DOMAIN m = Fields /\ \A f \in Fields \ {"kv_pages"} : m[f] = d[f]
      /\ m.kv_pages = [d.kv_pages EXCEPT ![page] = IF @ = 0 THEN next_physical_page ELSE @]
  BY DEF Mapped, Shape, Fields
<1>4. m.kv_pages \in [Pages -> Nat] /\ m.kv_pages[page] # 0
  BY <1>1, <1>3 DEF Shape
<1>. HIDE DEF m
<1>5. Shape(m) /\ m.pending = d.pending BY <1>3, <1>4 DEF Shape, Fields
<1>6. PendingOf(m, id) = {c} BY <1>5 DEF PendingOf
<1>7. Replayable(m, id) BY <1>1, <1>6 DEF Replayable
<1>8. (CHOOSE x \in PendingOf(m, id) : TRUE) = c BY <1>6
<1>9. /\ Shape(u) /\ u.kv_pages = m.kv_pages /\ u.completion_ring = d.completion_ring
  <2>1. /\ DOMAIN u = Fields /\ u.pending = m.pending \ {c}
        /\ \A f \in Fields \ {"pending"} : u[f] = m[f]
    BY <1>5, <1>6 DEF Unparked, Shape, Fields
  <2>. HIDE DEF u
  <2>2. Shape(u) BY <1>5, <2>1 DEF Shape, Fields
  <2>. QED BY <1>3, <2>1, <2>2 DEF Fields
<1>10. Replay(m, id) = r BY <1>7, <1>8 DEF Replay
<1>11. /\ again.request_id = id /\ again.argument = page /\ again.opcode = c.opcode
       /\ again.flags = c.flags /\ again.graph = c.graph /\ again.priority = c.priority
  BY <1>1 DEF Command
<1>. HIDE DEF u, again
<1>12. \/ r.completion_ring = u.completion_ring
       \/ \E x : /\ r.completion_ring = Append(u.completion_ring, x)
                 /\ AnswerOf(u.kv_pages, again, x)
  BY <1>9, ExecuteAnswers DEF Shape
<1>13. Shape(r) /\ SameQueues(u, r)
  <2>1. (Shape(r) /\ SameQueues(u, r)) \/ u.kv_pages[again.argument] = 0
    BY <1>9, ExecuteDoes
  <2>. HIDE DEF r
  <2>. QED BY <1>4, <1>9, <1>11, <2>1
<1>14. ServeFault(d, Fault(c)) = e
  <2>1. ServeFault(d, Fault(c)) = Recovered(m, id) BY <1>2 DEF ServeFault, m
  <2>2. Recovered(m, id) = Count(Replay(m, id), "KV_RECOVERED") BY <1>7 DEF Recovered
  <2>. QED BY <1>10, <2>1, <2>2
<1>. HIDE DEF r
<1>15. e.completion_ring = r.completion_ring /\ e.kv_pages = r.kv_pages
  BY <1>13, CountKeepsRing DEF Count, Shape
<1>. HIDE DEF e
<1>16. \/ e.completion_ring = d.completion_ring
       \/ \E x : /\ e.completion_ring = Append(d.completion_ring, x)
                 /\ AnswerOf(m.kv_pages, c, x)
  <2>1. \A x : AnswerOf(u.kv_pages, again, x) => AnswerOf(m.kv_pages, c, x)
    BY <1>9, <1>11 DEF AnswerOf
  <2>. QED BY <1>9, <1>12, <1>15, <2>1
<1>17. e.kv_pages = m.kv_pages BY <1>9, <1>13, <1>15 DEF SameQueues
<1>18. /\ m.command_ring = d.command_ring /\ m.pending = d.pending
       /\ m.completion_ring = d.completion_ring
  BY <1>3 DEF Fields
<1>. QED BY <1>3, <1>14, <1>16, <1>17, <1>18 DEF m

LEMMA ProcessTruth ==
  ASSUME NEW d, NEW cs, NEW Q, NEW next, Truth(d, cs, Q, next), Shape(d),
         Q \subseteq Command, d.command_ring # <<>>
  PROVE  Truth(Execute(Count([d EXCEPT !.command_ring = Tail(@)], "ACCEPTED"),
                       Head(d.command_ring)), cs, Q, next)
<1>. DEFINE ring == d.command_ring
            command == Head(ring)
            p == [d EXCEPT !.command_ring = Tail(@)]
            c == Increment(p, "ACCEPTED", 1)
            e == Execute(c, command)
<1>1. /\ DOMAIN p = Fields /\ p.command_ring = Tail(ring)
      /\ p.completion_ring = d.completion_ring /\ p.fault_ring = d.fault_ring
      /\ p.pending = d.pending /\ p.kv_pages = d.kv_pages
      /\ p.counters = d.counters
  BY DEF Shape, Fields
<1>2. IsRing(ring) /\ ring # <<>> /\ Elements(ring) \subseteq Command BY DEF Shape
<1>. HIDE DEF p, ring
<1>3. /\ IsRing(Tail(ring)) /\ Head(ring) \in Elements(ring)
      /\ Elements(Tail(ring)) \subseteq Elements(ring)
  BY <1>2, Pop
<1>4. Shape(p) BY <1>1, <1>2, <1>3 DEF Shape
<1>5. Shape(c) /\ SameQueues(p, c) /\ c.completion_ring = p.completion_ring
  <2>1. "ACCEPTED" \in Counter /\ 1 \in Nat BY DEF Counter
  <2>. QED BY <1>4, <2>1, CountDoes
<1>. HIDE DEF c, command
<1>6. \/ SameQueues(c, e) \/ Parks(c, e, command)
  BY <1>5, ExecuteDoes
<1>7. \/ e.completion_ring = c.completion_ring
      \/ \E x : /\ e.completion_ring = Append(c.completion_ring, x)
                /\ AnswerOf(c.kv_pages, command, x)
  BY <1>5, ExecuteAnswers DEF Shape
<1>. HIDE DEF e
<1>8. c.kv_pages = d.kv_pages /\ c.completion_ring = d.completion_ring
      /\ c.command_ring = Tail(ring) /\ c.pending = d.pending
  BY <1>1, <1>5 DEF SameQueues
<1>9. /\ e.kv_pages = d.kv_pages /\ e.command_ring = Tail(ring)
      /\ e.pending \subseteq d.pending \cup {command}
  BY <1>6, <1>8 DEF SameQueues, Parks
<1>10. Elements(ring) \subseteq Q /\ d.pending \subseteq Q BY DEF Truth, ring
<1>11. command \in Q /\ Elements(e.command_ring) \subseteq Q /\ e.pending \subseteq Q
  BY <1>3, <1>9, <1>10 DEF command
<1>12. \/ Elements(e.completion_ring) = Elements(d.completion_ring)
       \/ \E x : /\ Elements(e.completion_ring) = Elements(d.completion_ring) \cup {x}
                 /\ AnswerOf(d.kv_pages, command, x)
  <2>. DEFINE answers == d.completion_ring
  <2>1. IsRing(answers) BY DEF Shape
  <2>2. \/ e.completion_ring = answers
        \/ \E x : e.completion_ring = Append(answers, x) /\ AnswerOf(d.kv_pages, command, x)
    BY <1>7, <1>8
  <2>. HIDE DEF answers
  <2>3. \A x : Elements(Append(answers, x)) = Elements(answers) \cup {x} BY <2>1, Push
  <2>. QED BY <2>2, <2>3 DEF answers
<1>13. d.kv_pages \in [Pages -> Nat] /\ \A y \in Q : y.argument \in Pages
  BY DEF Shape, Command
<1>14. Truth(e, cs, Q, next) BY <1>9, <1>11, <1>12, <1>13, TruthAnswered
<1>. QED BY <1>14 DEF e, c, p, command, ring, Count

LEMMA ServeTruth ==
  ASSUME NEW d, NEW cs, NEW tk, NEW lo, NEW S, Accounts(d, cs, tk, lo, S),
         NEW Q, Truth(d, cs, Q, next_physical_page), Q \subseteq Command,
         d.fault_ring # <<>>, next_physical_page \in Nat \ {0}
  PROVE  LET fault == Head(d.fault_ring)
         IN  Truth(ServeFault([d EXCEPT !.fault_ring = Tail(@)], fault), cs, Q,
                   IF d.kv_pages[fault.address] = 0 THEN next_physical_page + 1
                   ELSE next_physical_page)
<1>. DEFINE ring == d.fault_ring
            fault == Head(ring)
            p == [d EXCEPT !.fault_ring = Tail(@)]
            next == IF d.kv_pages[fault.address] = 0 THEN next_physical_page + 1
                    ELSE next_physical_page
<1>0. Shape(d) /\ Settled(d, cs, lo) BY DEF Accounts
<1>1. IsRing(ring) /\ ring # <<>>
      /\ (\A f \in Elements(ring) : \E x \in d.pending : f = Fault(x))
  BY <1>0 DEF Shape, Settled
<1>2. /\ DOMAIN p = Fields /\ p.fault_ring = Tail(ring)
      /\ p.completion_ring = d.completion_ring /\ p.command_ring = d.command_ring
      /\ p.pending = d.pending /\ p.kv_pages = d.kv_pages
      /\ p.counters = d.counters
  BY <1>0 DEF Shape, Fields
<1>. HIDE DEF p, ring
<1>3. IsRing(Tail(ring)) /\ Head(ring) \in Elements(ring) BY <1>1, Pop
<1>4. PICK c \in d.pending : fault = Fault(c) BY <1>1, <1>3
<1>. DEFINE page == c.argument
            m == Mapped(p, page)
            e == ServeFault(p, Fault(c))
<1>5. c \in Command /\ page \in Pages /\ fault.address = page
  BY <1>0, <1>4 DEF Shape, Command, Fault
<1>6. Shape(p) BY <1>0, <1>2, <1>3 DEF Shape
<1>7. \A x \in p.pending : x.request_id = c.request_id => x = c
  BY <1>0, <1>2 DEF Settled, Keyed
<1>8. /\ m.kv_pages = [p.kv_pages EXCEPT ![c.argument] =
                         IF @ = 0 THEN next_physical_page ELSE @]
      /\ m.command_ring = p.command_ring /\ m.pending = p.pending
      /\ m.completion_ring = p.completion_ring
      /\ e.kv_pages = m.kv_pages
      /\ \/ e.completion_ring = p.completion_ring
         \/ \E x : /\ e.completion_ring = Append(p.completion_ring, x)
                   /\ AnswerOf(m.kv_pages, c, x)
  <2>1. c \in p.pending BY <1>2
  <2>. QED BY <1>6, <1>7, <2>1, ServeFaultAnswers
<1>9. e.command_ring = p.command_ring /\ e.pending = p.pending \ {c}
  <2>1. c \in p.pending BY <1>2
  <2>. QED BY <1>6, <1>7, <2>1, ServeFaultDoes
<1>. HIDE DEF m, e
<1>10. d.kv_pages \in [Pages -> Nat] BY <1>0 DEF Shape
<1>11. Truth(m, cs, Q, next)
  <2>1. CASE d.kv_pages[page] = 0
    <3>1. m.kv_pages = [d.kv_pages EXCEPT ![page] = next_physical_page]
      BY <1>2, <1>8, <2>1
    <3>2. m.command_ring = d.command_ring /\ m.pending = d.pending
          /\ m.completion_ring = d.completion_ring
      BY <1>2, <1>8
    <3>. DEFINE n == next_physical_page
    <3>3. n \in Nat \ {0} /\ Truth(d, cs, Q, n) /\ m.kv_pages = [d.kv_pages EXCEPT ![page] = n]
      BY <3>1
    <3>. HIDE DEF n
    <3>4. Truth(m, cs, Q, n + 1)
      BY <1>5, <1>10, <2>1, <3>2, <3>3, TruthMapped
    <3>. QED BY <1>5, <2>1, <3>4 DEF n
  <2>2. CASE d.kv_pages[page] # 0
    <3>1. m.kv_pages = d.kv_pages BY <1>2, <1>8, <1>10, <2>2
    <3>2. m.command_ring = d.command_ring /\ m.pending = d.pending
          /\ m.completion_ring = d.completion_ring
      BY <1>2, <1>8
    <3>. QED BY <1>5, <2>2, <3>1, <3>2 DEF Truth
  <2>. QED BY <2>1, <2>2
<1>. HIDE DEF next
<1>12. /\ c \in Q /\ Elements(e.command_ring) \subseteq Q /\ e.pending \subseteq Q
       /\ \A y \in Q : y.argument \in Pages
  BY <1>2, <1>9 DEF Truth, Command
<1>13. \/ Elements(e.completion_ring) = Elements(m.completion_ring)
       \/ \E x : /\ Elements(e.completion_ring) = Elements(m.completion_ring) \cup {x}
                 /\ AnswerOf(m.kv_pages, c, x)
  <2>. DEFINE answers == d.completion_ring
  <2>1. IsRing(answers) BY <1>0 DEF Shape
  <2>2. /\ m.completion_ring = answers
        /\ \/ e.completion_ring = answers
           \/ \E x : e.completion_ring = Append(answers, x) /\ AnswerOf(m.kv_pages, c, x)
    BY <1>2, <1>8
  <2>. HIDE DEF answers
  <2>3. \A x : Elements(Append(answers, x)) = Elements(answers) \cup {x} BY <2>1, Push
  <2>. QED BY <2>2, <2>3
<1>14. m.kv_pages \in [Pages -> Nat]
  BY <1>2, <1>5, <1>8, <1>10
<1>15. Truth(e, cs, Q, next) BY <1>8, <1>11, <1>12, <1>13, <1>14, TruthAnswered
<1>16. e = ServeFault([d EXCEPT !.fault_ring = Tail(@)], Head(d.fault_ring))
  BY <1>4 DEF e, p, ring
<1>. QED BY <1>15, <1>16 DEF next, ring

\* The inductive invariant of the answers.
TruthInv ==
  AccountInv /\ Truth(device, completions, sent, next_physical_page)

LEMMA TruthInit == Init => Truth(device, completions, sent, next_physical_page)
<1>. SUFFICES ASSUME Init PROVE Truth(device, completions, sent, next_physical_page) OBVIOUS
<1>1. /\ Elements(device.completion_ring) = {} /\ Elements(device.command_ring) = {}
      /\ device.pending = {} /\ sent = {} /\ completions = {}
  BY EmptyRing DEF Init
<1>2. Live(device.kv_pages) = {} BY DEF Init, Live
<1>3. \A A : Told({}, A) = {} BY ToldIs
<1>. QED BY <1>1, <1>2, <1>3 DEF Truth, Keyed, Means, Below, Unaliased

LEMMA SubmitTruth ==
  ASSUME TruthInv, Submit
  PROVE  Truth(device', completions', sent', next_physical_page')
<1>1. PICK r \in Requests[next_request_id] :
        next_request_id <= MaxRequests /\ SubmitRequest(r)
  BY DEF Submit
<1>. DEFINE accepted == device.enabled /\ ~ RingFull(device, device.command_ring)
            command == [request_id |-> next_request_id, opcode |-> r.opcode, flags |-> r.flags,
                        graph |-> r.graph, priority |-> r.priority, argument |-> r.argument,
                        retry_count |-> 0]
<1>2. /\ device' = IF accepted
                   THEN [device EXCEPT !.command_ring = Append(@, command)]
                   ELSE IF device.enabled THEN Count(device, "QUEUE_ERRORS") ELSE device
      /\ sent' = IF accepted THEN sent \cup {command} ELSE sent
      /\ UNCHANGED <<completions, next_physical_page>>
  BY <1>1 DEF SubmitRequest
<1>3. /\ Shape(device) /\ next_request_id \in Nat \ {0}
      /\ Partition(Where(device, completions, taken, lost), SentIds)
      /\ \A id \in SentIds : id < next_request_id
      /\ Truth(device, completions, sent, next_physical_page)
  BY DEF TruthInv, AccountInv, Accounts
<1>4. CASE accepted
  <2>1. device' = [device EXCEPT !.command_ring = Append(@, command)] BY <1>2, <1>4
  <2>. DEFINE x == command
              e == device'
              Q == sent
              ring == device.command_ring
  <2>2. /\ DOMAIN device = Fields /\ IsRing(ring) BY <1>3 DEF Shape
  <2>3. /\ e.command_ring = Append(ring, x) /\ e.completion_ring = device.completion_ring
        /\ e.pending = device.pending /\ e.kv_pages = device.kv_pages
    BY <2>1, <2>2 DEF Fields
  <2>4. x.request_id \notin SentIds /\ x.request_id = next_request_id BY <1>3
  <2>5. x.request_id \notin Ids(completions) \cup Ids(Elements(device.completion_ring))
    <3>. DEFINE w == Where(device, completions, taken, lost)
    <3>1. w["driver"] \subseteq SentIds /\ w["answered"] \subseteq SentIds
      BY <1>3, PlacesApart DEF Place
    <3>2. w["driver"] = Ids(completions) /\ w["answered"] = IdsIn(device.completion_ring)
      BY DEF Where
    <3>. QED BY <2>4, <3>1, <3>2, IdsOfElements
  <2>6. Asked(x)
    <3>1. next_request_id \in 1 .. MaxRequests BY <1>1, <1>3, HostAssumption
    <3>. QED BY <1>1, <3>1 DEF Asked
  <2>. HIDE DEF x, ring, e
  <2>7. Elements(e.command_ring) = Elements(ring) \cup {x} BY <2>2, <2>3, Push
  <2>. HIDE DEF Q
  <2>8. Truth(e, completions, Q \cup {x}, next_physical_page)
    <3>1. Truth(device, completions, Q, next_physical_page) /\ x.request_id \notin Ids(Q)
      BY <1>3, <2>4 DEF Q, SentIds
    <3>2. Elements(e.command_ring) = Elements(device.command_ring) \cup {x}
      BY <2>7 DEF ring
    <3>. QED BY <2>3, <2>5, <2>6, <3>1, <3>2, TruthSubmitted
  <2>. QED BY <1>2, <1>4, <2>8 DEF x, e, Q
<1>5. CASE ~ accepted
  <2>1. device' = device \/ device' = Count(device, "QUEUE_ERRORS") BY <1>2, <1>5
  <2>. DEFINE e == Count(device, "QUEUE_ERRORS")
  <2>2. Shape(e) /\ SameBooks(device, e) BY <1>3, CountBooks
  <2>3. e.kv_pages = device.kv_pages BY <1>3, CountKeepsRing DEF Count, Shape
  <2>. HIDE DEF e
  <2>4. Truth(e, completions, sent, next_physical_page)
    BY <1>3, <2>2, <2>3 DEF Truth, SameBooks
  <2>. QED BY <1>2, <1>3, <1>5, <2>1, <2>4 DEF e
<1>. QED BY <1>4, <1>5

LEMMA PollTruth ==
  ASSUME TruthInv,
         \/ ProcessOne \/ ServiceOne \/ Drain
         \/ \E service \in BOOLEAN : Poll(service)
         \/ \E c \in completions : TakeCompletion(c)
  PROVE  Truth(device', completions', sent', next_physical_page')
<1>0. /\ Accounts(device, completions, taken, lost, SentIds) /\ Shape(device)
      /\ next_physical_page \in Nat \ {0} /\ sent \subseteq Command
      /\ Truth(device, completions, sent, next_physical_page)
  BY DEF TruthInv, AccountInv, Accounts
<1>1. CASE ProcessOne
  <2>1. UNCHANGED <<completions, sent, next_physical_page>> BY <1>1 DEF ProcessOne
  <2>2. CASE device.command_ring = <<>> BY <1>0, <1>1, <2>2 DEF ProcessOne
  <2>3. CASE device.command_ring # <<>>
    <3>1. device' = Execute(Count([device EXCEPT !.command_ring = Tail(@)], "ACCEPTED"),
                            Head(device.command_ring))
      BY <1>1, <2>3 DEF ProcessOne
    <3>2. Truth(device', completions, sent, next_physical_page)
      BY <1>0, <2>3, <3>1, ProcessTruth
    <3>. QED BY <2>1, <3>2
  <2>. QED BY <2>2, <2>3
<1>2. CASE ServiceOne
  <2>1. UNCHANGED <<completions, sent>> BY <1>2 DEF ServiceOne
  <2>2. CASE device.fault_ring = <<>> \/ budget = 0 BY <1>0, <1>2, <2>2 DEF ServiceOne
  <2>3. CASE ~ (device.fault_ring = <<>> \/ budget = 0)
    <3>. DEFINE fault == Head(device.fault_ring)
                popped == [device EXCEPT !.fault_ring = Tail(@)]
    <3>1. fault.retry_count = 0 BY <1>0, <2>3, ServeBooks
    <3>2. Truth(ServeFault(popped, fault), completions, sent,
                IF device.kv_pages[fault.address] = 0 THEN next_physical_page + 1
                ELSE next_physical_page)
      BY <1>0, <2>3, ServeTruth
    <3>3. IF fault.retry_count >= 3
          THEN device' = popped /\ UNCHANGED next_physical_page
          ELSE /\ device' = ServeFault(popped, fault)
               /\ next_physical_page' = NextPhysicalPage(fault.address)
      BY <1>2, <2>3 DEF ServiceOne
    <3>. HIDE DEF fault, popped
    <3>4. /\ device' = ServeFault(popped, fault)
          /\ next_physical_page' = NextPhysicalPage(fault.address)
      BY <3>1, <3>3
    <3>. QED BY <2>1, <3>2, <3>4 DEF NextPhysicalPage
  <2>. QED BY <2>2, <2>3
<1>3. CASE Drain
  <2>. DEFINE e == device'
              cz == completions'
  <2>1. /\ cz = {c \in completions : c.request_id \notin Ids(Elements(device.completion_ring))}
                  \cup Elements(device.completion_ring)
        /\ e = [device EXCEPT !.completion_ring = <<>>]
        /\ UNCHANGED <<sent, next_physical_page>>
    BY <1>3 DEF Drain
  <2>2. /\ e.command_ring = device.command_ring /\ e.pending = device.pending
        /\ e.kv_pages = device.kv_pages /\ Elements(e.completion_ring) = {}
    BY <1>0, <2>1, EmptyRing DEF Shape, Fields
  <2>. HIDE DEF e, cz
  <2>3. cz \cup Elements(e.completion_ring)
          \subseteq completions \cup Elements(device.completion_ring)
    BY <2>1, <2>2
  <2>4. Truth(e, cz, sent, next_physical_page) BY <1>0, <2>2, <2>3, TruthShrinks
  <2>. QED BY <2>1, <2>4 DEF e, cz
<1>4. CASE \E service \in BOOLEAN : Poll(service) BY <1>0, <1>4 DEF Poll
<1>5. CASE \E c \in completions : TakeCompletion(c)
  <2>1. PICK c \in completions : TakeCompletion(c) BY <1>5
  <2>. DEFINE cz == completions \ {c}
  <2>2. cz \cup Elements(device.completion_ring)
          \subseteq completions \cup Elements(device.completion_ring)
    OBVIOUS
  <2>. HIDE DEF cz
  <2>3. Truth(device, cz, sent, next_physical_page) BY <1>0, <2>2, TruthShrinks
  <2>. QED BY <2>1, <2>3 DEF TakeCompletion, cz
<1>. QED BY <1>1, <1>2, <1>3, <1>4, <1>5

LEMMA BootKeepsPages ==
  ASSUME NEW d, DOMAIN d = Fields, NEW image, NEW entries, NEW lock_debug
  PROVE  BootDevice(d, image, entries, lock_debug).kv_pages = d.kv_pages
<1>. DEFINE a == Count(d, "BOOT_ATTEMPTS")
            n == Count(a, "BOOT_FAILURES")
            failed == [n EXCEPT !.boot_failed = TRUE, !.status = "FATAL"]
            refused == [failed EXCEPT !.secure_verified = FALSE, !.enabled = FALSE]
            fresh == InitializeQueues(a, entries)
            booted == [fresh EXCEPT
                         !.secure_verified = TRUE, !.boot_failed = FALSE,
                         !.firmware_version = image.security_version,
                         !.otp_minimum_version = Larger(@, image.security_version),
                         !.debug_locked = @ \/ lock_debug,
                         !.enabled = TRUE, !.status = "RUNNING"]
<1>1. BootDevice(d, image, entries, lock_debug)
        = IF ~ RomVerify(d, image) THEN refused
          ELSE IF ~ QueueSizeValid(entries) THEN failed ELSE booted
  BY Zenon DEF BootDevice, BootFailed
<1>2. DOMAIN a = Fields /\ a.kv_pages = d.kv_pages BY CountKeepsRing DEF Count
<1>. HIDE DEF a
<1>3. DOMAIN n = Fields /\ n.kv_pages = d.kv_pages BY <1>2, CountKeepsRing DEF Count
<1>. HIDE DEF n
<1>4. failed.kv_pages = d.kv_pages /\ refused.kv_pages = d.kv_pages BY <1>3 DEF Fields
<1>5. DOMAIN fresh = Fields /\ fresh.kv_pages = d.kv_pages
  BY <1>2 DEF InitializeQueues, Fields
<1>. HIDE DEF fresh
<1>6. booted.kv_pages = d.kv_pages BY <1>5 DEF Fields
<1>. HIDE DEF failed, refused, booted
<1>. QED BY <1>1, <1>4, <1>6

LEMMA ResetPages ==
  ASSUME NEW d, DOMAIN d = Fields, NEW e \in {PowerOn(d), Warm(d)}
  PROVE  e.kv_pages \in {d.kv_pages, [p \in Pages |-> 0]}
<1>. DEFINE q == NoQueues(d)
<1>1. DOMAIN q = Fields /\ q.kv_pages = d.kv_pages
  BY DEF NoQueues, InitializeQueues, Fields
<1>2. PowerOn(d) = [q EXCEPT
         !.status = "BOOT_ROM", !.secure_verified = FALSE, !.boot_failed = FALSE,
         !.debug_locked = FALSE, !.firmware_version = 0, !.kv_pages = [p \in Pages |-> 0]]
  BY DEF PowerOn
<1>3. Warm(d) = [q EXCEPT !.status = IF d.secure_verified THEN "FIRMWARE_READY" ELSE "BOOT_ROM"]
  BY DEF Warm
<1>. HIDE DEF q
<1>4. PowerOn(d).kv_pages = [p \in Pages |-> 0] BY <1>1, <1>2 DEF Fields
<1>5. Warm(d).kv_pages = d.kv_pages BY <1>1, <1>3 DEF Fields
<1>. QED BY <1>4, <1>5

LEMMA BootTruth ==
  ASSUME TruthInv,
         \/ \E image \in Images, lock_debug \in LockDebug : Boot(image, lock_debug)
         \/ PowerOnReset \/ WarmReset
  PROVE  Truth(device', completions', sent', next_physical_page')
<1>0. Shape(device) /\ Truth(device, completions, sent, next_physical_page)
  BY DEF TruthInv, AccountInv, Accounts
<1>. DEFINE e == device'
<1>1. /\ UNCHANGED <<completions, sent, next_physical_page>>
      /\ Elements(e.command_ring) \subseteq Elements(device.command_ring)
      /\ e.pending \subseteq device.pending
      /\ Live(e.kv_pages) \subseteq Live(device.kv_pages)
      /\ \/ Elements(e.completion_ring) = {}
         \/ /\ Elements(e.completion_ring) \subseteq Elements(device.completion_ring)
            /\ e.kv_pages = device.kv_pages
  <2>1. CASE \E image \in Images, lock_debug \in LockDebug : Boot(image, lock_debug)
    <3>1. PICK image \in Images, lock_debug \in LockDebug : Boot(image, lock_debug) BY <2>1
    <3>2. /\ e = BootDevice(device, image, queue_entries, lock_debug)
          /\ UNCHANGED <<completions, sent, next_physical_page>>
      BY <3>1 DEF Boot
    <3>. HIDE DEF e
    <3>3. /\ e.pending = device.pending
          /\ \/ /\ e.command_ring = <<>> /\ e.completion_ring = <<>>
             \/ SameBooks(device, e)
      BY <1>0, <3>2, BootBooks
    <3>4. e.kv_pages = device.kv_pages BY <1>0, <3>2, BootKeepsPages DEF Shape
    <3>. QED BY <3>2, <3>3, <3>4, EmptyRing DEF SameBooks, e
  <2>2. CASE PowerOnReset \/ WarmReset
    <3>1. /\ e \in {PowerOn(device), Warm(device)}
          /\ UNCHANGED <<completions, sent, next_physical_page>>
      BY <2>2 DEF PowerOnReset, WarmReset, Reset
    <3>. HIDE DEF e
    <3>2. e.command_ring = <<>> /\ e.completion_ring = <<>> /\ e.pending = {}
      BY <1>0, <3>1, ResetBooks
    <3>3. e.kv_pages \in {device.kv_pages, [p \in Pages |-> 0]}
      BY <1>0, <3>1, ResetPages DEF Shape
    <3>4. Live([p \in Pages |-> 0]) = {} BY DEF Live
    <3>. QED BY <3>1, <3>2, <3>3, <3>4, EmptyRing DEF e
  <2>. QED BY <2>1, <2>2
<1>. HIDE DEF e
<1>2. completions \cup Elements(e.completion_ring)
        \subseteq completions \cup Elements(device.completion_ring)
  BY <1>1
<1>3. Truth(e, completions, sent, next_physical_page) BY <1>0, <1>1, <1>2, TruthShrinks
<1>. QED BY <1>1, <1>3 DEF e

LEMMA TruthTold == TruthInv => AnswersRight
<1>. SUFFICES ASSUME TruthInv PROVE AnswersRight OBVIOUS
<1>. DEFINE ring == Elements(device.completion_ring)
            answers == completions \cup ring
            Sent(id) == CHOOSE c \in sent : c.request_id = id
            translated == {c \in answers : c.status = "OK"
                                          /\ Sent(c.request_id).opcode = "KV_TRANSLATE"}
            L == Live(device.kv_pages)
<1>1. /\ Keyed(sent) /\ Means(sent, answers)
      /\ Unaliased(Told(sent, answers) \cup L) /\ Told(sent, ring) \subseteq L
  BY DEF TruthInv, Truth
<1>2. Ids(answers) \subseteq SentIds
  <2>. DEFINE w == Where(device, completions, taken, lost)
  <2>1. Partition(w, SentIds) BY DEF TruthInv, AccountInv, Accounts
  <2>2. w["driver"] \subseteq SentIds /\ w["answered"] \subseteq SentIds
    BY <2>1, PlacesApart DEF Place
  <2>3. w["driver"] = Ids(completions) /\ w["answered"] = IdsIn(device.completion_ring)
    BY DEF Where
  <2>. QED BY <2>2, <2>3, IdsOfElements DEF Ids
<1>3. ASSUME NEW c \in answers
      PROVE  Sent(c.request_id) \in sent /\ Sent(c.request_id).request_id = c.request_id
  <2>1. \E q \in sent : q.request_id = c.request_id BY <1>2 DEF Ids, SentIds
  <2>. QED BY <2>1
<1>. HIDE DEF Sent, L
<1>4. ASSUME NEW c \in answers,
             Sent(c.request_id).opcode = "SUBMIT_GRAPH", ~ Sent(c.request_id).flags
      PROVE  MayAnswer(Sent(c.request_id).graph, Sent(c.request_id).priority, c)
  <2>1. Sent(c.request_id) \in sent /\ Sent(c.request_id).request_id = c.request_id BY <1>3
  <2>. DEFINE r == Sent(c.request_id)
  <2>2. r \in sent /\ r.request_id = c.request_id /\ r.opcode = "SUBMIT_GRAPH" /\ ~ r.flags
    BY <1>4, <2>1
  <2>. HIDE DEF r
  <2>3. MayAnswer(r.graph, r.priority, c) BY <1>1, <2>2 DEF Means
  <2>. QED BY <2>3 DEF r
<1>5. ASSUME NEW c \in translated
      PROVE  <<Sent(c.request_id).argument, c.result>> \in Told(sent, answers)
  <2>. DEFINE r == Sent(c.request_id)
  <2>1. /\ r \in sent /\ r.request_id = c.request_id /\ r.opcode = "KV_TRANSLATE"
        /\ c \in answers /\ c.status = "OK"
    BY <1>3
  <2>. HIDE DEF r, answers
  <2>2. <<r.argument, c.result>> \in Told(sent, answers) BY <2>1, ToldIs
  <2>. QED BY <2>2 DEF r
<1>6. ASSUME NEW c \in translated, NEW e \in translated, c.result = e.result
      PROVE  Sent(c.request_id).argument = Sent(e.request_id).argument
  <2>. DEFINE m == <<Sent(c.request_id).argument, c.result>>
              n == <<Sent(e.request_id).argument, e.result>>
  <2>1. m \in Told(sent, answers) /\ n \in Told(sent, answers) BY <1>5
  <2>2. m[2] = n[2] BY <1>6
  <2>3. m[1] = n[1]
    <3>. HIDE DEF m, n, answers
    <3>. QED BY <1>1, <2>1, <2>2 DEF Unaliased
  <2>. QED BY <2>3
<1>7. ASSUME NEW c \in translated \cap ring
      PROVE  c.result = <<"page", device.kv_pages[Sent(c.request_id).argument]>>
  <2>. DEFINE r == Sent(c.request_id)
  <2>1. /\ r \in sent /\ r.request_id = c.request_id /\ r.opcode = "KV_TRANSLATE"
        /\ c \in ring /\ c.status = "OK"
    BY <1>3
  <2>. HIDE DEF r, ring
  <2>2. <<r.argument, c.result>> \in Told(sent, ring) BY <2>1, ToldIs
  <2>3. <<r.argument, c.result>> \in L BY <1>1, <2>2
  <2>4. c.result = <<"page", device.kv_pages[r.argument]>> BY <2>3 DEF L, Live
  <2>. QED BY <2>4 DEF r
<1>. HIDE DEF translated, answers, ring
<1>8. /\ \A c \in answers :
           LET r == Sent(c.request_id)
           IN  r.opcode = "SUBMIT_GRAPH" /\ ~ r.flags => MayAnswer(r.graph, r.priority, c)
      /\ \A c, e \in translated :
           c.result = e.result => Sent(c.request_id).argument = Sent(e.request_id).argument
      /\ \A c \in translated \cap ring :
           c.result = <<"page", device.kv_pages[Sent(c.request_id).argument]>>
  BY <1>4, <1>6, <1>7
<1>. QED BY <1>8 DEF AnswersRight, translated, answers, ring, Sent

\* Every answer belongs to its request, is what the request means, and tells no
\* physical page for two virtual pages, through replays, overflows, resets and
\* second boots.
THEOREM AnswersBelong == Spec => []AnswersRight
<1>1. Init => TruthInv BY AccountInit, TruthInit DEF TruthInv
<1>2. TruthInv /\ [Next]_vars => TruthInv'
  <2>. SUFFICES ASSUME TruthInv, [Next]_vars PROVE TruthInv' OBVIOUS
  <2>1. AccountInv' BY AccountStep DEF TruthInv
  <2>2. Truth(device', completions', sent', next_physical_page')
    <3>1. CASE UNCHANGED vars BY <3>1 DEF vars, TruthInv
    <3>. QED BY <3>1, SubmitTruth, PollTruth, BootTruth DEF Next
  <2>. QED BY <2>1, <2>2 DEF TruthInv
<1>. QED BY <1>1, <1>2, TruthTold, PTL DEF Spec


=============================================================================
