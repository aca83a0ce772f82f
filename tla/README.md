# A TLA+ model of xennet

xennet connects a Xen guest to a VALE bridge in Dom0. The rings and packet
buffers of the bridge port are granted to the guest, which works on them
directly; two event channels per interface, one for each direction, carry the
notifications. Loadable modules replace the bridge's lookup function. This
directory holds TLA+ modules of the parts that must agree
across the two domains, TLC configurations for them, and TLAPS proofs.

## The system

| Part | State | Operations |
|---|---|---|
| netfront transmit (`netfront_netmap_linux.h`) | kring of the application, control block (`txcur`, `host_need_txkick`, `guest_need_txkick`) | `netfront_netmap_txsync`, `netfront_netmap_xmit`, `netfront_tx_interrupt` |
| netfront receive | kring of the application, `host_need_rxkick` | `netfront_netmap_rxsync`, `netfront_rx_interrupt` |
| netfront mode | carrier | `netfront_netmap_reg` |
| shared rings | `head`, `cur`, `tail`, slot lengths, buffers | written by both sides |
| netback kernel thread (`netback_netmap_linux.h`) | `vwna->guest_need_txkick`, `vwna->guest_need_rxkick`, the vwna it started with | `xenvif_netmap_irqsched`, `xenvif_netmap_kthread`, `xenvif_netmap_irq` |
| netback life of a vif (the same, and the netback patch) | IFF_UP, carrier, bound event channels, how often each irq is disabled, rings enabled or stopped, bridge, one vwna per registration | `xenvif_open`, `xenvif_close`, `xenvif_netmap_up`, `xenvif_netmap_down`, `xenvif_netmap_reg`, `xenvif_connect`, `xenvif_carrier_off`, `xenvif_disconnect`, `xenvif_free` |
| netback notification | kring of the port, `nr_busy` | `xenvif_notify`, `xenvif_netmap_rxsync` |
| grant sharing (both headers) | `nm_grant_ring` of each ring, grant table, references in xenstore and in the slots, mappings of the guest | `xenvif_netmap_map`, `xenvif_netmap_unmap`, `setup_netfront_netmap`, `xennet_netmap_disconnect` |
| static lookup modules (`bdgfn/mac-static.c`, `ip-static.c`, `bdgfn.c`) | a table and a control port per bridge | `lookup2`, `lookup3`, `bdgctl` with BDGIOCREG, BDGIOCADDIF, BDGIOCLIST, load and unload |
| learning lookup (`bdgfn/learn.c`, `bdgfn_kern.h`) | the bridge's table | `bdg_learning`, `lsb_learning`, load and unload |
| `bdgfnctl` (`bdgfnctl.c`, `bdgfn.c`) | one request | `parse_options`, `bdgaddif`, `bdgfnreg`, `bdglistif`, `bdgdelif`, `bdgfnctlport` |
| `hashtest`, hotplug script, rest of the kernel patches, ixgbe header | none of interest | |

How they interact. Transmit: an application fills slots and calls txsync; xmit
copies each packet into the shared ring and, when `host_need_txkick` is set,
publishes everything, sets `guest_need_txkick` and sends an event. The backend
handler sets `vwna->guest_need_txkick` and wakes the thread, which lets VALE
forward the published slots, clears the flag and sends an event back; the
guest's handler sets `host_need_txkick` and clears `guest_need_txkick`.
Receive: a thread forwarding to the port puts packets into the ring and calls
`xenvif_notify`, which publishes the tail and, when `vwna->guest_need_rxkick`
is set, clears it and sends an event. The guest's handler sets
`host_need_rxkick`; rxsync imports only while it is set, then resets it and
sends an event, upon which the kernel thread sets `guest_need_rxkick` again.

Setup: when the hotplug script attaches the vif to the bridge, the backend grants
the pages of rings and buffers and writes the references of ring pages to
xenstore, those of buffer pages into the slots; then the script sets
`feature-netmap`, upon which the guest reads the references and maps the pages.
Lookup: a thread that forwards on a bridge calls the bridge's lookup function
for every packet; operators change the tables of the static ones with ioctls.

What is hard: the flags are a hand-made protocol of "permissions to notify" that
no test exercises in all orders; txsync and rxsync take no lock against the
interrupt handlers; several forwarding threads share a port; netmap mode can be
left and entered with notifications under way; the two directions share one
kernel thread; a vif outlives its guests, whose flags and channels come and go
while the interface is taken up and down, put on its bridge and off; the number
of pages is a count in some places and a last index in
others, and a guest may connect, leave or die at any point of the setup; lookup
functions and ioctls work on the same tables without a lock and modules may go
while a bridge uses them. `PROJECT.json` lists the hazards, each at its line.

What makes the parts correct: each direction is a FIFO channel (no packet lost,
duplicated, reordered or overwritten); a permission to notify is never lost, and
comes back; nobody waits for ever while there is work; interrupts are enabled and
disabled in pairs and no event is sent on a channel that is gone; backend and guest mean the
same memory by "slot i's buffer" and no grant outlives its vif; a lookup answers
with a port that was learnt or named for the address, and its code is there.

## Modules

- `NetmapRing`: index arithmetic of a ring of N slots (`NETMAP_RING_NEXT`,
  `nm_ring_space`, netmap's `nm_prev`, and what its prologues accept).
- `NetmapRingTheorems`: lemmas about it, for every N.
- `Counting`: lemmas about numbers and finite sets that several proofs use, among
  them induction over the numbers in the form of a set that holds them all.
- `VifTx`: the transmit path. The guest's txsync is at `gpc` (idle, send, kick,
  notify, reclaim), the interrupt handler at `ipc`, the kernel thread at `kpc`.
  One action per stretch of code no other context can see inside of. xmit is
  XmitCopy, then XmitNoKick, or XmitPublish and XmitNotify; the handler is
  TxInterrupt and TxInterruptClear because its two stores race with xmit's.
  xenvif_netmap_irq(vif, 1) is TxPrologue, VpTxsync (VALE, external) and TxAck;
  xenvif_netmap_irq(vif, 0) is RxWork.
- `VifTxProofs`: theorems about VifTx.
- `PacketChannel`: what one direction promises, a bounded FIFO channel.
- `VifRx`: the receive path. rxsync is RxsyncCall, RxImport, RxAck, RxRelease; a
  sender is Deliver or DeliverRetry (VALE, external), then xenvif_notify as
  NotifyBusy, or NotifySync and NotifyKick.
- `VifRxProofs`: theorems about VifRx, the refinement of PacketChannel among them.
- `MCVifRx`: VifRx with interchangeable senders, for TLC.
- `Vif`: both directions with their real flags and one kernel thread, without
  rings, over the whole life of a vif. The xenbus thread (`bpc`) is in
  xenvif_connect (tx, rx, task, wake) or xenvif_disconnect (stop, join); the
  kernel thread (`kpc`) keeps the vwna it began with in `kv`, xenvif_netmap_irq
  that of its call in `iv`; xenvif_notify (`npc`) takes the ring, then sends (the
  carrier it tests is that of the bridge port's own ifnet, which nobody turns
  off). xenvif_open, xenvif_close and the two carrier changes are one action
  each, under rtnl_lock. The guest enters and leaves netmap mode (GuestOn,
  GuestOff); an event that reaches it outside netmap mode is consumed without
  effect. `dropped` and `mapped` are history, for the properties: `dropped` has
  the directions in which an event somebody waits for was discarded, by
  xenvif_netmap_irqsched or by the guest between two sessions.
- `VifProofs`: theorems about Vif.
- `Grants`: from attaching a vif to its bridge to a connected guest, and back.
  BridgeAttach is xenvif_netmap_map as a whole (xenstore and grant table calls of
  the backend run under netmap's lock, before `feature-netmap` is set);
  setup_netfront_netmap is one action per mapping, wait or read, because the vif
  may be taken off or put back in between and the guest may die. VifFree is
  xenvif_netmap_unmap, at any time: when the guest has left, or by force in the
  middle of its setup. VifFault is the same when the grant table had run out:
  a negative reference reaches gnttab_end_foreign_access, and what follows it is
  not ended. Grant table, Xen's mapping operation and netmap's buffer allocation
  are external.
- `GrantsProofs`: theorems about Grants.
- `BdgCtl`: bdgfnctl, from a command line to the request of an ioctl. PortOf is
  the port a line takes effect with.
- `BdgStatic`, `MCBdgStatic`: mac-static and ip-static, with an operator who gives
  command lines, a listing and a forwarding thread. The stores of address and port, the steps of
  BDGIOCREG and the iterations of rt_init and bdglist are actions of their own.
  A function of a module that was unloaded is Gone, also once the module is loaded
  again: it lies elsewhere then.
- `BdgStaticProofs`: theorems about BdgCtl and BdgStatic.
- `BdgLearn`, `MCBdgLearn`: the learning functions on one table, used by several
  forwarding threads. The two stores and the two reads of an entry are actions of
  their own; `mixed`, a history, has the slots where another thread came between
  the stores.
- `BdgLearnProofs`: theorems about BdgLearn.

Definitions marked "Mutated" are deliberately wrong variants of the definition
that follows them; TLC must reject each of them, which shows that the property
it is paired with in `PROJECT.json` depends on that piece of code.

Abstractions. A packet is a number; in VifTx a slot has the number of the packet
whose length and of the packet whose bytes it holds, since xmit stores the two
separately. `head` and `cur` of a ring, and `txhead` and `txcur`, are always
stored together. Guest and backend rings have the same size
(`netfront_netmap_attach`). `netmap_no_pendintr` has its default 1. Applications
use the netmap API correctly, so the `netmap_ring_reinit` exits are not taken.
In VifTx and VifRx the vif is attached to its bridge and up, which Vif does not
assume; Vif in turn has no rings, and takes vifs with netmap and split event
channels only. netmap calls xenvif_netmap_reg with the bridge locked against
forwarding threads. An event channel is one pending bit. In Grants a page is named by what lies in it, and buffers are
consecutive half pages, as netmap hands them out to a new port. Allocations
succeed. Command lines give what their command uses (LinesAssumption), because the
request lies in uninitialised memory; in an addif line the last address is of the
device's kind; bridges, addresses and ports are those that there are. A new vif
takes the place of one that is gone only after the guest has left the old
device. A vif that is put back on its bridge has its rings and buffers in the same
pages as before: xenvif_netmap_map returns early without looking, and the model
does not follow netmap's allocator. A negative reference makes the thread that
removes the vif stop there. In the lookup modules an address is a number with a hash value chosen
per run so that addresses collide; a group address is one value. BdgLearn stops
where a lookup would run into unloaded code, which BdgStatic looks at.

## Runs

Passing:

| Run | Setting | Shows |
|---|---|---|
| `tx_fifo` | N=5, 10 packets, one session, one processor, attach event answered, no receive traffic | LengthLap, SingleCredit, ReclaimCompleted, TxRoom, TxForwarded, TypeOK |
| `tx_kicks` | N=3, 4 packets, two sessions, two processors, attach event pending, receive traffic | KickAnswered, FlagExclusion |
| `rx_channel` | N=3, two senders, packets told apart modulo 5, guest opens at any time | ChannelSpec (refinement of PacketChannel), RegionOrder, TypeOK |
| `rx_kicks` | N=3, two senders, transmit work too | RxKickAnswered, RxRearmed, TailPublished, RxImported |
| `vif_life` | two registrations, any number of guests and of sessions of netmap mode, connects that fail | IrqPaired, NotifyBound, KickServed, RxPermission, StopEnds, TypeOK |
| `grants` | rings of 2 pages and 4 slots, 16 references of which others may have 3, two vifs, two attachments each, removal at any time | RingShared, BuffersShared, GrantsBalanced, SetupEnds, TypeOK |
| `bdg_static` | one bridge, 2 slots, 3 MAC addresses and 1 IP address, 12 command lines, with a MAC address before and behind the port and with both kinds of address, 3 ioctls | EntrySaid, IpNamed, ListComplete, TypeOK |
| `bdg_learn` | two threads, 2 addresses that collide under one of the two functions, 2 ports | FoundDst, FoundShared, TypeOK |

Violated, each stating what a comment of the code says:

| Run | Property | What TLC finds |
|---|---|---|
| `tx_payload` | PayloadIntact | xmit stores bytes by `ring->cur` and length by `txcur`; packets accepted without a kick overwrite each other's bytes |
| `tx_overrun` | LengthFifo | in a ring of 5, reclaim goes up to `txhead`, past packets accepted and not published; the application fills the ring again and a published slot is overwritten before it is forwarded |
| `tx_skip` | LengthLap | receive work moves `nr_hwcur` of the transmit ring; packets are lost |
| `bdg_unload` | FnPresent | unloading a static module registers its own copy of bdg_learning, on bridge 0 only; the next lookup runs into code that is gone |

More disagreements show up when the constants or the specification of these runs
are changed:

- ReclaimCompleted fails in `tx_fifo` with GuestCPUs=2: txsync takes no lock, and a
  kick it sends between the handler's `host_need_txkick = 1` and
  `guest_need_txkick = 0` loses its flag to the second store; unforwarded slots are
  reclaimed.
- LengthLap fails in `tx_fifo` with RxTraffic=TRUE, which is what `tx_skip` shows.
- TxForwarded fails in `tx_fifo` with AttachEvent=1: the extra event of
  `netfront_netmap_attach` makes a second permission, two kicks can merge between
  nm_txsync and `guest_need_txkick = 0`, and a guest with a full ring cannot kick
  again.
- RxImported fails without its condition on RxInterrupt: an interrupt between the
  two tests of `host_need_rxkick` is answered without importing, which may repeat.
- RxRearmed fails in `rx_kicks` with EarlyTraffic=TRUE: a packet that arrives
  before netmap mode uses up the only interrupt.
- TxRoom fails in `tx_fifo` with MaxRegs=2: the answer to a kick is dropped while
  the carrier is off, and the next session neither kicks nor reclaims.
- The rest of a burst is accepted and nr_hwcur passes it, but it is never
  published if the application stops sending (XmitNoKick).
- RxImported fails without its condition that the bridge keeps delivering: a
  packet that arrived while the permission was away waits for the next one.
- TailPublished fails without its condition that the bridge keeps delivering: a
  sender that finds the ring busy drops its notification, and if no packet
  follows, its own stays invisible.
- KickServed fails without `dropped`: xenvif_netmap_irqsched discards a kick that
  comes between binding the channel and disable_irq, before the carrier is on, or
  while the vif is off its bridge; the guest does not repeat it.
- KickServed and RxPermission fail without `dropped` for a second reason: the
  guest's handlers test the carrier, so an answer or an interrupt that arrives
  between two sessions of netmap mode is lost, and nobody repeats it. The next
  session can then not kick, or is not interrupted until something else wakes the
  kernel thread.
- KickServed and RxPermission fail without `mapped = cur`: after the vif was put
  back on its bridge the kernel thread waits on the vwna it started with, while
  the handler sets the flags of the new one.
- NotifyBound fails without `rings # "fresh"`: rings are stopped by
  xenvif_netmap_down only if the interface is up, and xenvif_disconnect does not
  reset `rx_irq`.
- `!(ifp)->flags & IFF_UP` in xenvif_netmap_reg is true only if no flag at all is
  set: a vif that is down is put on its bridge all the same.
- A regfn line that gives a MAC address behind the port registers another port
  than it says: sscanf clears the lowest byte of `bdg_port`. EntrySaid and IpNamed
  therefore speak of PortOf; with the port the line says they fail.
- EntrySaid fails with an addif line that has an address of the other kind behind
  that of its device (BdgCtl.Complete excludes it): `-m` and `-4` share their place
  in the request and the later one is stored, whatever the device. The proof of
  EntriesSaid brought this to light.
- SetupEnds fails without `vif # "up"`: a guest whose vif is removed by force
  before it has mapped a ring waits for that ring for ever. It fails without
  `~Exhausted` as well, and freeing a vif whose grants did not all succeed breaks
  off (VifFault).
- SetupEnds and RingShared fail in `grants` with LostCommits={TRUE, FALSE}: the
  error of xenbus_transaction_end in xenvif_netmap_map is ignored, so a
  conflicting transaction is not repeated, and the guest waits for a ring it
  cannot map or uses the references of the vif before.
- BuffersShared fails without its condition on `buf_ref` (nm_buf_pages compares
  the first page with uninitialised memory, which may be the array of the vif
  before), and, with an odd TxBase, without its condition on BufBase (the guest
  takes the first slot's buffer to be at the start of a page).
- After a vif was put back on its bridge the slots may hold no references, and a
  guest that connects then maps no buffers (`attaches > 1` in BuffersShared).
- FoundDst fails in `bdg_learn` without its condition on other threads: between
  the stores of address and port another thread finds the address with the port of
  the one before, and two threads that learn in the same slot may leave the
  address of one with the port of the other. FoundShared is what remains.
- lookup2 and lookup3 use the table of bridge 0 whichever bridge calls them, and
  lookup2 does not compare the address it looks up, so the properties of
  BdgStatic speak of bridge 0 and of ports, not of addresses.

Bounds. N=3 is the smallest ring with more than one usable slot and a wrap in
few steps. N=5 in `tx_fifo` and `tx_overrun` is the smallest ring in which two
packets can wait unpublished next to a burst that passes them: with N=4 and nine
packets LengthFifo still holds. MaxPkts lets the transmit ring wrap twice; the receive path is unbounded, with packets
numbered modulo SeqMod, which exceeds the 2(N-1) packets that can be under way
in `rx_channel`. Packet identity does not affect the control flow, so the
liveness runs use SeqMod=1. MaxRegs=2 is one re-entry; in
`vif_life` it is one vwna that others may still hold and one that replaced it,
and guests come and go without a bound. In `grants` two vifs are
needed for left-over grants and stale memory, two attachments for putting a vif
back, and 16 references let a second vif run out while the guest keeps the
mappings of the first; two pages and four slots tell a count from a last index
in both arrays. In `bdg_static` three ioctls are a registration and an addition
on top of another registration or an overwritten entry. In `bdg_learn` two
threads are one that is between its accesses and one that comes between; two
addresses are enough to share a slot, or not, by the function, and two ports to
tell the right one from the other's. Deadlock is checked in
`bdg_learn` only: in the other models the system may rest, after the last
session, vif or ioctl of the bound.

Fairness. Pending events are delivered, started calls and the kernel thread run
on (weakly fair): the code never blocks inside them. The application keeps
polling, and on the receive side keeps consuming (strong, as polls without
consumption may come in between). Bridge traffic is assumed by RxImported and
TailPublished only.
In Vif neither the administrator nor the guest has to do anything, except that a
guest in netmap mode that was interrupted answers. In Grants only setup_netfront_netmap runs on,
once started.

## Proofs

Every invariant and action property of the passing runs is also a theorem; the
theorems carry the name and statement of the property the run checks.

`VifTxProofs`, for every N >= 2 (NAssumption) and every setting of the other
constants (TxAssumption):

- TypeCorrect: `Spec => []TypeOK`, by index, control and packet part.
- FlagsExclude: `Spec => []FlagExclusion`; the property is inductive given the
  control types.
- CreditKept: `Spec => []KickAnswered`. Strengthened with FirstCredit: before the
  first session the initial permission is unused, else NetmapOn could start a
  session without one.
- CreditSingle: `Spec => []SingleCredit`. Strengthened with CreditPlace: whose
  hand the one permission is in. Without "xmit about to notify still has
  `host_need_txkick` = 1" and "the thread past its test still has
  `vwna->guest_need_txkick` = 1", XmitNotify and TxAck would seem to create one.
- ReclaimsCompleted: `Alternating => (Spec => ReclaimCompleted)`. Alternating is
  the setting of `tx_fifo`: one session, one processor, no attach event, no receive
  work. With two processors or a pending attach event TLC has a counterexample; with
  receive work or a second session it has none on N=3 and five packets, but the
  proof does not cover them. Strengthened with KickOrder: `guest_need_txkick` is set from before a kick until after its
  answer, and while it is clear all that was published was forwarded.
- LappedOnce: `Alternating => (Spec => []LengthLap)`. Strengthened with AppBeside
  (where the application's ring stands beside `txcur`), LeadBound (`txcur` is less
  than two laps ahead of the backend; it may well be more than one, which is why
  LengthFifo fails) and LengthsDue (the length in each slot that is still to be
  forwarded is that of its packet or of the one a lap later).

`VifRxProofs`, for every N >= 2, any set of senders and packet numbering:

- TypeCorrect: `Spec => []TypeOK`, by index, packet and control part.
- RxKickKept: `Spec => []RxKickAnswered`. Strengthened with FirstKick: before the
  first session no sender has used up the permission.
- RegionsKept: `Spec => []RegionOrder`, over all sessions. Strengthened with
  PlaceKept, the guest's place between rxsync's steps.
- ChannelRefined: `MaxRegs <= 1 => (Spec => ChannelSpec)`. The initial states map
  to initial states of PacketChannel and each step to a send, a receive or a
  stutter; ChannelInv says which packet each slot of the shared ring and of the
  application's ring holds. Leaving netmap mode drops the application's ring, so
  the statement is about one session.

`VifProofs`, for every number of registrations (VifAssumption):

- IrqsPaired: `Spec => []IrqPaired`. Strengthened with PhaseInv, which ties
  carrier and channels to the place of the xenbus thread, and DepthInv: after
  xenvif_connect has disabled an irq, only NetmapUp under carrier enables it.
  Without "no carrier while connecting" xenvif_open could enable it once more.
- NotifiesBound: `Spec => []NotifyBound`. Strengthened with ThreadInv (a running
  thread has both channels and connect has ended) and RingInv (rings are enabled
  only while up with carrier, and not stopped while one is held).
- TypeCorrect: `Spec => []TypeOK`, by device, backend, vwna and guest part.

`GrantsProofs`, for all sizes of rings, buffers and grant table and any number of
vifs and attachments (GrantAssumption):

- GrantsKept: `Spec => []GrantsBalanced`. Strengthened with ArraysOK and TableOK:
  what the reference arrays and the grant table may hold at each stage. It is here
  that "count in one array, last index in the other, same loop bound" is shown to
  revoke exactly what was granted; FaultEnds and FaultArrays are the case of a
  table that ran out.
- TypeCorrect: `Spec => []TypeOK`.
- RingsShared: `Committed => (Spec => []RingShared)`, where Committed says that
  the backend's xenstore transactions do not fail (LostCommits has no TRUE). The
  hypothesis is needed, see above. Strengthened with RingsGranted (the k-th
  reference in xenstore is the k-th page), Handshake (a guest starts only on a vif
  whose rings are granted), RingMaps (what it has mapped so far) and GuestRefs: a
  guest whose vif goes away during its setup keeps references of that vif only,
  which map to their page or to nothing.
- SlotsShared: `Committed => (Spec => []BuffersShared)`. Strengthened with
  BufsGranted and BufMaps, the same for buffer pages. That two slots share a page,
  so that the guest's i / 2 is the backend's count of page changes, is EvensCount
  and NextElement of Counting.

`BdgStaticProofs`, for all addresses, hash functions, numbers of bridges and slots
(StaticAssumption) and all command lines of LinesAssumption, with any number of
options in any order, except that an addif line has its own kind of address last:

- TypeCorrect: `Spec => []TypeOK`. Its part RequestOK (the ioctl under way has
  the request of a line that was given) is what the others rest on. It in turn
  rests on LineRequest: parse_options leaves in each field a command uses the value
  of the last option that sets it, and in `bdg_port` that value less its lowest
  byte if a MAC address follows (PortOf). ParseSteps unfolds the fold over the
  options, FieldsAll goes through them by induction, with BehindStep for what
  follows what.
- ListsComplete: `Spec => []ListComplete`. Strengthened with Ahead: what the
  listing must show was shown or lies at or behind its position.
- EntriesSaid: `Spec => []EntrySaid`. Strengthened with MacSaid and IpSaid: the one
  entry between its two stores has the request's address, all others are what a
  line said.
- PacketsNamed: `Spec => []IpNamed`. Strengthened with MacNames (lookup2 answers
  NM_BDG_NOPORT or a named port), IpNames and LoopNames (each port of bridge 0's
  table is named once it is set up, and up to the loop index before) and
  PacketNames (so is that of a packet inside of lookup3).

`BdgLearnProofs`, for all addresses, ports and hash functions (LearnAssumption):

- TypeCorrect: `Spec => []TypeOK`. Strengthened with Carried: a thread that stores
  or reads has a packet with a unicast address for it.
- SharedFound: `Spec => FoundShared`. Strengthened with SharedInv: the port of each
  entry is one of its slot, and its address, as well as the destination a thread
  has found, has been a source.
- UndisturbedFound: `Spec => FoundDst`. Strengthened with CleanInv: an entry whose
  slot is not mixed has a port its address came in on, unless a thread is between
  its two stores there; and a thread between two accesses has its own address
  there.

Only model-checked: liveness, which the prover does not support under fairness
(TxRoom, TxForwarded, RxRearmed, TailPublished, RxImported, KickServed,
RxPermission, StopEnds, SetupEnds).

## The plan, and what is not modelled

Left of the plan: ReclaimsCompleted with receive work and for several sessions, and
what single steps contribute to the liveness properties, as far as it is safety (a
kick that is pending stays pending until it is taken).

Not modelled:

- rings and life of a vif in one module: VifTx and VifRx have the rings, Vif the
  rest, and their product is out of TLC's reach;
- of bdgfnctl what it prints, delif and port (they change nothing), and lines
  that leave a field of the request uninitialised;
- of the kernel patches the path of vifs without netmap (stock code) and the
  xenbus state machine, which is in the guards of Vif and Grants;
- the mixing inside the hash functions: their values are parameters;
- error exits for applications that pass invalid ring indices, and failing
  allocations in the front end;
- hashtest (a measurement), the ixgbe header (third-party declarations), the
  hotplug script beyond `feature-netmap`, and the build (I/O).
