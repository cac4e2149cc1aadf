# Verification of the RX64M Ethernet firmware

TLA+ models, model-checking runs and machine-checked proofs for the firmware in
this repository: a bare-metal program for the Renesas RX64M with an Ethernet
driver for two channels, the T4 TCP/IP library, DHCP and DNS clients, FTP and
HTTP servers, a FAT file system and a USB mass storage host. There is no
operating system. One main loop (`src/main.c`) polls every component; interrupt
handlers preempt it. The Ethernet interrupt and the compare match timer have the
same priority (2): each runs to its end without the other, and both interrupt
the main program between any two of its instructions. The TCP/IP library runs
inside these two interrupts (`timer_interrupt`, `lan_inthdr` call
`_process_tcpip`), and so do the callbacks of the DNS client and of the servers.
Nearly everything that is hard here comes from that: the main program reads a
flag or a state, an interrupt changes it, and the main program acts on what it
read.

## Inventory

| Component | State | Operations and partners | What makes it correct |
|---|---|---|---|
| Ethernet power control, `r_ether_rx.c` | `etherc_edmac_power_cont`, two hardware locks, module stop bits | `R_ETHER_Control` POWER_ON/OFF for either channel; the PHY of a channel may hang on the other channel's module | a module runs exactly while a powered channel needs it |
| Ethernet rings, `r_ether_rx.c` | receive and transmit descriptors, `papp_rx_desc`, `papp_tx_desc`, EDMAC pointers and run bits | `R_ETHER_Read_ZC2`, `_BufRelease`, `Write_ZC2_GetBuf`, `_SetBuf`, called by `lan_read`, `rcv_buff_release`, `lan_write`; the EDMAC runs beside them | a held buffer is not overwritten; frames keep their order; nothing stays in a stopped ring |
| Ethernet link, `r_ether_rx.c`, `phy.c`, `ether_callback.c` | `lchng_flag`, `mpd_flag`, `transfer_enable_flag`, `link_detect`, ECSR, ECMR, PHY status | `R_ETHER_LinkProcess` (polled), `ether_int_common` (interrupt), `R_ETHER_WakeOnLAN`, `lan_open/close/reset`, callbacks | the transfer flag follows the cable, whatever the interleaving |
| DNS client, `r_dns_client.c` | `dns_mng`, `TRANSACTION_ID`, `name_table`, `wait_timer` | `R_dns_process` (polled), `R_dns_resolve_name` (from the HTTP server, in interrupts), `dns_callback` (interrupts) | one call per request, to the right caller; bounded retries; every request ends |
| DHCP client, `r_dhcp_client.c` | `wait_timer`, `DHCP` record, receive ring of channel 0 | once, before `tcpudp_open`; polls the ring against `wait_timer` | ends without a server; the address configured was leased to this board |
| Compare match timers, `r_cmt_rx.c`, `timer.c` | channel table, lock bits, module stop | create/stop from main and callbacks; interrupt handlers | a module that two channels share stops only when neither counts: the clock goes on whatever T4's timer does |
| T4 driver, `t4_driver.c` | `wait_timer`, `tcpip_flag`, interrupt masks | glue between the library, timer and Ethernet | the timer counts while someone waits for it |
| FTP server, `r_ftp_server.c` | per-session command and data state | callbacks and `R_ftpd` hand work to each other | no leaked file; no false "complete"; every reset of the session ends; the dialogue does not hang |
| HTTP server, `r_http_server.c`, `r_http_server_cgi_sample.c` | per-endpoint `status`, buffers | callbacks and `R_httpd`; pending CGI responses | every accepted request is answered and closed |
| File driver, `r_file_driver_external.c` | `id[]`, the table of open files | called by both servers from callbacks and from the main program | an entry belongs to one user and is given back |
| TFAT interface, `r_tfat_drv_if_usb.c` | the answer it waits for | `disk_read`, `disk_write`, called by the FAT library; they run the USB tasks until they are answered | success means that the device did it; every access ends |
| USB scheduler, `r_usb_cscheduler.c` | pool of blocks, queues by priority, the picked message | tasks send, interrupts send, the main loop and the disk accesses run tasks | a block is in one place |
| USB host driver, manager and hub | pipes, device tables, modes | a transfer is a message, its interrupt another, its callback a third | every transfer ends; a detach ends all |
| USB storage class, `r_usb_hmsc_*.c`, `r_usb_hstorage_driver.c`, `r_usb_hmsc_apl.c` | process and sequence numbers, wrappers, drives | commands in stages, recovery from stalls, search and mount of a new device | a result belongs to the command that asked |
| Board support, register access, peripheral driver, libraries | hardware | | not modelled (pure I/O, not built, or without source) |

`PROJECT.json` lists every part with its status and every hazard at its line.

## Plan

Order: the code whose failure stops all communication first.

1. `EtherPower`, `EtherRing`, `EtherLink`, then the first client, `Dns`, and the
   first server, `Http`, each with an inductive invariant and proofs.
2. `Ftp`, the larger server, with the table of files it shares with `Http`.
3. The USB memory under the servers' files: `UsbScheduler`, `UsbHost`,
   `UsbHmsc` as operators on one state, composed in `UsbStorage` with the main
   loop and the interrupts that run them.
4. `Startup`: the timers (`Cmt`), the DHCP exchange (`Dhcp`) and the order of
   `main`; `SysTime`, the calendar.

All four are done. What would come next: the hand-over between `Http` and `Dns`
through the one `cgi_dns_cepid`, hubs and the single requests of an enumeration.

Runs are kept at small bounds: two of everything that can be confused (channels,
descriptors, requests, sessions, addresses), one more event than needed to come
back to a used slot.

## Modules

| Module | What it models |
|---|---|
| `EtherPower` | the power calls of both channels, every store a step of its own, for every legal wiring of the PHYs (`PhyAccess`) |
| `EtherRx`, `EtherTx` | one ring each: the driver's functions in the steps the EDMAC can fall between, and the EDMAC |
| `EtherRing` | both rings with `lan_read`, `lan_write`, link up and link down |
| `FrameQueue` | the abstract specification of a transmit ring: accepted frames leave in order, only a link-up drops them |
| `EtherLink` | cable, PHY, ECSR, interrupt handler, link processing, magic packets, `lan_*` calls |
| `Dns` | `dns_proc_table` and its three parties |
| `Http` | every store of `R_httpd` against every event of `http_callback`, for all endpoints |
| `Ftp` | one session of the FTP server: every load and store of `R_ftpd` against every event of `ftp_callback` and `ftp_data_callback`, and the table of open files |
| `UsbScheduler` | operators: the pool, the queues, the picked message |
| `UsbHost` | operators: the tasks of the host driver and of its manager |
| `UsbHmsc` | operators: the task of the storage class driver |
| `UsbStorage` | the storage driver and the program's USB task; the main loop, disk accesses from it and from interrupts, the device, the plug |
| `Cmt` | `cmt_create` and `R_CMT_Stop`, each statement a step, for the two users of the timers |
| `Dhcp` | the exchange, and the servers and network it meets |
| `Startup` | `main` from reset to its loop, on `Cmt` and `Dhcp` |
| `SysTime` | `update_sys_time` as functions, and the Gregorian calendar to compare with |
| `MC*` | the same modules with the constants of a run |
| `*Proofs` | inductive invariants, theorems and their proofs |

### Correspondence with the code

Variables keep the names of the code. In `EtherPower` a call is a sequence of
steps (`FirstStep`, `PowerOnOwn`, `PowerOnPhy`, ...), because a handler of the
other channel may read `etherc_edmac_power_cont` between two of them. In
`EtherRx` a descriptor is its RACT bit, its error bit and the number of the
frame it holds; `BufRelease` has four steps (mark, load and store of the status
word, advance). In `EtherRing`, `enabled` is ECMR.RE and ECMR.TE: a link-up whose
`ether_do_link` fails leaves it FALSE, and EDRRR cleared, and sets
`transfer_enable_flag` all the same. In `EtherLink` the variable `step` says where the main program
is; `isr` and `snapshot` do the same for the handler. The handler preempts the
main program, so no step of the main program happens while `isr` is not "no".
`lost` records that a change of the LINK signal fell between the handler's look
at PSR.LMON and its write to ECSR, or between the look of `R_ETHER_LinkProcess`
at `lchng_flag` and its store: the code cannot see such a change, and the
properties say what holds otherwise. In `Dns`, `main` is the handler
`R_dns_process` has chosen from the table, or the point inside it where it acts
on what it read earlier; every interrupt is one step. Names and packets become
the number of the request they belong to. `TRANSACTION_ID` wraps after `Ids`
values; `spent` counts without the wrap, and a reply (`at`) and an answer (`age`)
note how many identifiers were spent before the query and since it.

In `Http`, `status`, `remain_data`, `total_rcv_len` and `fileid` are the fields
of `http_cep`; `fileid` also says how much of the file has been read into
`body_buff`. `call` and `len` are the one call of the library an endpoint is
owed a callback for. `main` and `at` are the place of `R_httpd` in its loop:
each of its stores is a step, so callbacks may come before it. A request is
abstracted to what it is answered with (`Resource`); `got` and `cut` note what
the peer has of the body and whether the response was given up. `lost` notes the
endpoints for which a store of `R_httpd` has come after the last callback.

In `Ftp`, `status`, `api_cancel`, `now_data` are the fields of `ftp_cep`,
`exec`, `subseq`, `file_index` those of `ftp_stat`; `reset` and `bits` are the
digits of `cep_reset_req`. `main` and `pending` are the place of `R_ftpd`:
`cep_reset_req |= x` is a load (`pending`) and a store, and the test of
`api_cancel` and the cancelling it leads to are two steps. `lib` is what the
library owes each endpoint; `owner` is `id[]` with the user written in. Four
history variables say what the client saw and which of the cases that the code
does not handle have occurred (`slips`, `outOfTurn`).

The USB modules describe one record `u`, the driver's memory. A task's whole
treatment of a message is one operator, since tasks are not preempted by each
other; the interrupts come between the steps of the main loop: to look for a
message (`MainSchedule`), to test `ScheduleFlag` (`MainCheck`), to run the task
(`MainRuns`). A disk access is a loop of the same steps made from inside
(`MainReceives`, `IrqTurn`). Where the code reads memory it has not set, the
parameter `g` of the operators takes either value.

In `Startup`, `pc` is the function `main` is in and `call` the call of the timer
driver it is waiting for; `powered` and `counting` are the module stop and start
bits. A frame is its type, address and the boot whose exchange it belongs to;
`sent` keeps all frames ever sent, so that each may arrive late, more than once
or never, also after a reset.

## Runs

| Run | Result | Shows |
|---|---|---|
| `ether_power` | pass | modules run exactly while needed, no open channel loses power, magic packet mode is seen by the other handlers; two channels, shipped wiring, all sequences of calls |
| `ether_power_mpde` | violation | `check_mpde_bit` refers to a register of a module still stopped |
| `ether_ring` | pass | no overwritten buffer, order kept, `FrameQueue` implemented, reception restarts and accepted frames leave where `ether_do_link` has enabled them; two descriptors each, four received and three sent frames, so that each ring wraps around; link-ups whose `ether_do_link` fails among the steps |
| `ether_link` | pass | flags follow the link; three cable changes and two application calls, enough for up, down, up around a reopened channel |
| `ether_link_usable` | violation | the transfer flag says "possible to communicate" after a failed `ether_do_link` |
| `dns` | pass | calls balance, queries bounded, answers reach their request and are fresh, every request ends; two requests, one retry per server, so leftovers of the first request meet the second; two identifiers, three of them spent, so that the identifier wraps |
| `dns_system_error` | violation | a send callback between `udp_snd_dat` and the store of `proc` enters `dns_dummy_proc` |
| `http` | pass | no call for an endpoint that is owed a callback, no overrun of `rcv_buff`, no leaked file, the right block in `body_buff`, whole responses, and endpoints that serve again unless their last callback was overtaken |
| `http_serves_again` | violation | without that exception an endpoint may stop serving: `R_httpd` stores `HTTPD_ACCEPT` over the `HTTPD_CLOSED` a callback has left |
| `ftp` | pass | files are closed, "complete" is said of whole transfers only, the dialogue goes on, and every reset ends, but in sessions where a named slip was met |
| `usb_storage` | pass | an access that reports success had its own command passed, no message block is lost or queued twice, and every access ends, but after one of seven named races |
| `startup` | pass | the system time never stops; an address in use was leased to the board, unless another exchange's ACK was taken; while some cable is in, `main` reaches its loop |

`UsbStorage.cfg` switches deadlock checking off because the program may stop in
`while(1)` where no block is left for a message (`r_usb_hmsc_apl.c`).
`Dns.cfg` switches it off because the code really stops: in
`dns_dummy_proc` and two other endless loops inside the interrupts. The other
runs check for deadlock.

Bounds: `MaxRxFrames`, `MaxTxFrames` (frames), `MaxChanges` (cable changes),
`MaxCalls` (application calls), `MaxRequests` (names resolved), `MaxSpent`
(identifiers spent, one by each response read); `Ids`, the number of identifiers,
is 2^16 in the code and two in the run. The timer of `Dns`
stops one past DNS_TIMEOUT: the code compares it with nothing else. `http` has two endpoints, as
`R_httpd` visits them in turn and they meet nowhere else; a receive buffer of
three bytes, so that a request comes in up to three pieces or overfills it;
files of up to `MaxFile` = 3 bytes through a buffer of two: none, one, one full,
and two blocks. When the main program is between its stores of status and
`remain_data`, a finished header is sent again; `OnHeaderUnfinished` does this
until `remain_data` is negative, where the code would go on for as long as the
main program is kept waiting. The proofs need none of these bounds to be small.

`ftp`: two entries in the table of files (one for the session, one for the HTTP
server), data of up to a buffer of two bytes at a time. The constraint `Fresh`
stops where nothing more is claimed: after a store of a stale value, or when a
refused call and a command out of turn have both been met; a full table is
followed only where the HTTP server's entry is in front of the session's.

`usb_storage`: six blocks and queues of eight, more than the messages ever under
way at once within three moves of the plug; two tries at the partition table (the
code: ten), so one failure and its repetition; one fault, that is one transfer
that stalls or fails or one wrapper that reports a failure. A fault takes the place
of a move: three moves, or two and a fault. Three moves put a device in, pull it
and put one in again, which is what "early" needs; two and a fault leave a command
to fail at a device that is pulled meanwhile. `Fresh` stops at the first of the
seven races.

`startup`: four channels in two modules, as on the chip; two cables moved once;
one address for this board and one for another; a ring of one descriptor, so
that a frame may find it full; DHCP_TIMEOUT of 1 (the timer stops one past it);
one reset, at any place.

## Fairness

- `EtherLink`: the main loop calls `R_ETHER_LinkProcess` in every turn and runs
  between interrupts however many there are (strong fairness of its steps); an
  enabled interrupt is taken and ends; the hardware follows the cable. Nothing
  obliges the cable to change or the application to call.
- `EtherRing`: the EDMAC sends while ECMR.TE and its run bit are set. Nothing
  obliges `ether_do_link` to succeed, and of a channel where it failed
  `ReceptionRestarts` and `AcceptedFramesLeave` promise nothing. T4
  polls the receive ring at every timer interrupt and releases what it reads,
  however often frames are written between (strong fairness), and ends a
  `lan_write` it has begun.
- `Dns`: the main loop keeps calling `R_dns_process`, the timer keeps running.
  No callback, reply or answer is assumed: every wait ends by the timer alone.
- `Http`: `R_httpd` runs for ever; the library ends each send and each close; a
  CGI that is pending finishes, which happens only between two calls of
  `R_httpd` in the main loop (hence strong fairness of `Release`). A peer that
  does not finish its request leaves in the end (`OnReceiveFailed`): the server
  has no timeout of its own, so this is an assumption on peers.

- `Startup`: the main program runs, however often it is interrupted; a timer that
  counts interrupts again. Nothing is assumed of servers, the network or the
  cables; `StartsUp` speaks of the case that some cable stays in.
- `UsbStorage`: the main loop goes on while no interrupt's access is under way,
  and such an access does too; the device answers what it is sent (there is no
  timeout for a bulk transfer, so this is an assumption on devices), and a change
  of the line interrupts.
- `Ftp`: `R_ftpd` runs for ever and the library ends a call it has been asked to
  cancel. A peer need not do anything.

## Proofs

All theorems hold for every value of the constants; each proof module defines
`IInv` and proves that it holds initially, that each action preserves it (one
lemma per action) and what it implies.

- `EtherPowerProofs`: for every wiring. The invariant ties each call in progress
  to what it has already noted and powered, since between two stores the
  bookkeeping and the modules disagree.
- `EtherRingProofs`: for rings of any size. Which descriptors are in use and the
  frames in them follow from two counters and a pointer (`RxInv`, `TxInv`); from
  that the order of frames, the stability of a held buffer and the refinement
  `Spec => SendsInOrder` (the ring implements `FrameQueue`).
- `EtherLinkProofs`: `TrackInv` says that unless a change was lost, what the
  link processing will leave behind agrees with the signal or a change is still
  announced; `ChangesTracked` alone is not inductive because it speaks of idle
  moments only.
- `DnsProofs`: `HandlerInv` lists what interrupts may have made of `proc` since
  the main program read it; with it a budget of remaining queries
  (`BudgetInv`), the balance of calls and the identifiers (`PassedInv`: since any query of an
  answered request an identifier has been spent, and until they have gone round
  `TRANSACTION_ID` tells how many) are inductive. `AnswerIsFresh` follows from
  the last, for any number of responses: the reply an answer is taken from carries
  the identifier asked with, and a reply to an answered request carries another
  one, unless all `Ids` identifiers were spent while it was under way. Without
  that exception, TLC finds such an answer in the run's instance.
- `HttpProofs`: for any number of endpoints and any sizes of buffers and files.
  `Owed` says in which states an endpoint may be owed a callback, given where
  `R_httpd` is; `Receiving`, `FileOpen`, `Fresh`, `Body` and `Closing` tie the
  fields to the call that is owed. They are needed together: that a file is not
  leaked, for instance, rests on no second request on a connection, and that on
  the calls not overlapping.

- `FtpProofs`: for tables and buffers of any size. `OneFile` says that the
  session owns at most the entry `file_index` names, and only in a transfer or
  before a reset has closed it; `EndsClosed` that a transfer whose end is under
  way has closed it already; `Resetting` that a step of a reset is taken only
  while there is one. The first is the property, and is not inductive alone: a
  transfer also ends through `api_cancel` of the command endpoint. Both exclude,
  as the property does, sessions with a command out of turn or a stale store.
  `WholeTransfer` and `Answered` rest on more. `ResetInv` holds whatever the
  client does: a command connection that is CLOSED takes a `tcp_acp_cep`, so
  that `R_ftpd` never enters its endless loop, because a reset that finds it
  CLOSED is done in one pass. `SessionInv` is for the session between two resets
  whose client waits its turn and in which no state was stored over a callback's:
  an open data connection has no call without a transfer (`Quiet`), only ABOR
  cancels one, and a transfer is in one of five phases (`Begun`, `Sends`,
  `Closes`, `Stores`, `Over`) that fix its sequence number, its file and the call
  of the data endpoint, where a cancel of the command endpoint is asked for only
  when it is over. `Told` keeps the client's news and the transfer apart, and
  `Truthful` is then `WholeTransfer`. `GoesOn` says, as long as no call is refused
  and nothing is stored over a callback, what the session waits for: a call of
  the command endpoint, for PORT the connection of the data endpoint, for ABOR
  the call there that is being cancelled; that gives `Answered`.

- `StartupProofs`: for any channels and any sharing of modules, any number of
  resets. `ClockInv` follows the two calls through their steps (the clock's
  lock is taken, so T4's channel is another one, and its mode is set, which is
  what a stop of a neighbour reads before it stops the module); `FramesInv` says
  that a request or an ACK of this boot carries the address in `dhcp.ipaddr`, so
  that `LeaseInv` can say that this address, once `set_tcpudp_env` is reached, is
  one acknowledged to the board. `CalendarCounts` and `ClockCounts` compare the
  calendar with a count of days and of seconds; 2100, which the code takes for
  a leap year, is outside.

- `UsbStorageProofs`: for pools and queues of any size, any number of moves, faults
  and tries. First the scheduler's operators: sending and picking keep each block in
  one slot, the message picked is the first of the highest priority that has one.
  The tasks call one another up to seven deep, so each is described once by what it
  does (`Do`: the fields it may set, the messages it may send, in order), the
  descriptions are composed along the calls, and each conjunct is shown to be kept
  by whatever is so described. `TypeInv` gives `TypeOK`. `Safe` gives
  `BlocksAccounted`, of which only `Pool` is a restatement: the blocks in use are
  those in the queues and the one of the message in hand. That is not inductive,
  because an access takes its answer out of the hand and whoever looks at the hand
  later must do nothing more (`Turn`). `Turn` needs that accesses do not overlap and
  that no message but the answer goes to the storage driver meanwhile (`Strg`);
  that rests on the search of a device being over when an access begins (`Quiet`),
  and on the access ending before the search of the next device reaches the
  program (`Levels`: the deeper the search, the later the turn of the access, which
  looks whether its device is there; `Gone`: a drive does not outlive its device).
  And there is one answer, as there is one transfer or message of the storage class
  at a time unless a phase error was reported (`Work`).
  `Trusted` gives `Truthful`, which speaks of the one step in which an access reads
  its answer. The answer comes out of up to four stages, each begun by a message
  that says nothing of whose command it belongs to; so the invariant follows what
  each message and transfer stands for. `Current`: what the device was given and
  the wrapper read are never of a later command than the one in memory. `By`:
  while an access waits, that command is its own, or the inquiry after its own
  command's failure (`roop`, which turns its success into the failure). `Sound`, of
  every message queued or in hand, and `SoundPipe`, of every transfer: one that
  goes on with a command comes after its command block was made, and one that
  reports a success comes after its wrapper said so; after a phase error none
  reports a success (and `Owned`: the stage stays at that error). It rests on
  `Safe`: a second transfer of the class, or a leftover message, would bring a stage
  of another command.

Assumptions of the proofs are the named ASSUMEs on the constants. The liveness
properties (`ReceptionRestarts`, `AcceptedFramesLeave`, `LinkFollowed`,
`MagicPacketEndsMode`, `EveryRequestEnds`, `ServesAgain`, `ResetEnds`, `StartsUp`,
`AccessEnds`) are model-checked only, being liveness under fairness. Every invariant
and every action property that a passing run checks is a theorem, and so is the
refinement of `FrameQueue`.

## Findings

The four violation runs above, with the quoted lines in `PROJECT.json`. What
the code does not guarantee is listed as hazards with a note: an error reported
by `dns_proc_G2` or `dns_proc_I2` may reach the function of a request accepted
in between; a late reply to a failed request may answer the next one, and so may a reply to an
answered request that was under way while all 65536 identifiers were spent
(`AnswerIsFresh` excepts it: `age < Ids`); the loop
over answer records may not end; a header whose send ends between the stores of
`R_httpd` is followed by bytes that are not part of it.

Further behaviours met while modelling, which no text of the repository denies and
which the properties therefore except by name:

- FTP (`Ftp`): the cancel that `R_ftpd` decides on may hit a call begun since
  ("stale", "astray"); `cep_reset_req |= x` may lose the bit a callback sets in
  between, and the reset never ends; PORT while the data endpoint is still closing
  is refused a call nobody looks at, and the session hangs ("refused"), as does
  ABOR of an upload whose receive ends just then; a client that hangs up in a
  transfer leaves its `exec_command` to the next; a command in a transfer sends
  the next block twice over, and what was received of an upload is forgotten
  ("outOfTurn"). A file closed twice may be another user's.
- USB (`UsbStorage`): an access takes any message to the storage driver for its
  answer ("search", "nested"); it makes the main loop's picked message be
  overwritten ("window", "gaveup"); a phase error is answered a second time
  ("phase"); a plug that bounces leaves the manager configured without an address
  ("bounced"). A device that is attached while the drive, a transfer or a message of
  the one before remains is searched twice at once, and a late PARTITION answer
  makes its drive ready before it has been opened ("early"). An access made from a
  callback while the detach is being handled never ends otherwise.
- Start-up (`Startup`): an ACK of another board with this program, or of one's own
  exchange before a reset, is taken (`intruder`): the transaction identifier is a
  constant and the hardware address is not compared. Nothing is sent again: a
  DISCOVER lost, or refused by `lan_write`, costs the whole DHCP_TIMEOUT. The link
  that ends the wait may be channel 1's, the exchange is on channel 0.
- Timers (`Cmt`): of two calls that overlap, one from an interrupt, one may stop the
  module the other is setting up; this program makes none (see below).

## Not modelled, and limits

- `EtherPower` covers both channels; `EtherRing` and `EtherLink` one, as the
  channels share nothing else.
- In `EtherRing` link-up and link-down are single steps: the EDMAC is in software
  reset during them. Whether `ether_do_link` succeeds is left open (`EtherLink`
  says when it does): after a failure the channel neither receives nor sends until
  the next link-up, though `lan_write` accepts frames (`ether_link_usable`), and
  the liveness properties of the rings except it. The copying `R_ETHER_Read`/`R_ETHER_Write` are not called by
  this product and are left out.
- The T4 and FAT libraries are binaries; the models let them call
  `lan_read`, `lan_write` and the callbacks from interrupts, in any order the
  callers show.
- `lan_reset` is modelled as a call of the main program.
- `Http` takes sends as the configuration makes them: without a transmit window
  (`config_tcpudp.c`) a send that succeeds has taken all its bytes. So does `Ftp`.
  The texts of headers, replies and pages, paths, and the parsing of requests and
  commands are left out; a command that only replies is abstracted to its reply.
  `remain_data` is an int32_t that takes the uint32_t `body_size`
  (`r_http_server.c:998`): files of 2 GiB or more are outside the model.
  Each pending CGI is assumed to finish; that the DNS answer releases the endpoint
  in `cgi_dns_cepid`, one variable for all pages, is not composed with `Dns`.
- `Ftp` has one session: sessions share only the table of files, where the HTTP
  server stands for any other user. Directories, attributes and times of the file
  driver keep no state.
- USB: the requests of an enumeration are one control transfer; hubs, suspend and
  resume, delayed messages, devices with several logical units and the register
  accesses are left out. The configuration uses one of the two USB modules.
- `Startup`: the USB start is left out, and `tcpudp_open` succeeds; in the main
  loop the order of the calls is left to the fairness of each component. Other
  options of a DHCP frame (mask, gateway, name servers) are left out: where they
  are missing, the code copies what was on the stack, and the loop over them has
  no bound but the end mark.
- `Cmt`: only periodic timers created and stopped by the main program. One-shot
  timers, which stop themselves in the interrupt, and `R_CMT_Control` are not used
  by this program.
- The generated register definitions, the board's clock and pin set-up, the USB
  register accessors and the peripheral driver, which is not built, are about half
  of the lines of the repository's code; they are pure I/O, or never run.
- Frame contents, PHY register details, names and packets are abstracted as said
  above.
- `PROJECT.json` lists the components left out, each with the reason.
