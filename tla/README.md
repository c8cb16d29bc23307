# gr-ieee802-15-4 with rate adaptation: verification

TLA+ models of this repository's own logic, checked with TLC and, where it
matters most, proved with TLAPS. `tla/` holds the modules, the TLC
configurations and `PROJECT.json`, which lists every component, run, mutant,
mapped definition, finding, hazard and theorem. Paths below are relative to
the root of the repository.

## 1. The system

The repository is a GNU Radio out-of-tree module: an IEEE 802.15.4 transceiver
(O-QPSK and CSS PHYs) with the Rime stack of Contiki on top, changed so that a
link adapts its rate. The transmitter tells the receiver by the second nibble
of the start-of-frame delimiter how many chips a symbol is spread over; a
Python driver sends a packet, waits for its reception and retransmits.

```
 applications                       examples/work.py (driver)
   |    ^                        starts flowgraph |     ^ polls file seq_1
   v    |                                         v     |
 rime_stack --"app in"--> mac ------------> access_code_prefixer
        ^                 |  ^                    | delimiter  <-- rec_ack
        `----"app out"----'  |                    v
                             |              chunks_to_symbols  <-- rec_ack
                       packet_sink <-- radio <----'
```

### Inventory

**Runicast connection** (`lib/ruc_connection.cc`, `lib/stubborn_sender.cc`).
*State*: `d_send_seqno` and `d_recv_seqno`, two bits each, `d_msg_queue`,
`d_stop`, the condition variable, the local variables of `thread_func`.
*Operations*: `pack`, `unpack` (an ack, data, somebody else's data),
`inc_recv_seqno`, `stop`, `enqueue`, `thread_func`.
*Hard*: two threads share it, and only the queue and the condition variable
have a lock; `stop()` of an ack races the timer and the reset of the next
message; acks are lost, late or doubled; two bits wrap.
*Correct when*: order is kept, each message is sent once to four times and
finishes, an ack confirms only what was delivered, and the expected seqno is
that of the message under way.

**Rime stack** (`lib/rime_stack.cc`, `lib/rime_connection.cc`,
`lib/bc_connection.cc`, `lib/uc_connection.cc`). *State*: the list of
connections. *Operations*: the constructor's `add_connections`, the dispatch of
`unpack`, `pack` and `unpack` of each kind, `PMT_EOF`. *Hard*: headers packed
bit by bit, 16-bit channels, several connections of one MAC and perhaps of one
channel, an exception or an EOF of one port that ends all. *Correct when*: a
message comes out where it was addressed to, at one port.

**MAC** (`lib/mac.cc`). *State*: `d_seq_nr`, the counters, the files the
driver reads. *Operations*: `app_in`, `generate_mac`, `mac_in`, `SaveResult`.
*Hard*: a file is read between `fopen` and `fclose`. *Correct when*: the
counters, the file and the frames passed up agree.

**Link driver** (`examples/work.py`, `lib/message_generator_impl.cc`).
*State*: `prev_seq`, `seq`, `t`, `pac_num`. *Operations*: first send, send
next, retransmit, poll. *Hard*: it learns of receptions only by polling a
counter, and takes a timer for a loss. *Correct when*: it never stops sending,
one reception releases one packet, it retransmits only what was not received.

**Packet sink** (`lib/packet_sink.cc`). *State*: `SYNC_SEARCH`, `HAVE_SYNC`,
`HAVE_HEADER`, the chip counter and its limit, byte, frame and estimate
indices. *Operations*: `general_work`, `enter_search`, `enter_have_sync`,
`enter_have_header`, `decode_chips`, `receive_symbol`, `receive_frame`.
*Hard*: error paths that restarted the search are commented out; counters are
carried from state to state; arrays are written without checks. *Correct
when*: counters meet their limits, indices stay in their arrays, a frame holds
its own symbols only, and every frame ends.

**Rate control** (`lib/access_code_prefixer.cc`,
`lib/chunks_to_symbols_impl.cc`, `lib/renew_chip_num.cc`,
`lib/feedback_generator_impl.cc`, `SelectRate` and `SoftRate` of
`lib/packet_sink.cc`). *State*: the file `rec_ack`. *Operations*: read for the
delimiter, read for the chip table, write on feedback. *Hard*: two reads for
one packet at different times, reads of a truncated file, a work call that is
not a packet. *Correct when*: delimiter and spreading of a packet agree.

**CSS modem** (`python/css_phy.py`, `python/css_mod.py`, `python/css_demod.py`,
`python/css_constants.py`). *State*: the rails, the delay chains of the two
differential loops, the gap counters. *Operations*: `modulate` and `demodulate`,
stage by stage, for several frames in one call. *Hard*: padding, gaps of two
lengths, delay chains shifted in place, reshapes that raise. *Correct when*:
what comes back is what was given, and every size that is accepted comes back.

**CSS chirp detector** (`lib/multiuser_chirp_detector_cc_impl.cc`; its sender
`lib/dqcsk_mapper_fc_impl.cc`). *State*: `d_state`, the chirp and subchirp
counters, samples consumed. *Operations*: turns of the search and of the
tracking. *Hard*: it can begin anywhere, cannot tell the two gaps apart, and
loses chirps. *Correct when*: it finds every chirp it can hear, once.

**CSS framing** (`lib/phr_prefixer_impl.cc`, `lib/phr_removal_impl.cc`,
`lib/zeropadding_b_impl.cc`, `lib/zeropadding_removal_b_impl.cc`,
`lib/preamble_sfd_prefixer_ii_impl.cc`, `lib/preamble_tagger_cc_impl.cc`,
`lib/frame_buffer_cc_impl.cc`, `lib/access_code_removal_b_impl.cc`). *State*:
stream positions, buffers, tags. *Hard*: preambles are all that says where a
frame begins; windows overlap; bits are cut by counting; a frame waits for the
next. *Correct when*: a frame cut out whole is published as sent, once, in
order, and does not wait for ever.

**CSS coding** (`lib/interleaver_ii_impl.cc`, `lib/deinterleaver_ff_impl.cc`, the
codeword, QPSK and DQPSK mappers and demappers). Pure mappings, with state only
in stream positions.

**The rest**: flowgraphs, bindings, build files, documentation, a sensor
window, utilities and the shell of a Contiki mote (`contiki/sdr_shell.c`).

The hazards, each at its line and with the properties that watch it, are in
`PROJECT.json`.

## 2. Modules

| Module | Models | Notes |
| --- | --- | --- |
| `StubbornDelivery` | what a runicast connection promises | abstract specification |
| `Runicast` | `ruc_connection`, `stubborn_sender` | two threads, network; implements `StubbornDelivery` |
| `Mac` | `mac.cc` | on its own also the specification that `Link` implements |
| `Link` | loop of `work.py`, `message_generator` | extends `Mac` |
| `RimeHeaders` | the three header formats | pure operators |
| `RimeStack` | stack, dispatch, the three kinds of connection | extends `RimeHeaders` |
| `PacketSink` | `packet_sink.cc` | any answers of the correlator |
| `RateLink` | `renew_chip_num`, `access_code_prefixer`, `chunks_to_symbols` and the air | extends `PacketSink` |
| `CssPhy` | tables and frame sizes of the CSS PHY | pure operators |
| `CssModem` | `modulate`, `demodulate` | extends `CssPhy` |
| `ChirpDetector` | `multiuser_chirp_detector_cc`, gaps of `dqcsk_mapper_fc` | extends `CssModem` |
| `CssStream` | the framing blocks of the CSS flowgraph, over a radio that loses and changes symbols | |
| `NumberLemmas` | | lemmas about `%` and `\div` that several proofs use |
| `RunicastProofs`, `LinkProofs`, `RimeProofs`, `PacketSinkProofs`, `RateLinkProofs`, `CssModemProofs`, `CssStreamProofs` | | proofs; `CssModemProofs` also those about `ChirpDetector` |
| `MC*` | | instances for TLC |

**Runicast.** A step is one access to what the two threads share. The handler
thread runs `Pack`, `UnpackData`, and `UnpackAck` followed by `StopStore`
(`d_stop = true`), `StopNotify` and `AckInc` (`inc_recv_seqno`). The sender's
thread runs `Reset`, `Pop`, `Publish`, `BeginWait`, `WaitEnds`, `Loop`,
`Decide` and `TimeoutInc`, the statements of `thread_func` in their order.
`LoseFrame` and `LoseAck` are the radio. `Timing` names three regimes: `any`
assumes nothing; in `quiet` the timer of one second expires only when nothing
of the connection is under way; in `late` acks may come after the timer but
the few instructions that end a message in one thread do not overlap those of
the other. Sequence and message numbers are separate: the history variables
count messages without bound, the protocol's seqnos wrap at `SeqMod`.

**Mac and Link.** `AppIn`, `MacIn` and `MacDrop` are the handlers; the file is
written in two steps, `OpenCount` (truncated) and `WriteCount`, so that the
driver's `Poll` can fall between them. `First`, `SendNext`, `Retransmit` and
`Wait` are the branches of the loop in `main()`. `StartFlowgraph` waits for the
handlers as the restart of a flowgraph does. One flowgraph holds both radios;
`tb2` of the source is constructed and never started, so the frames of station 1
come back to the same MAC block, which counts them for station 2. `crc16` is a
perfect check here: a frame is intact or it is not. A frame is a record of its
destination, number, intactness and length class.

**RimeHeaders and RimeStack.** Headers are sequences of bytes built as the
`make_msgbuf` functions build them, with shifts as products and quotients.
`BcPack`, `UcPack`, `RucPack` are `pack`; `BcUnpack`, `UcUnpack`,
`RucUnpackAck`, `RucUnpackData`, `RucUnpackOther` are `unpack` behind the
dispatch, `Unheard` its end without a match. `Eof` and `StopStack` stop the
stack. The sender's thread is reduced to `Transmit` and `NextMessage`: what the
packets and the seqnos of other connections can see of it. A payload is a
message number.

**PacketSink.** One step takes one chip. `Unlocked` and `PreambleSymbol` and
`DelimiterSymbol` are the search, `LengthSymbol` is `HAVE_SYNC`, `BodySymbol`
is `HAVE_HEADER`; the four copies of the code for 64, 32, 16 and 4 chips
differ in the chips of a symbol (`ChipsOf`) and in whether the length byte is
used (`FixedLength`). What the correlator says of a symbol is chosen freely:
which nibble, or none.

**RateLink.** `RenewOpens` and `RenewCloses` are `fopen("w+")` and `fclose` of
`renew_work`; between them the file is empty and a reader's `fscanf` leaves its
variable as the stack has it (`ReadsFrom`). `MakeFrame` reads for the delimiter,
`Work` reads again for the chips. A call of `work()` is given as many symbols as
the scheduler likes (in the run: up to the end of a packet, or 4 or 6 of them,
which ends behind a header or inside a body), and does what the code does with
them: ten symbols by the header's table, the rest by the letter's, a count of the
output by the letter while the scheduler counts 32 for each, hence symbols read
behind the input and symbols cut short (`Spread`). A packet is `good` when it
starts a call that holds all of it and spreads it by the letter of its delimiter;
a second packet in the call never is, as its header is spread with the letter's
table. Output that would not fit is
dropped here; the code writes it behind the buffer. The receiver takes one step
of `PacketSink` for each chip; a window that is exactly one symbol is answered
with it, any other as the adversary likes, `MaxDisturbed` times. With the
constants of the flowgraph the header is spread over 64 chips; the O-QPSK
flowgraph that wires the stock `digital_chunks_to_symbols` sends 32 and is not
what `packet_sink` listens for.

**CssModem.** An action is a stage of the loop over frames; the two
differential loops take one step for each symbol. Phases count 22.5 degrees. Of
the baseband the model keeps which subchirp with which phase lies at which
sample. The shift of the delay chains copies one element to three places, so
that both ends differentiate over a distance of two symbols: the comment at
`python/css_mod.py:100` says four, which the C++ blocks use, so that the two
implementations do not understand each other. An exception is the state
`raised`. At 250 kbps no size comes back: at sizes that leave a remainder of 3
by 6 `modulate` returns and the length check of `demodulate` raises, at other
multiples of 3 the interleaver raises, and at all others `bits_to_codewords`.

**ChirpDetector.** A turn of the loop of `general_work` is a step: `SearchOn`,
`SearchEnds`, `Track`, `LoseTrack`. The correlator is over its threshold where
a subchirp that is strong enough lies at most `Slack` samples off. Where a call
ends makes no difference to the turns. `MapFrames` is the flowgraph's sender,
which begins its gaps anew with each frame.

**CssStream.** `PadZeros` is the message handlers of `phr_prefixer` and
`zeropadding_b`, `Encode` the coder as one block of bits, `Emit` a turn of
`preamble_sfd_prefixer_ii` together with the radio, `Tag` a call of
`preamble_tagger_cc`, `BufferDrops`, `BufferReturns` and `BufferConsumes` one of
`frame_buffer_cc` by what it does, `Decode` demappers and
`zeropadding_removal_b`. A symbol carries the block of bits it comes from, so
that decoding succeeds exactly for blocks that are whole; the phase of a symbol
is a constant of its message. `Idles` are the symbols that a receiver has made
of noise before the sender begins. The tagger's comparison lacks an `abs`
(`Same`): a quarter turn back counts as none, so a payload can look like a
preamble.

## 3. Runs

| Run | Configuration | Shows |
| --- | --- | --- |
| `runicast_any` | 3 messages, 2 addresses of which one exists, 2 frames under way, 2 losses | order, the expected seqno never lags, the promise without honest confirmations, every message finishes, under every interleaving |
| `runicast_quiet` | 6 messages (the seqnos wrap), 5 losses | no drift, no false ack, timeouts paid for by losses |
| `runicast_late` | 3 messages, 2 peers, late acks | no false ack and no ack ignored wrongly, as long as fewer messages than seqnos are around |
| `runicast_drift` | violation | the race below |
| `link_any` | 5 packets, any delay | order of the counters, one reception one packet, the books of the MAC, and that the link never falls silent |
| `link_prompt` | 6 packets, a packet's way shorter than K polls | stop-and-wait, retransmissions follow losses |
| `rime_stack` | 2 stacks, 2 messages, 4 targets | delivery as addressed, one port per message, acks answer delivered messages of the connection or of one that shares channel and address with it |
| `rate_link` | symbols of 3, 2 and 1 chips, payloads of 1 and 2 bytes, one change of the rate at any moment, one window mistaken, calls of `work()` up to the end of a packet or of 4 or 6 symbols | the sink's counters, bounds and frames; a good packet (one that starts a call of `work()` which holds all of it and spreads it as its delimiter says) arrives intact, and all arrive if each has such a call to itself; every frame ends |
| `css_modem` | both rates, 7 sizes, all chirps, one or two frames, any turn of the phases, a receiver that begins at four different samples | symbols recovered, round trip, the chirps found, frames that come out even are returned |
| `css_padding` | violation | the padding below |
| `css_odd` | violation | the odd frames below |
| `css_stream` | bursts of 4 and 6 messages, one of them too short, one like a preamble, noise before them or not, one symbol lost or changed anywhere | whole frames are published as sent, once and in order, no double tags, no frame waits for ever while others follow |

**Why the bounds are enough.** `SeqMod = 4` and `Retxs = 3` are the values of
the code, not reductions. Three messages in hand, queued and finished show
every relation between neighbours; five or six wrap the seqnos, which is why
`runicast_quiet` has six. Two frames under way allow a
duplicate behind its original; `runicast_late` has three, for an old ack
behind two new ones. Losses are bounded to keep the instance finite; one
message times out only with four losses, so `runicast_quiet` allows five, and
a destination outside `Peers` times out without any bound. `K = 2` in `Link`
leaves a poll before the last one, and five packets let two receptions fall
between two polls. The MAC's counter wraps at 256 in the code and at 2 here.
In `rime_stack` the addresses 23.232 and 200.5 differ in bits that lie on both
sides of a byte boundary of the runicast header, channels 7 and 263 share
their low byte, and one stack has two connections on one channel. In
`rate_link` the header's 3 chips are no multiple of rate B's 2, as 64 is none
of 6 in the sink's windows; D believes no length byte, B does; one packet is of
the default length and one is not; `be` has just the room the frames need. In
`css_modem` the sizes and tables are the code's own; the three mapped frames
have 16, 18 and 17 chirps. In `css_stream` a frame is two symbols of preamble,
one of SFD and one block of three, the buffer holds three frames and the rest
of a fourth, which is the least that `forecast` and one damaged frame need; with
18 symbols of noise in front of the first frame the buffer is called with no tag
and with one, without them with two. The
theorems below remove the bounds where they hold.

**Fairness.** `Runicast`: the operating system runs both threads, a
`timed_wait` expires, and each frame and ack under way arrives or is lost. The
application is not fair. `Link`: the loop of the driver runs, and the scheduler
of GNU Radio runs handlers that have input; losses are not fair. `RateLink`:
the radio delivers samples without end, noise if nobody sends (`WF_vars(Hear)`);
which answers they get is up to the adversary, and the sender owes nothing.
`CssModem`: a call runs on. `CssStream`: weak fairness of each block, which the
scheduler calls as long as it has input and room. `RimeStack` states safety
only.

**Deadlock** is checked in `rate_link`, whose radio never stops. In every other
run the system comes to rest when the messages or packets of the bound are used
up or the call has returned; in `css_stream` with the last frames in the buffer,
which gives none up before the next one has begun.

### Findings

* `runicast_drift`: `unpack` says that it ignores duplicates. With a timer
  that expires while an ack is handled, `stop()` and the timeout both call
  `inc_recv_seqno`; the expected seqno runs ahead, and the acks of messages
  still waited for are ignored as duplicates.
* `css_padding`: `modulate` pads "to satisfy block boundaries".
  `calc_padded_zeros` counts the zeros of both rails together and `pad_zeros`
  adds that many to each; with the 38 bytes of the repository's own analysis
  script `bits_to_codewords` raises.
* `css_odd`: the test of the detector's late entry says that it need not know
  which gap comes first. Behind a frame with an odd number of chirps
  `dqcsk_mapper_fc` begins with the first gap again, the detector waits for the
  second, and four symbols of the next preamble are lost. The flowgraphs in
  the repository use chirp 4, whose gaps are equal.

Seen while modelling, without a run of their own: the dispatch compares a
whole channel with the low byte of the header, so that a stack never hears a
channel above 255, and `contiki/sdr_shell.c` accepts such channels;
of two runicast connections on one channel the second one's acks go to the
first, so that the second always times out, and the first is stopped by them and
counts its own message as confirmed, which nobody may have received
(`AcksAnswerMessages` says whose acks a connection can take); of two packets in
one call of `work()` the second's header is spread with the letter's table, so
that at any rate but the header's the packet is lost (`AllArrive` speaks of
packets that each have a call to themselves); with two bits of seqno and no limit on the age
of an ack, a late ack of four messages ago confirms a message nobody received
(`runicast_late` and `Trusty` exclude it); a frame with a wrong crc is logged
as dropped and then counted and handed up (`MacIn` of `Mac` takes it up, and
`BooksBalance` counts it); when a late packet and its repetition
are counted between two polls, the driver sees no reception of the one it waits
for and retransmits what was received (`Prompt` excludes it); behind a wrong
second nibble of the delimiter the packet sink keeps waiting for a right one,
as the restart is commented out; a full input buffer of `frame_buffer_cc` behind
one tag is never emptied (`Capacity` is assumed larger); for frames longer than
a third of the buffer, above some 70 bytes at 250 kbps, `forecast` can never be
met; blocks of the interleaver straddle frames at 250 kbps, so that one damaged
frame damages its neighbours (`Body % Blk = 0` excludes it); a message of another
length than the flowgraph was built for shifts every later frame for good.

## 4. Proofs

| Theorem | Module | Assumes |
| --- | --- | --- |
| `TypeCorrect`, `InOrderHolds`, `NeverLagsHolds` | `RunicastProofs` | |
| `NoDriftHolds`, `NoFalseAckHolds`, `IgnoredAcksHold` | `RunicastProofs` | `Trusty` |
| `TimeoutsPaidHolds` | `RunicastProofs` | `Timing = "quiet"` |
| `KeepsPromiseHolds` | `RunicastProofs` | |
| `LinkTypeCorrect`, `ReadsRunBehindHolds`, `OneReceptionOnePacketHolds` | `LinkProofs` | |
| `RetransmissionsPaidHolds`, `OneOutstandingHolds`, `RetransmitsUnreceivedHolds` | `LinkProofs` | `Prompt` |
| `MacTypeCorrect`, `BooksBalanceHolds`, `LinkImplementsMac` | `LinkProofs` | |
| `RimeTypeCorrect`, `DeliveredAsAddressedHolds`, `OnePortPerMessageHolds`, `AcksAnswerMessagesHolds`, `OwnAcksOnly` | `RimeProofs` | |
| `SinkTypeCorrect`, `CountersMeetHolds`, `InBoundsHolds`, `FrameAsHeardHolds`, `SinkBehindTheLink` | `PacketSinkProofs` | |
| `StreamTypeCorrect`, `NoDoubleTagHolds`, `OnceInOrderHolds` | `CssStreamProofs` | |
| `IntactIfWholeHolds` | `CssStreamProofs` | |
| `GoodIsIntactHolds`, `AllArriveHolds` | `RateLinkProofs` | |
| `CssTypeOKHolds`, `SymbolsRecoveredHolds`, `RoundTripHolds` | `CssModemProofs` | |
| `PaddingFitsByThree`, `ReturnsIfFits` | `CssModemProofs` | |
| `HearableChirpsFoundHolds` | `CssModemProofs` | `EvenFrames` |

All of them hold for every value of the constants that satisfies the named
assumptions next to their declarations; the bounds of the model are constants
too, so that they hold for any number of messages.

* **Runicast.** `InOrder` needs no regime: the queue, the message in hand and
  the frames under way are consecutive, and every seqno follows from its
  message's place. `NoDrift` and `NoFalseAck` support one another: an
  ack is taken when its seqno is the expected one; without drift that is the
  seqno of the message in hand; under `Trusty` (no late acks, or
  fewer messages than seqnos) an ack under way with this seqno is one *of*
  this message, hence the message was delivered. The invariant `TrustInv`
  carries this together with the position of both threads: while the handler
  is between `stop()` and `inc_recv_seqno`, the sender has not yet left the
  message. `TimeoutsPaidByLosses` is inductive with an account of the message in
  hand: with a quiet timer nothing of it is under way when the timer fires, so
  each of its tries so far has cost a loss of its own. `NumberLemmas` has the
  modular arithmetic.
* **Refinement.** `KeepsPromiseHolds` maps every step to a step of
  `StubbornDelivery` or a stutter. Besides the invariants above it needs that
  nothing is under way of a message that was not yet transmitted.
* **Link.** `ReadsRunBehind` is inductive with the position of the file.
  Under `Prompt`, whenever the timer fires everything sent was received or
  lost, and what was received was read; so the books balance with one packet
  outstanding. The MAC's own theorems are about `MacSpec`, in which any frame may
  arrive at any time; `LinkImplementsMac` carries them over to the link.
* **RimeStack.** Lemmas show that each header, taken apart, returns what was
  put together (channel, flag, seqno, both addresses). The invariant traces
  every packet in an inbox to a message or to a delivery; dispatch then can
  only hand it to a connection of its channel. No header tells the runicast
  connections of one channel and address apart (`Rivals`): an ack may stop the
  first of them for a message of another. `OwnAcksOnly` says what follows for a
  connection that has no rival: only acks of its own, delivered messages stop it.
* **PacketSink.** For each state the invariant says how chip counter, byte
  index, frame and estimate index follow from the answers heard since the
  delimiter. The frame is the answers behind the length, two to a byte, and
  `bct` counts them: `2 * MAX_PKT_LEN <= 256` bounds it.

  `SinkBehindTheLink` adds that each step of `RateLink` is one of the sink or
  leaves it alone, so that the same holds behind every transmitter.
* **RateLink.** A published frame is the answers of the correlator to windows
  that the sink cut by itself, so the invariant has to say which window is which
  symbol on the air. `RateInv` does: what is queued is whole packets in the
  sender's order (`Framed`), the symbols on the air are those of the packets
  that were sent, with the chips that `work()` gave them, and a packet that is
  marked as good lies on the air whole (`AirRight`), and once the sink has
  taken such a packet's delimiter its counters stand on the same symbol and
  chip as the air (`Following`): the answers it holds are the symbols behind the
  delimiter. That positions only grow (`Rising`) and that the read of the
  delimiter comes before the one of the chips (`Behind`) keep these together
  over a change of the file between the two. `AllArrive` supposes that nothing
  disturbs and that every packet is good, so that each call of `work()` was one
  whole packet: a call that ends anywhere else, or holds two, takes a packet out
  of the stream that is not good, or leaves it there without its whole header
  (`WorkOrderly`). Then the sink is in one of four phases of the packet at hand
  (`Idle`, `Coming`, `Locking`, `Reading`, together `Orderly`), all before it are
  published, and a phase ends exactly where the symbols of the next one begin.
* **CssModem.** `ModemInv` says of each stage what it holds of which frame: the
  rails (`RailsRight`), the symbols sent (`SentRight`), that subchirp `j` of frame
  `f` lies at `Place(f, j)` and nowhere else (`LaidOut`), that the phase from a
  symbol to the one after next is the QPSK symbol, noise apart (`PhasesRight`),
  how far the differential loops are (`LoopsRight`), and the bits of the frames
  read (`BitsRight`). Three facts about the tables and sizes carry it: rows of
  the codeword table differ in half of their places or in all, so that the
  nearest one is the one sent; the windows of `demod_DQCSK`, which computes
  positions by its own counters, are the places of `mod_DQCSK` (`PosIsPut`,
  `WindowsAre`), because a frame that passes `reshape` has an even number of
  chirps; and at 250 kbps a frame that passes never has the
  length that `demodulate` expects, for any size (`FrameSizes`), so that nothing
  is returned wrongly there because nothing is returned. The delay chains turn
  by copying one element: the loops' invariant says what the fourth place then
  holds, and that both ends agree on it from the third symbol of a frame on.
  `PaddingFitsByThree` draws the line that `css_padding` finds a point of: the
  padding fits at sizes divisible by three and at no other, at both rates.
  `ReturnsIfFits` is what can be proved of `WholeFramesReturn`: at 1 Mbps and
  such sizes no stage raises, and bits are returned in no other case.
* **ChirpDetector.** `DetectorInv` relates the detector's place to the chirps of
  the baseband, which it knows nothing of: while it tracks, it is at a subchirp
  of some chirp, at most `Slack` off, or behind that chirp by the gap it
  believes in, and the second gap only where it is right (`Aligned`); no two
  finds are closer than a subchirp (`FoundApart`); and a chirp that can be heard
  is, from behind its first window to its last, being tracked, with all symbols
  behind the detector found (`Heard`). The step that could break this is the one over
  a gap: expecting the first gap where the second lies, the detector comes too
  early by 20 samples or more, the correlator's peaks do not overlap then, and
  the search begins in front of the next chirp; expecting the second where the
  first lies would jump over its beginning, and never happens because the gaps
  alternate. For frames of `dqcsk_mapper_fc` that needs `EvenFrames`: one frame,
  gaps of one length, or frames of an even number of chirps. Without it the
  property is false, as `css_odd` shows. That the search stops at the first
  window over the threshold needs a smallest element, from the library's
  well-founded induction (`SmallestIs`).
* **CssStream.** The tagger marks only the symbols that it passes on (its
  window is twice its step), so a symbol that stays has no tag. For the order,
  the places of the symbols between radio and frame buffer go up; a frame that
  is cut out whole ends with its last symbol, and what is behind that is of a
  later frame. `IntactIfWholeHolds` follows the bits from message to message:
  while all messages have the built length, the bits taken are those emitted,
  coded or padded, so the place of a symbol in the sender's frames (`OutStep`)
  tells its bit (`SenderRight`); the stream keeps symbols with their places
  (`StreamRight`); and the receiver has published, holds or has before it just
  as many bits as frames were cut (`ReceiverRight`), so what it counts off is a
  frame. That blocks do not straddle frames (`SameBlock`) carries the bits
  through the coder.

The inductive invariants were checked on small instances before they were proved.
One precondition came out of that: a detector that begins in the first
samples of a chirp keeps that offset, and at the very end of the samples it waits
for as many more before it looks at the last subchirp; `HearableAt` therefore
asks for `Slack` samples behind the longer gap.

**Only model-checked:** the liveness properties (`EveryMessageFinishes`,
`KeepsSending`, `EveryFrameEnds`, `WholeFramesReturn`, `FramesArrive`), which
rest on fairness and `ENABLED` and are beyond the prover. Every invariant and
every action property of the passing runs is a theorem.

## 5. Not modelled

* Of the CSS chain in C++: soft decisions and the correlation, over real and
  complex numbers; the QPSK, DQPSK and codeword mappers, whose Python
  counterparts `CssModem` has in full; `access_code_removal_b`, which no flowgraph
  connects (with a length of 0 it never ends); the ends of the message handlers
  at an EOF.
* `feedback_generator`, which nothing modelled reads; `SelectRate`, `SoftRate` and
  the link quality of the packet sink (the fixed type 2 never calls them).
* The payload's text, buffers and their sizes in the Rime connections; log
  files that nobody reads.
* The destructors, which run when the program ends; Qt windows, USRP set-up,
  flowgraph files, bindings, build files, documentation, the sensor window,
  utilities: no state a property could be about, or not this program's own.
  By lines, most of the repository's Python is generated or vendored
  (`docs/doxygen/doxyxml`, 10000 lines) or tests of single blocks.
* Contiki's Rime at the other end: not in the repository.

## 6. Plan

Done, in this order: `Runicast` with its promise, `Mac` and `Link`,
`RimeHeaders` and `RimeStack`, `PacketSink`, `RateLink`, `CssPhy` and `CssModem`,
`ChirpDetector`, `CssStream`; a proof of every safety property of the passing
runs. What is left:

1. The 250 kbps chain of `CssStream`, with blocks that straddle frames.
2. That `EvenFrames` is necessary, not only sufficient: a chirp is lost in every
   instance with two frames of an odd number of chirps and gaps that differ.

## 7. How to run

In `tla/`: `tlc -config MCRunicastQuiet.cfg MCRunicast` checks a run (module
and configuration of each are in `PROJECT.json`); `tlapm RunicastProofs.tla`
checks the proofs of a module.
