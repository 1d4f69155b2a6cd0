# Verification of the Monero cold signer

TLA+ models of the signer in `src/xmr-signer`, checked with TLC, with theorems
checked by TLAPS. The signer is a stateless program on a device without a
network: it is shown a sealed payload of a view-only ("hot") wallet and answers
with another one. What can go wrong is seldom a crash. It is a key image that
belongs to another output, an output its payee cannot find, an answer given for
the wrong state of the hot wallet, or a fee that is not the one shown.

## 1. The system

| Component | State it keeps | Operations | What makes it correct |
|---|---|---|---|
| Subaddress table (`sign.rs`) | a map from spend keys to indices, whether the lookahead window was added | new, lookup | the answer depends on the key only |
| One-time keys (`keyimage.rs`, `crypt.rs`) | none | one_time_key, ring signature, encrypt, decrypt | the secret it finds is that of the output, with every way an output can be sent |
| Key image service (`outputs.rs`, `keyimage.rs`, `main.rs`) | one run: position in the export, images so far | parse, sign_key_images, export_blob | one true image for each output, in order, at the export's offset, or a refusal, for the first bad output, by its number where the code gives one |
| Signing (`txset.rs`, `sign.rs`, `main.rs`) | one run: current transaction, its inputs, destinations, keys, outputs; the set's signed transactions and images | parse, the seven sections of construct_and_sign, reply | payees and change can find and spend their outputs; inputs stay aligned; what was shown is signed; all or nothing |
| tx_extra codec (`sign.rs`) | none | parse_extra, write_extra | fields survive; keys are readable |
| Archive codec (`archive.rs`) | position in the data | varint, count, fixed fields | never past the end; what is read was written |
| Summary and command line (`sign.rs`, `main.rs`) | none | show, sign, keyimages | shows what it signs |
| Mnemonic and account keys (`xmr-keys`) | none | decode_mnemonic, from_seed | the word arithmetic is the inverse of the encoding |
| Round trip (README, FORMATS.md) | hot wallet: transfers, key images, spent marks; payloads under way; chain | export, scan, reply, import, request, sign, broadcast | no payment twice, every image true, retrying completes the sync |
| Transaction fixtures (`snapshot_txs.py`) | frozen outputs in the wallet, files, what was submitted | freeze, transfer, thaw, sign, submit | leaves the owner's freezes alone, submits exact input counts, its rows describe what was submitted and the fixtures that are there |
| Outputs fixtures (`snapshot_outputs.py`) | the two files of a label, the wallet file and who has it open | export, sign, stop, import, restart, note | the note is about the files that are there; one process at a time works on the wallet |
| Fan-out (`fanout.py`) | what is received, unlocked and pending in the wallet | read, plan, transfer | reaches the target, overshoots by little more than what was pending or unanswered, asks for no more than there is |
| Benchmark card (`flash-bench-card.sh`, `apply-bootfs-overlay.sh`, `xmr-firstrun.sh`, `user-data`) | command line, account, services and result files, each written or only about to be | prepare, first run, boot, power cut | what comes up is set up; results are of this preparation; the first run is left |
| Benchmarks, gate, build scripts | none | timing loops | - |

Components interact by payloads alone: an outputs export goes to the key image
service, its reply to the hot wallet, an unsigned set to signing, the signed set
back. Signing uses the subaddress table and `one_time_key`; the scripts run the
command line and call the hot wallet through monero-wallet-rpc. There are no
threads. The hard behaviour is in the order of payloads (late, repeated, lost,
two of a kind), in power cuts (the device keeps nothing), in sorting and
shuffling what positions refer to, in a lazily built table shared by the
transactions of a set, in requests of which a part is bad, and, in the scripts,
in calls that raise between two steps, in a wallet and a chain that go on while
the script looks away, and in what has not reached the card when power is lost.

`PROJECT.json` lists the hazards with their lines and the properties that cover
them.

## 2. Modules

| Module | Models |
|---|---|
| `StealthKeys` | the algebra of one-time keys: a point is the set of scalars the base point was multiplied by |
| `OneTimeKeys` | `decrypt` as its outcomes; `one_time_key` and the signed key image of an output |
| `SubaddressTable`, abstract: `EagerTable` | the lazy table; what it promises |
| `KeyImages`, abstract: `KeyImageService` | `xmr-signer keyimages` step by step; the service in one step |
| `ColdSign` | `xmr-signer sign`, one action for each section |
| `ColdRoundTrip`, abstract: `Ledger` | hot wallet, chain, payloads, device; what the owner is promised |
| `Signatures` | both signature schemes and the wrapper as arithmetic modulo the order of the group |
| `SnapshotTxs` | `snapshot_txs.py` |
| `SnapshotOutputs` | `snapshot_outputs.py`, with the wallet programs it hands the wallet to |
| `Fanout` | `fanout.py`, with the wallet and the chain it waits for |
| `FirstRun` | the benchmark card: preparing it, the boot hook, later boots, power cuts |
| `Archive` | `archive.rs`: the reader's and the writer's methods, at any width |
| `PayloadReads` | `OutputsExport::parse` and `UnsignedTxSet::parse_plain`, read by read, and the slices that are echoed |
| `TxExtra` | section 4 of signing at the level of bytes: parse, replace, sort, write |
| `Mnemonic` | `decode_mnemonic`: counting, finding, checking and decoding words |
| `*_proofs` | theorems about the module they are named after; `KeyImages_proofs` has those about `SubaddressTable` and `Signatures` too, `Scripts_proofs` those about `SnapshotOutputs` and `FirstRun`, `TxExtra_proofs` those about `Archive` |
| `MC*` | the instance TLC checks: the sets of payloads, outputs and requests |

Operators named as mutants in a comment are wrong variants of the definition
after them. No specification uses them; each is there to show that one property
fails when the code is wrong in that way.

### How they correspond to the code

*Keys.* The abstraction is symbolic: two points are equal only if they are made
of the same secrets, hashes are injective, a signature verifies only for the
secret it was made with. `Candidates` is the `candidates` vector with the
additional key of the position; keys that do not decompress are `NotAPoint` and
are skipped as in the code. Where the code loops over candidates and takes the
first that fits, the models choose among those that fit: under the symbolic
assumption at most one does.

*SubaddressTable.* `known`, `expanded` are the struct's fields. `Lookup` has the
three outcomes of the function: a hit, the miss that adds the window, a later
miss. `answers` is a history variable.

*KeyImages.* `pc` is where the run is. `ParseError` has the checks of
`OutputsExport::parse` in their order; the plaintext's field layout is one field
of the payload. `DeriveNext` is an iteration of `sign_key_images`, `DeriveFails`
its `?`, `Export` is `export_blob` and the write. Of the two errors of `one_time_key`
only the key mismatch carries a position (`OutputRefusal`). The offset is cut to its width
in the reply (`as u32`, here modulo 4 so that the cut happens).

*ColdSign.* `Open` is `UnsignedTxSet::parse`, then for each transaction
`RecoverInputs` (1), `Shuffle` (2), `DrawKeys` (3), `BuildExtra` (4),
`MakeOutputs` (5), `Seal` (fee, 6, 7), and `Reply` for the rest of `sign`. Each
has its refusal, guarded by the section's error conditions; a refusal drops the
whole reply. The subaddress table is taken as the function it is proved to be.
The shuffle is any permutation. Key images have an order (`ImageRank`), as their
bytes have. A range proof is reduced to the number of outputs it can cover, a
CLSAG to the opening of its ring's real member; the other members must be points, key and
commitment (`IsMember`), and the mask a scalar below `ScalarLimit`. A destination's `sub` is
the `is_subaddress` of the payload, which the code reads and trusts whatever the address is. Sums of amounts wrap at
`AmountLimit` and the position of the real member at `ByteLimit`, as the code's
64 and 8 bits do; rings of `ByteLimit` members and sums beyond `AmountLimit` are
among the instance's requests. `Summary` is `summarize`.

*ColdRoundTrip.* The hot wallet and the chain are external, modelled as far as
FORMATS.md, README.md, REPORT.md and the scripts rely on them: exports start at
the first unknown key image, replies are imported at their offset if every
signature verifies, inputs need known key images, a signed set brings the images
of its change and of the transfers exported with it, the network refuses a spent
image. `payloads` only grows: a payload may be used at any later time, any
number of times or never. `Scan` starts a run of the device, `PowerOff` ends it
without an answer, `FinishKeyImages` and `FinishSign` answer. The device's answers are
those checked for `KeyImages` and `ColdSign`; every signing draws fresh keys.

*SnapshotTxs.* One action for each statement that changes something. A call to
the wallet may raise, with or without having taken effect (an error answer, or
the 900 s timeout); nothing but the `finally` clause handles it. `ReadRaises` stands for
the three calls at the head of a round, which only read. The inputs of
`transfer` are any that cover amount and fee: the wallet, not the script,
chooses them. `Start` runs the script again under the same label: the directory is there
(`exist_ok`), the fixtures of earlier runs are overwritten or removed, and rows are appended to
PROVENANCE.md. `noted` is a history variable.

*SnapshotOutputs.* One action for each statement that changes something, and for each
way it can fail: `SignerFails` is a signer whose exit code is not zero (it may have torn
the reply), `ImportFails` a command line wallet that fails, which the script does not
notice, `CutShort` any call that raises. `kblob` is the reply as read before the
server is told to stop, which is what the note describes. `failed` is the history of one run. `server` is the wallet server the script finds
and tells to stop, `successor` the one it starts; the one that comes second to the wallet
file gives up. `Slept` notes in the history variable `outlived` that three seconds were not
enough.

*Fanout.* `ReadTotal`, `ReadBalance` and `Plan` are the head of a round, `TakeSource`
an iteration over `sources`, `Size` and `Transfer` one over `range(k)`. `Mine` and
`Unlock` happen at any moment in between. A transfer that raises is one of two: `Refused`,
at any time and as often as the wallet likes, when nothing was sent, and `AnswerLost`, when it was
sent and only the answer was lost. Which outputs a transfer spends is the
wallet's choice (`Picks`). `blind`, the most that was pending when a round began, and `lost` are
history variables.

*FirstRun.* `cache` is what the running machine sees, `card` what a cut leaves of it. A
write changes `cache`; `WriteBack` takes any one item to the card at any moment, a sync or
an orderly reboot all of them. The items are the eight things the hook sets up, the result
file, the hook itself and two marks. `Boot` looks for the hook on the card. `CloudInit` is what
`user-data` does on the first boot of a fresh image; whether cloud-init takes notice is
left open, since the hook was written because it did not always.

*Archive, PayloadReads.* A byte has `DigitBits` + 1 bits (7 + 1 in the code), a word
`WordBits` (64); both are parameters, so that the edge of the widest varint is
within reach. A method of `Reader` is an operator on [data, pos] that returns
[status, value, pos]; `Then` is Rust's `?` followed by a conversion. A form in
`PayloadReads` lists the reads of a struct in the order of its function in `txset.rs` or
`outputs.rs`; `FieldRead` performs the next one and puts the elements that a count announces
before what is still to do, `Checked` compares fields with each other, `SliceBegins` and
`SliceEnds` are the two `r.position()` of a raw slice.

*Signatures.* A scalar is an integer modulo `Order`, a point the scalar of the base point.
Hash functions, `hash_to_point` and the cipher are operators about which nothing is assumed
but that they yield numbers, and that the cipher undoes itself.

*TxExtra.* `ParseField` and `ParseFails` are a turn of `parse_extra`, `ParseDone` is the
filter that drops the hot wallet's keys, the three nonce actions are the branches on
the payment id, `Write` is the last push and `write_extra` with its stable sort. Key, id and
hash have lengths that are parameters. `XorBytes` is one too: `MCTxExtra` gives it bit by bit, the
theorems assume only that it yields bytes.

*Mnemonic.* A word is its place in the list. The arithmetic wraps at `NumberLimit`, as
the release profile's does. `WordsOf`, `AllWords` and `PhraseOf` are the encoder of the wallet that
wrote the phrase down and are not in this repository.

## 3. Runs

| Run | Instance | Shows |
|---|---|---|
| `subaddress_table` | window 2 by 2; indices inside and outside it, listed or not; foreign keys | every order of lookups: answers exact, `ImplementsEager` |
| `key_images` | exports of up to 2 outputs out of 5 own and 4 not own, of 3 out of 6; every unreadable blob; offsets beyond the width; a group of 7 elements for `Signatures` | replies and refusals are those of the service; what is signed is accepted |
| `cold_sign` | see below | seven properties of signed sets and refusals |
| `cold_sign_third_account` | spending from an account outside the window | the finding of section 4 |
| `round_trip` | 2 payments in, 2 requests, 3 signings | safety, `ImplementsLedger`, `SyncCompletes` |
| `snapshot_txs` | 2 runs under one label, 8 outputs on 2 subaddresses, counts 2 then 1, all calls may raise; every subset frozen before | freezes, counts, provenance, termination |
| `snapshot_outputs` | 3 runs under one label, 3 outputs, 2 faults, 3 polls for 30 | the note is true, the reply imported if the server goes in time, the run ends |
| `fanout` | target 8 with two outputs a transaction; funds on two subaddresses; any number of refusals, 1 lost answer | transfers are affordable, the target is reached, the excess does not build up |
| `first_run` | 2 preparations, 2 cuts anywhere | set up when up, no old results, comes up |
| `payloads` | bytes of 2 + 1 bits, words of 5; exports and unsigned sets with up to two of everything, one number out of the ordinary; cut everywhere, lengthened, one byte changed | fields are read back, echoes are verbatim |
| `tx_extra` | every string of up to 4 bytes and every sequence of 2 or 3 fields as the hot wallet's extra | keys can be found, other fields survive |
| `mnemonic` | 13 words, numbers of 11 bits, 2 groups; 18424 pairs of numbers; 875 other phrases and wrong counts | phrases decode to their seed and no other phrase does |

Bounds. `cold_sign` has, in one transaction, every pair of payees out of six
(standard, subaddress, the same subaddress with two amounts, other subaddresses,
the account's own addresses) with three kinds of change and with or without a
payment id; addresses that the set marks as what they are not; sources received in each of the three ways; two transactions in a
set; requests that each fail one check of `construct_and_sign` or sit at its edge,
alone and behind a good one;
unreadable sets. Two payees and change are enough for every branch of the classification, which
counts standard and subaddress payees up to two; with more than two outputs the
dummy payment id is dropped, which three outputs reach. The bound on outputs is
4 for 16, and is exceeded by one request. `round_trip` needs a set signed twice (three signings for two
requests), two sets with a common input, change that is spent again, and replies
that are older than transfers; all of these occur within the bounds.
`snapshot_txs` needs a surplus, an immature output and a second round, which the
subaddress `a` has, and a kept output below the reserve beside a surplus, which `b`
has; the second run finds rows and fixtures of a first that went through or ended anywhere.

`snapshot_outputs` needs a rerun after a failure, which finds the files of the first, and a
server that outlives the wait; three runs have both. `fanout` needs a round that asks one
subaddress for two transactions, so that the second sees what the first has taken, a second
subaddress that must then be left alone, and rounds that begin with transactions pending or
after a lost answer or a refusal; the amounts are such that the rounds have enough to spend (`ReachesTarget` is about progress, not about a
wallet that runs dry). `first_run` needs a card that is prepared again with results on it, and
a cut in the run after a cut. Sequences and cuts beyond these repeat what is there: the
theorems on `FirstRun` and `SnapshotOutputs` hold for any number.

The widths of `payloads` are chosen so that the last digit of the widest varint has
room for one bit, as it has with 7 of 64; a blob can then be longer than one digit
counts. The keys of `tx_extra` have two bytes, so that a length in keys and one in bytes
differ. 13 words to the power of three are a little more than 2 ^ 11, as 1626 to the
power of three is more than 2 ^ 32, so that some groups of words stand for no number.

Deadlock is not checked where the program ends: a run of the signer, of a
script, of a reader, of the phrase decoder, a card that is not used any more, and the
exchange, which may stop. The subaddress table
never stops and is checked.

Fairness. `SnapshotTxs` assumes weak fairness of the script's steps: it is one sequential process
whose calls return or time out; nobody has to start it again. `SnapshotOutputs`
and `Fanout` assume the same, and of the wallet programs
and the chain one by one: a server that was told to stop or to start does, a transaction that was sent
is mined and matures. Nothing says when. `Fanout` assumes strong fairness of `Transfer` besides: the
wallet may refuse any number of rounds, but one that refuses every transfer for ever leaves nothing
to reach; it is a wallet that is asked again and again that gives in once. `FirstRun` assumes weak fairness of what the machine
does by itself, and strong fairness of `Disarm`: a `sed` that fails every time would run the
first setup for ever, since the hook reports success regardless; cuts are bounded.
`round_trip` assumes, for `SyncCompletes`, an owner who keeps trying: exports again
while images are missing, shows the newest export to the device again and again (strong
fairness, since the device may be off or busy each time), does not cut the power
every time (strong fairness of finishing), does not leave a run hanging, and imports the
newest reply. No single attempt is assumed to succeed.

## 4. Finding and remarks

The finding is `ChangeImagesReturned` (FORMATS.md, section 6, point 5): key images of
change go into the reply. `construct_and_sign` adds them only when the subaddress table
knows the change address. wallet2 sends change to the primary address of the
account spent from; for an account beyond the window (from 5 on) whose primary
address has no transfer in the set, the transaction is signed and the image
silently left out. `ReplyImagesTrue` states the part that holds.

Remarks met while modelling. The models behave as the code does, so the sentence quoted
would be refuted; the property named states what holds.

- FORMATS.md:107 says that the reply's offset echoes the export's. `main.rs:62` cuts
  it to 32 bits and refuses nothing; the export's has 64. `ReplyAnswersExport` is about offsets that fit.
- `snapshot_txs.py:9` says "Frozen outputs are thawed afterwards". The exit for
  kept outputs below the fee reserve (line 62) lies between the
  freeze loop and the `try`, and leaves the surplus frozen. `ThawedAfterTransfer` excepts it.
- `snapshot_txs.py:4` says that what is submitted is stored with provenance. The rows are
  written after the last count (line 93); any exit at a later count loses those of earlier ones, and
  so does a `submit_transfer` whose answer is lost. `ProvenanceTrue` asks for a full set of
  rows of a run that is through.
- `snapshot_outputs.py:3` says that the reply is imported and the server restarted. A
  server that outlives the three seconds keeps the wallet file:
  the import fails without a word, the new server gives up, and the script may even be answered
  by the old one. `ImportedInTime` is about the other runs.
- REPORT.md:123 says that ten blocks pass between rounds. `fanout.py:87` sleeps for a
  minute, so a round normally begins with the last one's transactions pending, takes them for missing
  and sends them again: the target is passed. `NoOvershoot` says how far: the excess does not add up
  over the rounds, it is at most what was pending when some one of them began.
- `sign.rs:362` says that keys are added to the hot wallet's fields. `write_extra` sorts
  by tag (line 192) and padding has the lowest, so padding that
  the hot wallet put at the end is written at the front, without a length, and whoever parses
  the result takes the keys and the id for padding. `KeysReadable` and `FieldsKept` are about
  extras without padding; wallet2 puts none in a transaction it exports.
- A run of `snapshot_txs.py` that ends early under a label that has been used may leave a fixture
  overwritten or removed that a row of an earlier run describes; the script reports the failure. After a run that is
  through, the last row of each count describes what is there (`ProvenanceTrue`), and earlier
  rows of the count describe files that are gone. A count given twice on the command line is
  the same case within one run.
- A run of `snapshot_outputs.py` that fails after the export leaves an `outputs.bin` newer than the last
  note. `NoteTrue` is about runs that end well.
- A set can mark a subaddress as a standard address or the other way round, and `construct_and_sign`
  trusts it. The payee so marked may not find its output, and may be unable to read a payment id;
  `RecipientsReceive` says that nobody else is affected, and the change never. No wallet writes such a set.
- `fanout.py:79`. A transfer that was sent and whose answer was lost is not counted; the next
  round sends what is missing once more, until it is mined. `NoOvershoot` counts it.
- `xmr-firstrun.sh:116` is not followed by a sync before the command line can reach the card, so
  a cut in between leaves a card that is disarmed and not set up; a cut between `useradd` and
  `chpasswd` leaves an account without a password that no later run mends. `SetUpWhenUp` names
  these, and a cut in the gate that the autorun script of `user-data` repeats, as its three exceptions.
- Three words of a phrase can stand for 2 ^ 32 or more. The sum in `decode_mnemonic` then
  wraps in the release profile, and the phrase is accepted as another spelling of a seed;
  `NoOtherPhrase` states what holds. No wallet writes such a phrase down.
- `construct_and_sign` does not look for an output that a request spends twice. It signs two
  inputs with one key image, which the network refuses; "descending" is then not strict.
  `InputsStayAligned` is proved for requests without such a pair.
- The payee a payment id is encrypted for is found among the payments that are not zero
  (`destination_view_key`), while payments of zero count when the transaction's keys are
  chosen. One beside a payment to a subaddress makes the transaction use additional keys, and
  the payee cannot read the id with the transaction key. No wallet makes such a payment, and
  `PaymentIdForPayee` is proved without them.
- A nonce of zero, which `generate_signature` does not exclude, would give a signature that
  `check_signature` refuses. The chance is one in the order of the group.

## 5. Proofs

Every theorem is about all values of its module's constants: any number of outputs, requests,
transactions, runs, faults or cuts, any sets of payloads. The runs show the same properties on
their instances; 28 of the 30 invariants that the passing runs check are theorems, and so are the three
refinement properties. The five liveness properties are not.

| Theorem | Statement | Argument |
|---|---|---|
| `KeyImages_proofs!LookupExact`, `RefinesEager` | the lazy table implements the eager one, for all keys, indices, listings and windows | invariant: what `known` holds for a key is an index of that key among the reachable ones, it covers primary and listed indices at once and the window once expanded, and every answer is what `known` would answer or a final `None`; uniqueness of the index from the injectivity in `KeyAssumption` |
| `KeyImages_proofs!ReplyCorrect`, `RefusalCorrect`, `RefinesService` | the step-by-step run implements the one-step service, for all payloads | invariant: while deriving, the blob parsed, all outputs up to the number of images are `Owned`, and the images are their true signed images; a lemma shows `OneTimeKeyError` absent exactly for an owned output |
| `KeyImages_proofs!OwnAnswered` | what was made for the account is never refused | the derivation of the sender and that of the owner are one point (`SentIsOwned`), and a refusal names an output that is not owned |
| `KeyImages_proofs!SignaturesAccepted`, `RingSignaturesAccepted`, `SealedOpens` | what is signed is accepted, what is sealed opens, for every order and all hash functions | lemma `Cancel`: k - c x, reduced, and c x multiplied out make k again modulo the order; `Reduced` does the same for a key image that is itself reduced |
| `ColdSign_proofs!PayeesReceive`, `KeysNeverShared`, `InputsStayAligned`, `SignedAsShown`, `ImagesAnswerSet`, `PaymentIdForPayee`, `SignsWhatItShould` | all seven invariants of a signing run, for every set, shuffle and order of key images | see below |
| `ColdRoundTrip_proofs!HotImagesTrue`, `RepliesAlwaysImport`, `ChangeArrivesKnown`, `LedgerKept` | every image the hot wallet holds is true, every reply can be imported, change arrives with its image, and the exchange implements the ledger | see below |
| `SnapshotTxs_proofs!FreezesKept`, `ThawedOnceTried` | what is left frozen, for all wallets and raising calls | neither is inductive; `FreezeInv` says for each statement what is frozen in terms of the loops' remaining work, and that the surplus is disjoint from the owner's freezes |
| `SnapshotTxs_proofs!InputCountsExact`, `RowsDescribeFixtures` | what is submitted has the exact inputs; a row stands for files that are there | `SetInv`: what the two files of the count hold at each statement, all of one subaddress; `NoteInv`: this run's rows are one for each count before this round's, the last of each count describes its files, which only a round of the same count touches, and every earlier row was submitted |
| `Scripts_proofs!NotesAreTrue`, `ReplyImported` | the note is about the two files that are there, one answers the other, and the reply was imported if the server went in time | from the export on, the script's copy and the file agree; from the reply on, so does the reply; `HandedOver`: who has the wallet file at each statement |
| `Fanout_proofs!TransfersAffordable` | no transfer is asked for more than can be paid, for all funds and sizes | invariant `Covered`: when a transfer is asked for, what it sends and the reserve are within what is unlocked; `ShareBelow` shows it of the share whatever the division rounds, and what is unlocked only grows until the transfer, `WorthGrows` by induction over the sets of outputs |
| `Fanout_proofs!NoMoreThanMissing` | the target is passed by less than a transaction, those pending when some one round began and those whose answers were lost | transactions are mined in order (`InOrder`), so what a round does not count is the pending suffix; `AllCounted`: outputs not counted at the start of the round were pending then or sent in it, answered or lost; `WithinNeed`: what is sent and still tried is missing (`MissingBelow`); a round adds nothing unless it counts less than the target, so the bound starts anew with each |
| `Scripts_proofs!ComesUpSetUp`, `NoOldResult` | what is on a card that comes up, for any number of preparations and cuts | `Inv`: how far the hook has come says what is in `cache`; until it is disarmed the hook is on the card, so any cut leads to another first run; after the sync everything is on the card and nothing takes it away |
| `Mnemonic_proofs!PhrasesDecode`, `OnePhrasePerSeed` | decoding and encoding a phrase undo each other, for every list, width and number of groups | lemmas: a quotient and its remainder are unique, a difference modulo n undoes an addition (`Difference`, `Addition`), three digits of base n are found by dividing (`Digits`); the invariant says which words were found and which numbers they make |
| `TxExtra_proofs!VarintRead`, `WrittenParsed` | a varint, and any list of fields without padding, is read back as it was written, wherever it stands | see below |
| `TxExtra_proofs!FieldsAccounted`, `KeysAreReadable`, `FieldsAreKept` | the signer's keys and the hot wallet's other fields are found in what is written, for all extras, numbers of fields and lengths | see below |

**Signing.** A run works on one transaction at a time, and what a section has made is only read
until the transaction is sealed. `WorkInv` says what each section leaves behind: sorted inputs
of an acceptable request, a permutation of its destinations, the key and the nonce as
functions of these, outputs that are on the curve. No property of the signed transactions
is inductive without it, since `Seal` only collects. With it each is one fact about the transaction
that `Seal` appends (`SealedDrawn`, `SealedAligned` and so on), proved without a step of the
system:

- a lone subaddress gets r*D and all others r*G, so the derivation of the output's position is the one its
  payee computes from the transaction key or from the additional key of the position, and from
  no other key, the secrets drawn being different for each transaction and position;
- what the set says of other addresses moves a payee between the two keys but
  leaves it one it can use, so only its own flags have to be true; of each address the first in the
  shuffle is counted (`CountedOnce`, `PayeesApart`);
- a shuffle is a bijection, so what is counted over outputs is counted over destinations
  (`FS_Bijection`), and a sum does not depend on the order of its terms (`SumRearranged`);
- a finite sequence has a descending arrangement, so `SortedInputs` chooses one, and it is strict
  when the keys differ (`RankAssumption`);
- totals wrap alike on the screen and in the transaction, and what the rings commit to is what
  was added up, since an accepted ring opens at the member that is signed for.

What TLA+'s sums and sorts need of induction over a finite set is proved from a least
counterexample, since the theorems of the library that take an operator cannot be used.

Two of the seven have a hypothesis: `InputsStayAligned` assumes `SourcesDistinct` and
`PaymentIdForPayee` assumes `PaymentsPositive`, neither of which the code checks (section 4).
The other five hold of every set; `RecipientsReceive` and `PaymentIdReadable` speak of payees whose
addresses the set describes truly (section 4); in `SignsWhatItShould` refusals and signatures are exactly
those of `Signable`, which is stated of the request alone.

**Round trip.** The properties are about the hot wallet, yet what makes them true is in the payloads
that are under way. `IInv` therefore says of every payload ever made that it is good (`GoodPayloads`):
an export lists the transfers of its range, a reply the true images of a range the wallet still
has, a signed set the images of its change, and that this does not change
when the wallet learns more; that a signing has one set; that the
chain holds only what was signed, and each transfer arrived once. `LedgerKept` maps the chain's transactions
to the ledger's payments: a broadcast is a payment the first time and a stutter if it repeats one that
is mined.

**The bytes of tx_extra.** Two things are proved apart. Of the codec: the digits of a number
are worth the number, the first of them that does not go on is the last one, so a varint is read
back where it stands (`VarintRead`); a count is within what is left, since what it counts follows;
so each field is read back, and by induction on how many are read, all of them (`WrittenParsed`).
Of the run (`ExtraInv`): while parsing, the fields read and those that a reader of the whole
extra would still find make up what it finds; then the fields of every tag are followed by
themselves, tag by tag, through the filter, the new nonce and the added keys. Picking the fields of a tag goes through concatenation
(`OfTagsOfBoth`), through the stable sort (`SortedTagged`) and through the replacement of
the first of its tag (`FirstReplaced`), which is what ties the two together.

The models write these functions by recursion over numbers, or with the library's folds, which are
recursive too. Where the theorems needed what they compute (`WriteVarint`, `DigitValue`, `FlattenSeq`,
`Parsed`), it is proved by induction over the set of the numbers for which the statement holds.

**Assumptions.** They are those of the modules, and TLC evaluates them in the runs: pairs of
naturals as indices, injective derivation of spend keys, sentinels outside the data, sequences
as lists, the shape of an output key (`PayloadAssumption`), of sources and destinations
(`SetAssumption`) and of phrases, an order of key images that tells different keys apart
(`RankAssumption`), funds that are amounts (`FundsAssumption`), widths that are at least one (`WidthAssumption`), `NumberLimit` below the cube of the list, keys, pads
and extras that are bytes of the right lengths (`BytesAssumption`). Hypotheses of single theorems
are `SourcesDistinct` and `PaymentsPositive`, explained in section 4 (each is
needed: TLC refutes the property on an instance that breaks it), hash functions and checksums that yield numbers, and a
cipher that undoes itself. The cryptography is assumed by construction of `StealthKeys`.

`Signatures` states what `StealthKeys` takes for granted in symbols, that a signature made
with the right secret verifies; that no other does is an assumption of cryptography. The
`key_images` run evaluates its three theorems in a group of seven elements.

Only model-checked:
- Liveness: `Terminates`, `Finishes`, `ReachesTarget`, `ComesUp` and `SyncCompletes`. Fairness and ENABLED are outside the prover's reach.
- `ReadsBack` and `EchoVerbatim` of `PayloadReads`. That varints and counted bytes are read back
  is proved; what is left is the grammar of the payloads, which the module has as a form of forms
  that a theorem about all payloads would have to be an induction over.

## 6. Not modelled

- Argument handling, environment variables and printing of the command line.
- From seed to keys (`from_seed`) there is cryptography only.
- Elliptic curve, hash and proof internals; side channels; builds. The benchmarks and the
  gate (`spike-bench`, `fcmp-bench`, `xmr-gate`, `report_tables.py`) time and compare
  library calls one after the other and keep nothing.
- The word of the machine. The device has 32 bits and cuts the 64-bit position of a real
  output before comparing it with the ring (`txset.rs:132`); it cuts it likewise where it
  uses it.
- Commands of the first run that fail other than the disarming one, its log, a command line
  torn within the file, and the users module of cloud-init, which makes the same account.
- In `fanout.py`, creating the destination addresses before the first round.
- The payment id inside the address that `summarize` shows.
- The order in which `sign.rs:503-517` writes the slices of the signed set that `PayloadReads` cuts
  out, and the memory reserved for counted elements.
- What a password and a result should survive in a power cut on the card: nothing in the
  repository says it, and `SetUpWhenUp` names the moments at which they are lost.
- Outputs the account pays to itself at an address other than the change address
  get no key image in the reply. FORMATS.md speaks of change only.

## 7. Plan

Done in this order, the most important behaviour first: the table (with proof),
the key image service (with proof), signing, the round trip, `snapshot_txs.py`
(with proof), the mnemonic and tx_extra, the payload readers, the other two
scripts and the benchmark card (the latter with proofs), the signatures (with proofs);
then the proofs about signing, the round trip, the fixture scripts, the mnemonic, the fan-out
and the bytes of tx_extra.

To do: what a payload of the right form is, for any number of transactions and outputs, and
from it `ReadsBack` and `EchoVerbatim` for all of them.
