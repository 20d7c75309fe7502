# CrossPoint reader: a verification development

TLA+ models of the parts of CrossPoint (an e-book reader for ESP32 e-paper
devices, with hosted builds for Android and Kindle) in which the order of steps
decides whether the program is right: the screen manager and its render task,
the start of the device and its sleep, the caches of a book and of a chapter, the
reading position, the firmware update, the display and the touch mailbox of the
Android build. TLC checks small instances; TLAPS proves the most
important results for every value of the constants.

`PROJECT.json` lists the components, runs, theorems, hazards and findings, and
maps each definition to the lines it models. Paths below are relative to the
repository's root.

## 1. Inventory

### Threads

| thread | code | shares |
| --- | --- | --- |
| main task | `setup()`, then `loop()` for ever (`src/main.cpp`) | everything |
| render task | `ActivityManager::renderTaskLoop()` | current activity, section, display |
| UI thread (Android) | `ReaderActivity.kt` through `lib/hal/android/JniBridge.cpp` | surface, gesture mailbox |
| web server | `handleClient()` in the main task's `loop()` | files |

`RenderLock` is one mutex, `renderingMutex`, held by the render task for a whole
draw and by the main task around changes of the current activity. Activities are
expected to take it when they write what `render()` reads
(`docs/activity-manager.md`), and some do not. The render task is woken by a
task notification; the main task can wait for a draw (`requestUpdateAndWait()`)
through a second notification.

### Components

| component | state | operations | interacts with | what makes it correct |
| --- | --- | --- | --- | --- |
| Activity manager | current activity, stack, one pending action, result handlers, update flag, notifications, mutex | push, pop, replace, results, `requestUpdate*`, boot, sleep, gestures | every screen; render task; `main.cpp` | the activity being drawn is never destroyed; updates and wakes are not lost; results reach their starter; it is a stack of screens |
| Boot, loop, sleep | `state.json`, retained frame, silent-restart target in RTC memory | route at start, sleep, wake, silent restart | activity manager, reader, settings | the sleep screen is up before sleep; a book that crashes is not reopened for ever, one that slept is; a sleep is not a restart |
| EPUB reader | chapter, page, pending jump, cached position, notes, `progress.bin` | open, turn, jump, note, reflow, sync, draw, save | section cache, activity manager, display | the reader is where the user left it |
| Section cache | `.bin`, `.bin.part`, LUT, page counts | load, build step, suspend, commit, read page, clear | EPUB reader, SD card | a page read is the one asked for in the layout in force; a committed file is complete |
| Hosted display | framebuffer, gray planes, staged frame, window | draw passes, stage, refresh | render task, UI thread | the surface shows the last page; no dead surface is written |
| Hosted touch | one pending gesture, contact, suppression | post, take, suppress | UI thread, main loop | gestures in order, once |
| FreeRTOS shim | notification slots, mutexes | notify, take | activity manager | as FreeRTOS, within its slots |
| Book metadata cache | `book.bin`, temporary files, style rules with their backup | two-pass build, load, replace the rules, remove chapters | EPUB, section cache | never half built; chapters are laid out with the rules on the card |
| Firmware update | two partitions, two entries of `otadata`, the image on the card | validate, write, switch, restart | boot loader, activity manager | a complete image, not tagged for another board, always boots |
| Bookmarks | list, file | add, delete, jump | EPUB reader | list and file agree |
| Settings, state, recent books | JSON stores | load, save | everything | survive a crash |
| Web server and uploads | upload in progress, socket transfer | put, delete, rename | caches, files | no cut file under a final name |
| WiFi, downloads, OPDS, KOReader sync | connection state | connect, retry, transfer | network | end, and tell the truth |
| Fonts, layout, drawing | caches, text, pixels | measure, draw | render task | sequential |
| TXT and XTC readers, dictionary, other screens | focus, page, index | as the EPUB reader, smaller | activity manager | as above |
| Kindle port | raw contacts, update queue | classify, refresh | render task | gestures and frames in order |

### What is hard here

The hazards in `PROJECT.json` name these at their lines. By kind:

* **two tasks on one object**: destroying an activity while it is drawn; waking
  the wrong waiter; reading a page through the file handle of a build; moving
  the page between the test of the lock and the write; losing the surface while
  it is painted;
* **sequences of legal calls**: a result handler that opens another screen; a
  gesture between the queueing of the sleep screen and its application; a note
  left by a jump; the end of a book, then another chapter;
* **stale positions**: a page number that belongs to another layout;
* **power loss** between any two writes of a cache, the progress or state file, the
  rules of a book, or the boot selection; and a crash that would repeat itself at
  every start;
* **one step of several failing**: planes that cannot be allocated, a page that
  the card refuses, an extension that cannot start, a build given up half-way;
* **waiting**: a wait under the lock, a build loop that makes no progress.

## 2. Modules

| module | models | checked by | proofs |
| --- | --- | --- | --- |
| `ScreenStack` | abstract: a stack of screens of which the top is painted | as a property of `ActivityManager` | |
| `ActivityManager` | `src/activities/ActivityManager.cpp/.h`, `RenderLock.h`, `Activity.cpp`, calls from `main.cpp` | `activity_manager`, `disciplined`, `sleep_screen` | `ActivityManagerProofs` |
| `BootGuard` | `setup()`, `enterDeepSleep()` and `silentRestart()` of `main.cpp`, `ReaderActivity.cpp`, `CrossPointState.cpp`, `PersistableStore.cpp` | `boot_guard` | `BootGuardProofs` |
| `BookCache` | `lib/Epub/Epub/BookMetadataCache.cpp`, `lib/Epub/Epub.cpp`, the cache of `CssParser.cpp` | `book_cache` | `BookCacheProofs` |
| `ChapterPages` | abstract: the pages of a chapter that are kept and those that may be shown | as a property of `SectionCache` and of `EpubReader` | |
| `SectionCache` | `lib/Epub/Epub/Section.cpp/.h` and the loops of `renderBook()` around it | `section_cache`, `section_peek` | `SectionCacheProofs` |
| `EpubReader` | `src/activities/reader/EpubReaderActivity.cpp/.h`, `EpubReaderUtils.h`, `ProgressFile.h` | `epub_reader`, `epub_text_reference` | `EpubReaderProofs` |
| `FirmwareUpdate` | `src/network/FirmwareFlasher.cpp`, `OtaBootSwitch.cpp`, `OtaUpdater.cpp`, `SdFirmwareUpdateActivity.cpp` | `firmware_update` | `FirmwareUpdateProofs` |
| `HostedDisplay` | `lib/hal/HalDisplayHosted.cpp`, `lib/hal/android/AndroidPanel.cpp` | `hosted_display` | `HostedDisplayProofs` |
| `HostedTouch` | `lib/hal/android/AndroidTouchDevice.cpp`, `ReaderActivity.kt` | `hosted_touch` | `HostedTouchProofs` |

Each module but `ScreenStack` and `ChapterPages` has an `MC...` module with its instance. A definition named
`D_Something` is a variant of `D` with a plausible mistake in it: no
specification uses it, and replacing `D` by it makes TLC refute the property the
variant is listed with in `PROJECT.json`.

### ActivityManager

`current`, `stack`, `pendingActivity`, `pendingAction`, `requestedUpdate` and
`waiting` are the members of the class (`waiting` for `waitingTaskHandle`);
`renderNotified` and `mainNotified` are the two notification counts;
`mutex` is `renderingMutex`. `mainPc` and `renderPc` are positions in `loop()`
and `renderTaskLoop()`, cut wherever the other task can be seen: each action is the code
between two such points. When the main task runs code of an activity (`onEnter()`,
`loop()`, a result handler), `hook` says which, and any call that code makes to
the manager is possible, up to `MaxCalls` of them. `Kind` separates the screens
with different powers: an ordinary one, home, the boot and sleep screens, which
draw themselves in `onEnter()`, the light panel, which any screen can get by a gesture, and the
USB drive screen, which takes part in nothing else.

Pixels are one fact: `panel = a` when the display shows the latest state of `a`.
`owed` says that the running code changed what its screen shows and has yet to
ask for an update; a hook returns only once it has, which is how every activity
is written, and is what makes `IdleDisplayIsCurrent` a statement about the
manager: it does not lose the requests it is given.

Two switches name what the code does against its own rules. With `UnlockedWrites`
activities also write their state without `RenderLock`. With `RecoveryBoot` `setup()`
may enter `SdFirmwareUpdateActivity`, which starts a child from `onEnter()`.

Left out: allocation failure (`makeUniqueNoThrow()` returning null); the Kindle
path of `enterDeepSleep()`; what screens draw. `SuppressedRelease` exists on builds with buttons only.
`onExit()` makes no manager calls in any activity. `render(std::move(lock))` only binds a reference, so
the lock is held until the end of the iteration, through the handoff to the waiter. On hosted
builds `xSemaphoreGetMutexHolder()` returns null, so the assertion that the
waiter does not hold the lock says nothing there; the model blocks for real.

### ScreenStack

Screens open above the current one, close, or give way all together; the top one
is painted. It says nothing of pending actions, tasks or locks. `ActivityManager`
implements it with `screens <- Shown` (the stack with the current activity on
top) and `display <- panel`: a screen that a handler opens during a pop appears
above the parent, never in place of it, and a closed screen is never on display.

### BootGuard

`disk` is `state.json` and `app` the copy in memory (`APP_STATE`), with the four
fields a start depends on: the book's path, `readerActivityLoadCount`,
`lastSleepFromReader` and `showBootScreen`. `frame` is the file that keeps the
screen over a sleep. `at` is where the main task is, one step per write to these
files (`SleepActivity` rewrites `state.json` once more when it takes a picture from a
folder, `ChoosePicture`); `down` says why it does not run, which decides what the board reports at
the next start. The user may hold Back or the recovery combination.

`PersistableStore` removes the file and writes it anew (`SDCardManager.cpp:350`)
and ignores the result, so `Save` ends with the new fields on the card or with
none (`Lost`, read as defaults), and a `Crash` during a save with either or with
the old ones. Opening a book loads it, fails, or crashes, at any point.

Five history variables carry the promises: `opener` (who opened the book being loaded or
read: the user, `setup()` after a silent restart, which does not count it, or `setup()` at
any other start, which does), `suspect` (the opener of the last book cut by a crash, until
a book is closed or the user opens one), `slept` (the book a sleep in good order leaves),
`intact` (all was written and left in order since the sleep began), `wakes`.
`slept` and `intact` are withdrawn when a save is lost, when a crash comes, and
when `goToSleep()` returns before the reader's `onExit()` has run (run
`sleep_screen`): after these the program promises nothing, and it shows. On
boards where a cold start counts as the power button (`HalGPIO.cpp:289`) a start after
a crash can use a splash flag, and paint over a frame, of an earlier sleep, although
`main.cpp:645` says "Only a verified deep-sleep wake may use the one-shot persisted flag":
`FreshFrame` is therefore about an intact sleep; one whose frame could not be opened for
writing, or removed (`main.cpp:313`, 407), is not. After a power cut
in a book that `setup()` counted, the next start goes home, whatever
cut it: the guard cannot tell a crash from an empty battery. A book that a silent restart opened
(`main.cpp:703-705`), or the user, is not counted: when it crashes, the next start may open it
once more by the flag of an earlier sleep, and only the crash of that one ends it.

Left out: a card that refuses even the removal, or does not mount; the Kindle and hosted
branches of `enterDeepSleep()`; the conditions under which `silentRestart()`
does nothing on a board (both outcomes are allowed).

### BookCache

`bin` is `book.bin`, `tmp` the two temporary files of the passes, `rules` and
`backup` are `css_rules.cache` and its `.bak`, `sections` the rules the chapters on
the card were laid out with. `pc` follows `Epub::load()`; each step ends where the
card changes. A file is whole, cut, empty or of an old version, and `Loads` is
what `load()` makes of it: it compares the version byte and nothing else. The
book is two sequences of spine indexes, those of the nav document and of
the NCX; `Inherited` is the table from spine items to entries that
`buildBookBin()` computes, and `StandsFor` in the property is its independent
definition.

`cut` and `behind` remember that the code has left what it cannot see again: a
`book.bin` cut by a crash, given up after it was emptied, or built from temporary files that lost
writes unseen; and rules that changed while the chapters of the old ones stayed
(a fault between the two, or chapters that could not be removed). The
properties are about the rest; section 5 says what is lost in those cases.

Left out: cumulative sizes, the hash index for spines of 400 items and more, a
`clearCache()` that fails in part, a complete rule cache with wrong contents. A reader
may open a book without its styles (`skipLoadingCss`) and switch them on later, as here.

### ChapterPages

What the reader may count on of one chapter: it opens with at least the pages kept for the
layout in force, gains pages while it is open, is whole only once the file is, and
closing it keeps what was shown or what was kept before (or, after a failure, nothing). An open
chapter loses pages in one way, `Lose`: all of them, and what was kept.
It says nothing of builds, files being written, or who wants which page.
`SectionCache` implements it with `kept <- Kept`, the file on the card or, between
remove and rename, the file being replaced, and `view <- OpenSection`, the open section's
spec and `pageCount`. `EpubReader`, whose sections and files are counts, implements it
once per chapter. That is how the two fit together: what `EpubReader` supposes of sections
when it decides which page a number means is what `Section.cpp` provides, and a reader that drops,
reopens or extends sections in any order asks no more of it.

### SectionCache

`bin` and `part` are the files `<spine>.bin` and `<spine>.bin.part`, with the
version byte as `kind`. `lut` holds the position of each page in the build's file,
0 for a page the card refused; `cursor` is the position of the file handle that
building and reading share. `LayPage` is one page of `buildSomeMore()`; a commit
is `BeginSwap` (tables, header, version, remove) and `Swap` (rename), with `Crash`
possible between, and everywhere else. `Faults` is the set of calls
that may fail; "begin" is `beginParse()` within `startBuild()`, which abandons the build and leaves the open
section without pages (`BeginFails`). `Want` is the page number that `renderBook()` needs, and its loops
are `Build` and `Render` steps while it is set.

A page is the render spec it was laid out for and its number. Left out: the
anchor and paragraph tables, page estimates, the contents of pages. The unlocked
reader (`PeekSeek`, `PeekRestore`) is in `PeekingSpec` only.

### EpubReader

A chapter is a sequence of `Length` units of text and a layout a number of units
per page, so that page numbers mean different text in different layouts, and text
offsets do not. `place` is what the code knows of where it is: `currentSpineIndex`,
`nextPageNumber`, the pending jumps, the remembered position
(`cachedSpineIndex`, `cachedChapterTotalPageCount`, `cachedVisibleTextOffset`),
and the open section's page and counts. A section and its file are the counts of
`SectionCache`: how many pages exist, are being laid out, or come from a partial; both keep
the promise of `ChapterPages`.
`rpc = "save"` is the render task between the drawing of a page and the saving of progress.

`goal` is the promise to the user: the set of places of which the next page drawn
must show one. A turn promises the neighbouring page, a jump its target, reopening
what was on the display, a change of layout the text that was at the top of the
page. Where the code keeps only a page number and the layout changes, it can
promise no more than the chapter, and neither does `goal`; each such place is an
explicit case (`Numbered`, `StillKept`, `Provisional`, `SectionFails`,
`DeleteCache`, `Origin`), so that the rest of the model is held to the page.
`kept` is the promise that `progress.bin` makes to the next start.

`Lossy` names the situations where the code loses the place. The run with an
empty set shows that outside of them it does not; every one of them, allowed,
gives a counterexample:

| token | what happens |
| --- | --- |
| `afterEnd` | `onReturnFromEndOfBook()` (1113) leaves `pendingPageJump` set when the last section is open; the next chapter opened starts on its last page |
| `leaveNote` | a note is left by a jump, and closing the book saves the place it was followed from |
| `oldBookmark` | a bookmark's page number belongs to another layout and its chapter is not laid out yet: its offset is dropped when the partial puts the build off |
| `race` | `loop()` looks at the lock (1050), then moves `section->currentPage` without it: a render in between saves a page that is not the one drawn |
| `skip` | `skipPages()` (1087) does not forget the remembered position: the build that completes later moves the reader back to it |
| `crash` | power is lost between the drawing of a page (or the commit of a section) and the saving of progress |
| `extension` | the extension of a partial could not start (386): a turn on its last page takes it for the whole chapter and goes to the next (1054) |
| `failedOpening` | an opening that failed keeps `pendingAnchor` or `pendingPageJump`; the next jump is read with it, and a sync saves `nextPageNumber` without an offset |

`RenderFails` is a build or an opening that fails: the error is on the display, the
section is dropped and a pending jump stays pending for the next draw. Outside of the two
situations above this is harmless: the retry goes where the first try would have.

Left out: anchors that do not exist; empty chapters; `beginParse()` failing at an extension,
which empties the open section; the steps within a save
(remove, then rename; `ProgressFile.h:22` accepts that a crash between them leaves no progress); the estimate of the total page count (taken as exact).

### HostedDisplay

A pass of the render task is a sequence of `HalDisplay` calls; `Passes` lists the
seven sequences the screens make. Every call that takes `AndroidPanel`'s mutex is
a step, and a present is two, with the UI thread excluded in between by the mutex.
The UI thread hands surfaces over and withdraws them at any moment, and two Activities may
overlap: `nativeSetSurface(null)` does not say whose surface goes (`Jni.cpp:217`), so `SurfaceDestroyed` of
any surface takes the panel's window. `MayFail` is
the set of passes in which the framebuffer cannot be stored or a picture cannot be read
again. A gray plane that is not there yet may fail to be allocated at any pass, and without both (`HavePlanes`) nothing is overlaid
and the staged base is presented alone (`HalDisplayHosted.cpp:292-317`). Passes are serialised by `RenderLock` and the panel has begun. Left out:
`ANativeWindow_lock()` failures, geometry, the tiled
paths (unreachable with `stripUploads` false).

### HostedTouch

The three members of `AndroidTouchDevice`, the frame's gesture in `HalGPIO`, and
the contact in progress on the UI thread. Android's `GestureDetector` is external:
a contact has at most one long press, and then nothing; otherwise a tap, a swipe,
or nothing.

### FirmwareUpdate

`app` is what each of the two partitions holds: a complete image tagged for this board, one without a
tag, one for another board (by its tag) or chip, or a part of one. An image without a tag is accepted, from the card
and from the network (`FirmwareBoardTag.h:14-16`), as is one for another chip while the running
image's own header cannot be read (`FirmwareFlasher.cpp:148`): such an image may be for another board, and
nothing here promises that it runs. Once it does, what it does with the flash is its own; the model
lets it do all that this program does. `otadata` is the two entries of the boot selection; the functions of
`OtaBootSwitch.cpp` on them are operators (`Active`, `Selected`, `NewSeq`,
`TargetSlot`). A write of 32 bytes is whole or leaves a blank entry; the erasure and the
write are two steps. The user may swap the card while he is asked, and the file is
validated again (`FirmwareFlasher.cpp:289`); a swap between that validation and the opening of the file a
few lines later is not modelled.

The boot loader, its rollback and the confirmation of an image by the Arduino core are external:
with `Rollback` a new entry gets one start, and is given up if that start does not confirm it.
`FirmwareFlasher.h:12-13` and `OtaBootSwitch.h:8-12` speak of one path for both kinds of update
(download to the card, then flash; no `esp_image_verify`), but
`OtaUpdater::installUpdate()` writes the partition as data arrives and calls `esp_ota_end()` and
`esp_ota_set_boot_partition()`; the model follows the code. `RecoveryBoot::checkBootCombo()` of
freeink-sdk, a copy of `switchTo()` that checks only a magic byte, has no caller.

## 3. Runs

Between them the passing runs take every action of every module.

| run | instance | question | result |
| --- | --- | --- | --- |
| `activity_manager` | 8 activities, depth 2, 2 calls per hook, unlocked writes and recovery boot allowed | the manager under any activity code | holds |
| `disciplined` | 6 activities, no unlocked writes, no recovery, with fairness | waits return with the caller's state drawn, results match, both tasks progress | holds |
| `sleep_screen` | as `activity_manager`, 1 call | is the sleep screen up when the device sleeps | refuted |
| `boot_guard` | 2 books | starts, sleeps, restarts, crashes and lost saves in any order | holds |
| `book_cache` | 3 spine items, 3 tables of contents, 2 partial rule sets | building, loading and replacing with any failure and power cut | holds |
| `firmware_update` | rollback, `ota_seq` up to 8 | updates that succeed, fail, are cut or given up, in any order | holds |
| `section_cache` | 2 specs of 3 and 2 pages, wanted pages 0, 1, 2 and 7 (past the end), failures to start, begin, parse, write and rename | pages, files, counts, and the end of the loops | holds |
| `section_peek` | no failures, unlocked page reads | the same pages | refuted |
| `epub_reader` | 2 chapters of 3 units, 1 or 2 units a page, 1 note, 1 mark | is the next page drawn the one promised | holds |
| `epub_text_reference` | the text reference is chapter 1 | the same | refuted |
| `hosted_display` | 2 surfaces, 3 pages, failures in text, picture and bitmap passes | surface, grays, framebuffer | holds |
| `hosted_touch` | 4 contacts | gestures in order and once | holds |

### Properties

* `DrawsOnlyTheCurrent`: while `render()` runs, its activity is the current one;
  it cannot be destroyed or stacked under the render task.
* `PendingIsComplete`: a queued push or replacement has its activity, so the loop
  that applies it ends.
* `NoStrayWake`, `WaiterIsRemembered`: no wake survives the wait it belongs to,
  and a waiting main task is known to whoever has to wake it.
* `IdleDisplayIsCurrent`: with both tasks idle and nothing recorded, the display
  is up to date: no request is ever lost.
* `SleepScreenStays`: nothing is painted over a sleep screen once entered.
* `ImplementsScreenStack`: the refinement of `ScreenStack`.
* `WaitReturnsDrawn`, `WaitEnds`, `NotifiedRenders`: `requestUpdateAndWait()`
  returns, and only with the state of its caller drawn; a notified render task
  gets to draw.
* `ResultsReachTheirStarter`: a result meets the handler stored for that child.
* `ReadsItsLayout`, `AvailablePagesLoad`, `CommittedIsComplete`,
  `PartialOnlyGrows`, `WantServed`: a page read is the
  one asked for, in the layout in force; pages counted exist; a file is what its
  version says after any crash; a partial never gets shorter; the render task's loops end.
* `ImplementsChapterPages` (in `section_cache` and in `epub_reader`): the refinement of
  `ChapterPages`; among other things an open chapter never gets shorter, unless it loses all
  its pages with its file because the parser could not begin.
* `ShowsTheGoal`, `SavedIsShown`, `DrawnPageExists`: the promise above; progress
  names what is displayed; no page out of bounds is drawn.
* `NoBootLoop`: after the crash of a book that `setup()` opened and counted it opens none,
  and after the crash of one that the user or a silent restart opened, one at most, which it counts,
  until a book is closed or the user opens one. `ReadingResumes`: a device that slept
  in good order in a book starts with it, also when the sleep moved the finished book.
  `SleepIsFinal`: from the decision to sleep the device goes to sleep or crashes; no screen
  that is left on the way restarts it, and none opens.
  `SplashlessOnce`, `FreshFrame`: a start without a splash does not repeat itself, and
  restores the frame of the last sleep.
* `LoadedIsWhole`, `SectionsUseTheRules`, `RulesSurvive`: a book that opens has its whole table
  of contents; the chapters on the card belong to the rules on the card;
  rules are never lost while they are replaced.
* `SelectedIsWhole`, `SuccessBootsNew`, `FailedChangesNothing`: the partition that would boot
  has a complete image, not tagged for another board, at every moment; a reported success is what starts next; anything
  else leaves the selection alone.
* `WritesLiveSurface`, `IdleShowsThePage`, `GraysMatchTheirBase`,
  `IdleFrameIsThePage`: no write to a surface that was withdrawn; between passes
  the surface has the whole page and the framebuffer its base; grays are of their base.
* `GesturesInOrder`: a frame sees a gesture of a later contact than any before.

### Bounds

`MaxDepth` 2 gives a screen, its child and grandchild, and a pop that lands on a parent
that has one itself; `MaxCalls` 2 gives every ordered pair of calls in
one hook (write then ask, push then ask, finish then start another).
Ordinary and home screens exist twice, so that one can replace another;
the others once. `disciplined` and `activity_manager` differ in what the activities may
do, not in the code of the manager.

In `section_cache` a chapter of three pages has partials of one and two pages and
extensions of each; the second spec has another number of pages, so that a count
from one never fits the other by accident. Page 7 stands for the sentinel of "last
page". In `epub_reader` chapters have three pages in one layout and two in the
other (the last one half full), so a page number can be past the end of the other
layout; two chapters give a first and a last one. Two books in `boot_guard` are the one
that crashed and the one opened after it. In `book_cache` three items allow a first item
without an entry, one that inherits, and entries out of order; two partial rule sets
tell a kept part from a new one. `ota_seq` up to 8 is six updates or starts given up, enough for
each parity in each slot. `Marks`, the places that links, contents entries, bookmarks and percentages lead to, are the one
last page of the second chapter, which a partial may not reach (positions inside a page come
from a change of layout), and the constraint `FewFailures` follows a failed
opening only outside of notes; the instance with every place a mark and
without the constraint (1.5 million states) was explored once and has no violation, and
one of four units, 1 or 3 a page and two notes to 8 million states, before failures of openings were modelled. Three pages and two surfaces let grays of one page
meet the base of another and a surface be replaced during a pass. `MaxContacts` ends
a touch session, which is why that run does not check for deadlock; every other run does.
The surfaces of `hosted_display` may both be alive at once.

Symmetry is used for interchangeable activities and surfaces in runs that check
safety only.

### Fairness

Only `disciplined` and `section_cache` state any. In `ActivityManager`: the render task's steps
are weakly fair, since a thread that can run is scheduled; its acquisition of the
mutex strongly, since the main task sleeps outside the lock in every iteration of
`loop()` (`main.cpp` 1079-1098: a delay, or `yield()` while the web server runs), so that a waiting thread gets it sooner or later;
the steps by which the main task waits and applies a queued action weakly. Nothing
is assumed of activities: a hook need never return. In `SectionCache`: weak
fairness of the loop of `renderBook()`, which runs holding `RenderLock` and
neither waits nor yields until the page exists or the section is dropped.

## 4. Proofs

### ActivityManager (`ActivityManagerProofs`)

For any set of activities, any depth and any number of calls,
`Spec => []Inv` with

    Inv == TypeOK /\ LockOwner /\ Position /\ OneOwner /\ Pixels /\ Handshake
           /\ UpdateComes /\ LastPass /\ Answered /\ Handlers

None of the safety properties is inductive alone. `DrawsOnlyTheCurrent` needs
`LockOwner` (the positions of the tasks decide who has the mutex) and the fact
that the main task changes `current` only in two positions. `IdleDisplayIsCurrent` needs
`UpdateComes`: whenever the current activity is not displayed there is a place (flag,
notification, the frame being composed, the running code, a queued action) from
which a draw will come. `WaiterIsRemembered` needs `Handshake`: the wake of a
waiting main task is in exactly one place. `SleepScreenStays` needs `LastPass`.
The proof has one lemma per
part and, in it, one case per action that touches it. `OneOwner` rests on a few lemmas about
pushing onto and popping from an injective sequence.

`WaitReturnsDrawn` is proved under `~UnlockedWrites` and
`ResultsReachTheirStarter` under `~RecoveryBoot`: exactly the conditions without
which TLC refutes them.

The module also proves `Spec => ImplementsScreenStack`: the initial
state maps to the initial state, and each action to a step of `ScreenStack` or a
stutter.

### SectionCache (`SectionCacheProofs`)

For any set of specs and any number of pages, under

    Disciplined == ~LayoutChanges /\ "tables" \notin Faults

and for `Spec`, in which pages are read under `RenderLock`: `Spec => []IInv`, then
`ReadsItsLayout`, `AvailablePagesLoad`, `CommittedIsComplete`, `PartialOnlyGrows`
and `ImplementsChapterPages`. `IInv` says that a file on disk is a beginning of the
layout of its spec (`FileInv`), that the build's pages are where the LUT says
(`BuildInv`), what an open section knows of the file it came from (`LoadedInv`),
and what a file between remove and rename is (`SwapInv`). Failures to start, to begin,
to parse, to write a page and to rename are allowed.

For the refinement, each action is a step of `ChapterPages` or a stutter: starting a build and
`BeginSwap` are stutters, a page laid out is a `Grow`, a parser that cannot begin a `Lose`, the rename a `Grow` or a `Close`, and whatever drops
the section a `Close`. `PagesBounded` derives from `IInv` that no more pages are available than the
chapter has, and all of them when the section says it is complete.

### BootGuard (`BootGuardProofs`)

For any set of books, with "none" not among them: `Spec => []IInv`, then the five properties. `NoBootLoop`
needs to know what the card holds at each position: after the crash of a counted book every start finds a load
count above zero or an empty path, and every save on the way keeps one of them or loses the
whole file, which is as good; and no screen that could restart to the reader is reached without
closing a book (`SuspectInv`). `SleepIsFinal` needs that the flag is set before any screen is left (`DeepInv`). `ReadingResumes` needs that a sleep in good order has the path, a
zero count and the flags on the card and that `FollowBook` keeps path and file
together; `SplashlessOnce` that the splash is on the card before the frame is touched.

### BookCache (`BookCacheProofs`)

For any spine, documents and partial rule sets: `SectionsUseTheRules`, `RulesSurvive` and `LoadedIsWhole`. For the
first two the invariant says
when the chapters may be of other rules than the card's: between the replacement
and the removal, during which no book is open, and where `behind` says so;
and that while the rules are gone the chapters go with the backup that would take their place.

`LoadedIsWhole` follows `book.bin` through the steps of its build: what is in memory, in the temporary
files and on the card is of the documents of this book, or `cut` says so (`BuildInv`, `BinInv`, `WholeInv`).
That the table from spine items to entries is right is a fact about the recursive function `Inherited`.
The prover sees such a function as a `CHOOSE`, so its equation is shown first, with an explicit
function that satisfies it (`InheritedItem`), and the rest by a least counterexample instead of
an induction (`LeastNatural`, from the well-foundedness of the naturals; `InheritedStandsFor`).

### EpubReader (`EpubReaderProofs`)

For any number of chapters, length, layouts, marks and margins.

`CoreInv` is the inductive invariant, and holds with every token in `Lossy`. `Storage` says that a section file has
no more pages than its chapter and all of them when it is complete, that the pages of an open
section are those of its partial and those laid out, and that the file it came from is still there
(`Matches`); `PlaceInv` that the open section is of the current chapter, or of the last one at the end of the book;
`ClosedInv` that a closed book leaves nothing behind. The forty ways of moving about are three as far as storage is
concerned: a step releases the section (`Released`), opens one from what is on the card (`Opened`), or adds
pages to the open one (`Grown`). `StepStorage` shows which action is which, and each kind is shown once to keep
`Storage` and to be a step of `ChapterPages`, whence `TypeCorrect` and `KeepsChapterPages`.

`DrawnExists` and `DisplayedIsSaved` add `PositionInv`: between drawing and saving the section's page exists and is the one
drawn, and what was saved last is what the file names. Both are under `"race" \notin Lossy`: when the page can be moved
without `RenderLock` while it is drawn, TLC refutes them.

`DrawsTheGoal` is `ShowsTheGoal`: what the reader opens, returns to or restarts from is where the user was. `goal` alone
is not inductive, since the place travels through whatever the reader keeps until the next render. `GoalInv` says for each
of them that it leads there:

* `JumpInv`: at most one jump is pending, and none when the section is open but the one to the last page;
* `MemoryInv`: a text offset is remembered only until the section is opened, and a number that will still be
  scaled only where the whole chapter was promised;
* `OpenedGoal`, `DrawnInv`: the page of the open section is on the goal, and the unit drawn is in it once drawn;
* `UnopenedGoal`: the pending jump leads to the goal, or else the remembered offset does in every layout and the page
  number in every layout in which the chapter's pages may still be found (`LayoutsOf`);
* `KeptInv`: likewise `progress.bin`, for the next start; `NotesInv`: the places to return to.

Three lemmas carry the arithmetic: the first units of pages and the pages of units agree in one layout (`PageEnds`,
`GoalPages`), a build that stops at an offset has laid out its page (`OffsetIsLaid`), and whatever asked for it, a
section is opened and drawn at a page of the goal (`OpenedAtGoal`, `DrawnAtGoal`). The rest is a lemma for each action.
The theorem is under `Lossy = {}` and `TextStart = 0`, the constants of the run `epub_reader`: each
token of `Lossy` admits a situation in which the code loses the place (section 2), and for a book with a text
reference TLC refutes the property (`epub_text_reference`). It does not need the run's constraint `FewFailures`.

### FirmwareUpdate (`FirmwareUpdateProofs`)

For any bound on the sequence numbers, with and without rollback: `TypeOK`, `SelectedIsWhole`, `SuccessBootsNew` and
`FailedChangesNothing`. The invariant says that what boots next is accepted (complete, not tagged for another board) and, while a new
image is unconfirmed, so is what would boot if its entry were given up; that the image about to be selected is accepted and
the entry being rewritten is not the one the boot loader goes by; and that no two usable entries have one sequence. The arithmetic of
`NewSeq` (parity and order) is in lemmas of its own.

### HostedDisplay (`HostedDisplayProofs`) and HostedTouch (`HostedTouchProofs`)

For any number of surfaces, overlapping or not, and of pages: the four properties of
`hosted_display`. `IdleShowsThePage` is under `"epub" \notin MayFail`, the condition
without which TLC refutes it (section 5); the others hold with every failure. Planes that cannot be allocated are
part of all four.
`SurfaceInv` says that a present holds the lock from taking the window to posting; `PassInv`,
`StagedInv`, `ShownInv` and `GraysInv` say at each step of a pass what the
framebuffer, the planes, the stage and the surface have of the page.

For any number of contacts, `GesturesInOrder`: what waits in the mailbox is newer than
what was seen, and what the contact in progress may still post is newer than both.

### Only model-checked

Liveness (`WaitEnds`, `NotifiedRenders`, `WantServed`), which the prover does not
do. Every other property of a passing run is a theorem.
Constants have the assumptions `ConstantsAssumption`, `BooksAssumption`, `BookAssumption`,
`SectionAssumption`, `ReaderAssumption`, `FirmwareAssumption`, `DisplayAssumption` and
`TouchAssumption`, which say what sort of values they are and no more.

## 5. Where the code does not do what it says

Each of the first three is a run that TLC refutes:

1. `goToSleep()` runs `loop()` once, and that `loop()` can return early: the
   device sleeps behind another screen (`ActivityManager.cpp:296`; `sleep_screen`).
2. Reading a page without `RenderLock` corrupts a build in progress
   (`EpubReaderActivity.cpp:326`, 873, 2558; `section_peek`).
3. A book with a text reference closed in chapter 0 reopens elsewhere
   (`EpubReaderActivity.cpp:236`; `epub_text_reference`).

The others show when an instance is changed as said:

* `UnlockedWrites` TRUE in `MCDisciplined.cfg`, with `WaitReturnsDrawn`: `requestUpdateAndWait()` after an
  unlocked write returns before the new state is drawn (`DictionaryWordSelectActivity.cpp:166`).
* `RecoveryBoot` TRUE, with `ResultsReachTheirStarter`: with the recovery screen as first
  activity, the light panel can displace the picker's push and its result reaches the
  picker's handler (`SdFirmwareUpdateActivity.cpp:27`).
* `MayFail` with "epub", with `IdleShowsThePage`: an EPUB page whose framebuffer cannot be stored is staged
  and never shown (`EpubReaderActivity.cpp:1720`).
* `Lossy` with one of the tokens of the table in section 2, with `ShowsTheGoal` (`DrawnPageExists` for `race`):
  among them a note left by a jump, which overwrites the saved position when the book closes
  (`EpubReaderActivity.cpp:164`), and the anchor of a failed opening.
* `Faults` with "tables", with `CommittedIsComplete`: the tables written after the pages are not
  checked, so a short write commits a file that cannot be read back.
* `LayoutChanges` TRUE, with `ReadsItsLayout`: if the render spec changed under an open partial, its
  extension would mix two layouts: `startBuild()` is given the settings
  now in force (`EpubReaderActivity.cpp:384`) and does not compare them with the file's.
  The reader drops the section when it changes them (2352); `Section` relies on it.
* `LoadedIsWhole` without `~cut`: `buildBookBin()` gives up where a temporary file or the archive
  does not open (`BookMetadataCache.cpp:173`, 250) and leaves a `book.bin` that was emptied, and perhaps
  has a header; `load()` accepts it by its version byte (of an empty file, by a byte it never read), although the comment at
  358 says why a truncated file must not stay.
* `SectionsUseTheRules` without `~behind`: the new rules are in place before the metadata is loaded again
  and the chapters are removed (`Epub.cpp:454-464`). A power cut, a failed reload or a removal that fails in
  between leaves chapters of the old rules for good, although the comment at 462 says "section caches must use
  the same rule set".

And some are visible in the models without a property that fails:

* `startBuild()` says that "availability never drops below the partial's watermark" (`Section.cpp:273`), but when
  `beginParse()` fails it removes the file of the open section and leaves it with no pages (445-448; `BeginFails`):
  the reader then shows the chapter as empty.
* A nav document that cannot be read to its end leaves its entries in the table of contents, and those of the
  NCX are appended (`Epub.cpp:518-534`; `TocEntries`).
* When the surface of an older Activity is destroyed after a newer one handed over its own, the newer
  one's shows nothing new until it is handed over again (`Jni.cpp:217`; `SurfaceDestroyed`).
* In `RenderSave`, an equal chapter, page and count as last saved is taken for the same
  position even when the layout between is another: the offset on disk stays the
  old one (`kept` grows to both places in the model).
* A page that fails to load drops the section without remembering its offset
  (`EpubReaderActivity.cpp:1371`; `SectionFails`).
* The main task reads `book.bin` through the file handle the render task reads it with, without `RenderLock`
  (`EpubReaderActivity.cpp:2194`, 1914, 2481; `EpubReaderChapterSelectionActivity.cpp:43`, 95), against
  `docs/activity-manager.md:273`; `BookCache` reads the file as a whole and does not show it.

## 6. Not modelled

Text layout, CSS, hyphenation, image decoding, drawing and fonts are sequential
functions of large data; a bounded model says little about them. ZIP and JSON
readers likewise. Network code stands mostly on libraries outside the repository.
The Kindle port shares the display and touch abstractions but has its own
classifier and update queue. `PROJECT.json` gives the reason for each component.

The notification slots of the FreeRTOS shim (`ArduinoShim.cpp:478`) are eight, never given back, but
only two threads of a process ever notify or wait, the reader's and the render task: the limit is not reached.
Uploads, the WiFi screen and KOReader sync are state machines that could be modelled and are not yet (section 7).

## 7. Plan

Done, in this order: the activity manager with its abstract stack and proofs, since
everything else runs inside it; the Android display and touch devices with their proofs; the
section cache with its abstract promise and proofs; the reading position, with failures of openings and extensions; the start and
sleep of the device, the book's caches and the firmware update, each with its proofs.

Next:

1. The two steps of saving progress; bookmarks with their file.
2. Uploads, the WiFi connection screen and KOReader sync as state machines over an
   unreliable network; the Kindle touch classifier.
