---------------------------- MODULE EntryProofs ----------------------------
(***************************************************************************)
(* Proofs about the entries: EntryLifecycle, for every set of hosts,       *)
(* passwords and intervals and any number of edits, and Trackers, for any  *)
(* entries and clients.                                                    *)
(***************************************************************************)
EXTENDS EntryLifecycle, Trackers, TLAPS

(* The type invariant in parts: what a form holds, the counts, the rest.   *)
Form == [host : Hosts, password : Passwords]

FormTypeOK ==
  /\ options \in [host : Hosts, password : Passwords, interval : Intervals]
  /\ built \in Form /\ signature \in Form
  /\ flow \in [Flows -> Form \cup {NoForm}]

StateTypeOK ==
  /\ entry \in States /\ disabled \in BOOLEAN /\ removing \in {"no", "asked", "doing"}
  /\ listener \in BOOLEAN /\ notified \in BOOLEAN
  /\ update_interval \in Intervals
  /\ session \in BOOLEAN /\ polling \subseteq Polls /\ commands \subseteq Commands
  /\ followUp \in BOOLEAN /\ repairs \subseteq REPAIR_NAMES /\ stray \subseteq Strays
  /\ pending \in Intervals \cup {NotPending} /\ debounce \in BOOLEAN
  /\ slider \in Intervals
  /\ through \in BOOLEAN /\ late \subseteq {"session", "repair"}

CountTypeOK == reloads \in Nat /\ edits \in 0..MaxEdits

(* A move is waiting exactly while its task sleeps, only while the slider  *)
(* is there to flush it, and it is the last one.                           *)
SliderInv ==
  /\ debounce <=> pending # NotPending
  /\ debounce => HasEntities /\ pending = slider
  /\ IntervalKept

(* From the logout on, what holds was put back, what runs or is armed runs *)
(* on past it, and where nothing runs on nothing is put back.              *)
QuietInv == LoggedOut \/ Unloaded =>
  /\ session => "session" \in late
  /\ repairs # {} => "repair" \in late
  /\ late # {} \/ InFlight \cup stray # {} \/ followUp => through

IInv == FormTypeOK /\ StateTypeOK /\ CountTypeOK /\ SliderInv /\ QuietInv

LEMMA TypeSplit == TypeOK <=> FormTypeOK /\ StateTypeOK /\ CountTypeOK
BY DEF TypeOK, FormTypeOK, StateTypeOK, CountTypeOK, Form

LEMMA BoundType == MaxEdits \in Nat
<1>1. LifecycleAssumption
  BY LifecycleAssumption
<1>2. QED
  BY <1>1

LEMMA EditType ==
  ASSUME edits \in 0..MaxEdits, Edit
  PROVE  edits' \in 0..MaxEdits
BY BoundType DEF Edit

LEMMA FormsAre ==
  ASSUME NEW h \in Hosts, NEW p \in Passwords
  PROVE  [host |-> h, password |-> p] \in Form
BY DEF Form

LEMMA ConnType ==
  ASSUME FormTypeOK
  PROVE  Conn(options) \in Form
BY FormsAre DEF FormTypeOK, Conn

-----------------------------------------------------------------------------
LEMMA InitInv == Init => IInv
<1> SUFFICES ASSUME Init PROVE IInv
  OBVIOUS
<1>1. FormTypeOK
  <2>1. options \in [host : Hosts, password : Passwords, interval : Intervals]
    BY DEF Init
  <2>2. built \in Form /\ signature \in Form
    BY <2>1, FormsAre DEF Init, Conn
  <2>3. QED
    BY <2>1, <2>2 DEF Init, FormTypeOK
<1>2. CountTypeOK
  BY BoundType DEF Init, CountTypeOK
<1>3. StateTypeOK
  BY <1>1 DEF Init, FormTypeOK, StateTypeOK, States
<1>4. SliderInv /\ QuietInv
  BY DEF Init, SliderInv, IntervalKept, QuietInv, Unloaded, LoggedOut, InFlight
<1>5. QED
  BY <1>1, <1>2, <1>3, <1>4 DEF IInv


-----------------------------------------------------------------------------
(* One lemma for each part of IInv, one step for each action.              *)

LEMMA NextForms ==
  ASSUME IInv, Next
  PROVE  FormTypeOK'
<1> USE DEF IInv
<1>1. CASE OptionsUpdated
  BY <1>1, ConnType DEF FormTypeOK, OptionsUpdated, ReloadSignature
<1>2. CASE SetDisabled
  BY <1>2 DEF FormTypeOK, SetDisabled, life, running, history, past
<1>3. CASE Remove
  BY <1>3 DEF FormTypeOK, Remove, life, running, history, past
<1>4. CASE MoveSlider
  BY <1>4 DEF FormTypeOK, MoveSlider, life, running, history, past
<1>5. CASE DebouncedApply
  BY <1>5, LifecycleAssumption DEF FormTypeOK, StateTypeOK, SliderInv, DebouncedApply,
     UpdateEntry, NotPending
<1>6. ASSUME NEW f \in Flows, SubmitForm(f) PROVE FormTypeOK'
  <2>1. PICK h \in Hosts, p \in Passwords \cup {""} :
          flow' = [flow EXCEPT ![f] = Merged([host |-> h, password |-> p])]
    BY <1>6 DEF SubmitForm
  <2>2. Merged([host |-> h, password |-> p]) \in Form
    <3>1. options.password \in Passwords
      BY DEF FormTypeOK
    <3>2. CASE p = ""
      <4>1. Merged([host |-> h, password |-> p]) = [host |-> h, password |-> options.password]
        BY <3>2 DEF Merged
      <4>2. QED
        BY <3>1, <4>1, FormsAre
    <3>3. CASE p # ""
      BY <3>3, FormsAre DEF Merged
    <3>4. QED
      BY <3>2, <3>3
  <2>3. QED
    BY <1>6, <2>1, <2>2 DEF FormTypeOK, SubmitForm, running
<1>7. ASSUME NEW f \in Flows, ValidationFails(f) PROVE FormTypeOK'
  BY <1>7 DEF FormTypeOK, ValidationFails, running
<1>8. ASSUME NEW f \in Flows, CommitForm(f) PROVE FormTypeOK'
  BY <1>8 DEF FormTypeOK, CommitForm, UpdateEntry, running, Form
<1>9. CASE TimerPoll
  BY <1>9 DEF FormTypeOK, TimerPoll, life, running, history, past
<1>10. CASE Request
  BY <1>10 DEF FormTypeOK, Request, life, running, history, past
<1>11. ASSUME NEW k \in Commands, Command(k) PROVE FormTypeOK'
  BY <1>11 DEF FormTypeOK, Command, life, running, history, past
<1>12. ASSUME NEW k \in Commands, CommandEnds(k) PROVE FormTypeOK'
  BY <1>12 DEF FormTypeOK, CommandEnds
<1>13. CASE FollowUpFires
  BY <1>13 DEF FormTypeOK, FollowUpFires, life, running, history, past
<1>14. CASE EnsureClient
  BY <1>14 DEF FormTypeOK, EnsureClient
<1>15. CASE ResetClient
  BY <1>15 DEF FormTypeOK, ResetClient
<1>16. ASSUME NEW k \in Polls, PollEnds(k) PROVE FormTypeOK'
  BY <1>16 DEF FormTypeOK, PollEnds
<1>17. CASE StrayPollEnds
  BY <1>17 DEF FormTypeOK, StrayPollEnds, running
<1>18. ASSUME NEW k \in Commands, StrayCommandEnds(k) PROVE FormTypeOK'
  BY <1>18 DEF FormTypeOK, StrayCommandEnds, running
<1>19. CASE StrayFollowUpFires
  BY <1>19 DEF FormTypeOK, StrayFollowUpFires, running
<1>20. CASE UnloadBegins
  BY <1>20 DEF FormTypeOK, UnloadBegins, life, running, history, past
<1>21. CASE Logout
  BY <1>21 DEF FormTypeOK, Logout, life, running, history, past
<1>22. CASE UnloadPlatforms
  BY <1>22 DEF FormTypeOK, StateTypeOK, UnloadPlatforms, Flush, UpdateEntry
<1>23. CASE ProcessOnUnload
  BY <1>23 DEF FormTypeOK, ProcessOnUnload, life, running, history, past
<1>24. CASE RemoveEntry
  BY <1>24 DEF FormTypeOK, RemoveEntry, life, running, history, past
<1>25. CASE StayDisabled
  BY <1>25 DEF FormTypeOK, StayDisabled, life, running, history, past
<1>26. CASE ReloadDisabled
  BY <1>26 DEF FormTypeOK, ReloadDisabled, life, running, history, past
<1>27. CASE SetupEntry
  BY <1>27, ConnType DEF FormTypeOK, SetupEntry, ReloadSignature
<1>28. CASE ForwardPlatforms
  BY <1>28 DEF FormTypeOK, ForwardPlatforms, life, running, history, past
<1>29. QED
  BY <1>1, <1>2, <1>3, <1>4, <1>5, <1>6, <1>7, <1>8, <1>9, <1>10, <1>11, <1>12, <1>13,
     <1>14, <1>15, <1>16, <1>17, <1>18, <1>19, <1>20, <1>21, <1>22, <1>23, <1>24,
     <1>25, <1>26, <1>27, <1>28 DEF Next, User, Validated, Loop, Strayed, Reload

LEMMA NextState ==
  ASSUME IInv, Next
  PROVE  StateTypeOK'
<1> USE DEF IInv
<1>1. CASE OptionsUpdated
  BY <1>1 DEF StateTypeOK, OptionsUpdated, life, running, sliding, history, past
<1>2. CASE SetDisabled
  BY <1>2 DEF StateTypeOK, SetDisabled, life, running, sliding, history, past
<1>3. CASE Remove
  BY <1>3 DEF StateTypeOK, Remove, life, running, sliding, history, past
<1>4. CASE MoveSlider
  BY <1>4, LifecycleAssumption DEF StateTypeOK, MoveSlider, life, running, sliding,
     history, past
<1>5. CASE DebouncedApply
  BY <1>5 DEF StateTypeOK, DebouncedApply, UpdateEntry, Begin, PastLogout, LoggedOut,
     Polls, SliderInv, NotPending, past
<1>6. ASSUME NEW f \in Flows, SubmitForm(f) PROVE StateTypeOK'
  BY <1>6 DEF StateTypeOK, SubmitForm, life, running, sliding, history, past
<1>7. ASSUME NEW f \in Flows, ValidationFails(f) PROVE StateTypeOK'
  BY <1>7 DEF StateTypeOK, ValidationFails, life, running, sliding, history, past
<1>8. ASSUME NEW f \in Flows, CommitForm(f) PROVE StateTypeOK'
  BY <1>8 DEF StateTypeOK, CommitForm, UpdateEntry, life, running, sliding, history, past
<1>9. CASE TimerPoll
  BY <1>9 DEF StateTypeOK, TimerPoll, Begin, PastLogout, LoggedOut, Polls, life, sliding
<1>10. CASE Request
  BY <1>10 DEF StateTypeOK, Request, Begin, PastLogout, LoggedOut, Polls, life,
     sliding
<1>11. ASSUME NEW k \in Commands, Command(k) PROVE StateTypeOK'
  BY <1>11 DEF StateTypeOK, Command, PastLogout, LoggedOut, Commands, life, sliding
<1>12. ASSUME NEW k \in Commands, CommandEnds(k) PROVE StateTypeOK'
  BY <1>12 DEF StateTypeOK, CommandEnds, Polls, life, sliding, history, past
<1>13. CASE FollowUpFires
  BY <1>13 DEF StateTypeOK, FollowUpFires, Begin, PastLogout, LoggedOut, Polls, life,
     sliding
<1>14. CASE EnsureClient
  BY <1>14 DEF StateTypeOK, EnsureClient, PutBack, life, sliding
<1>15. CASE ResetClient
  BY <1>15 DEF StateTypeOK, ResetClient, life, sliding, history, past
<1>16. ASSUME NEW k \in Polls, PollEnds(k) PROVE StateTypeOK'
  BY <1>16 DEF StateTypeOK, PollEnds, FailedPoll, ServedPoll, RefreshMetadata,
     PutBack, REPAIR_NAMES, sliding, past
<1>17. CASE StrayPollEnds
  BY <1>17 DEF StateTypeOK, StrayPollEnds, FailedPoll, ServedPoll, RefreshMetadata,
     PutBack, REPAIR_NAMES, running, sliding, past
<1>18. ASSUME NEW k \in Commands, StrayCommandEnds(k) PROVE StateTypeOK'
  BY <1>18 DEF StateTypeOK, StrayCommandEnds, Strays, life, running, sliding, history,
     past
<1>19. CASE StrayFollowUpFires
  BY <1>19 DEF StateTypeOK, StrayFollowUpFires, Strays, life, running, sliding,
     history, past
<1>20. CASE UnloadBegins
  BY <1>20 DEF StateTypeOK, UnloadBegins, States, life, running, sliding, history, past
<1>21. CASE Logout
  BY <1>21 DEF StateTypeOK, Logout, ClearRepairs, States, life, running, sliding,
     history, past
<1>22. CASE UnloadPlatforms
  BY <1>22 DEF StateTypeOK, UnloadPlatforms, Flush, UpdateEntry, NotPending, States,
     life, running, sliding, history, past
<1>23. CASE ProcessOnUnload
  BY <1>23 DEF StateTypeOK, ProcessOnUnload, Strays, States, sliding, history, past
<1>24. CASE RemoveEntry
  BY <1>24 DEF StateTypeOK, RemoveEntry, ClearRepairs, States, life, running, sliding,
     history, past
<1>25. CASE StayDisabled
  BY <1>25 DEF StateTypeOK, StayDisabled, States, life, running, sliding, history, past
<1>26. CASE ReloadDisabled
  BY <1>26 DEF StateTypeOK, ReloadDisabled, States, life, running, sliding, history, past
<1>27. CASE SetupEntry
  BY <1>27 DEF StateTypeOK, SetupEntry, FormTypeOK, States, life, running, sliding,
     history, past
<1>28. CASE ForwardPlatforms
  BY <1>28 DEF StateTypeOK, ForwardPlatforms, Polls, States, life, running, sliding,
     history, past
<1>29. QED
  BY <1>1, <1>2, <1>3, <1>4, <1>5, <1>6, <1>7, <1>8, <1>9, <1>10, <1>11, <1>12, <1>13,
     <1>14, <1>15, <1>16, <1>17, <1>18, <1>19, <1>20, <1>21, <1>22, <1>23, <1>24,
     <1>25, <1>26, <1>27, <1>28 DEF Next, User, Validated, Loop, Strayed, Reload

LEMMA NextCounts ==
  ASSUME IInv, Next
  PROVE  CountTypeOK'
<1> USE DEF IInv
<1>1. CASE OptionsUpdated
  BY <1>1 DEF CountTypeOK, OptionsUpdated, life, running, history, past
<1>2. CASE SetDisabled
  BY <1>2, EditType DEF CountTypeOK, SetDisabled, life, running, history, past
<1>3. CASE Remove
  BY <1>3, EditType DEF CountTypeOK, Remove, life, running, history, past
<1>4. CASE MoveSlider
  BY <1>4, EditType DEF CountTypeOK, MoveSlider, life, running, history, past
<1>5. CASE DebouncedApply
  BY <1>5 DEF CountTypeOK, DebouncedApply, life, running, history, past
<1>6. ASSUME NEW f \in Flows, SubmitForm(f) PROVE CountTypeOK'
  BY <1>6, EditType DEF CountTypeOK, SubmitForm, life, running, history, past
<1>7. ASSUME NEW f \in Flows, ValidationFails(f) PROVE CountTypeOK'
  BY <1>7 DEF CountTypeOK, ValidationFails, life, running, history, past
<1>8. ASSUME NEW f \in Flows, CommitForm(f) PROVE CountTypeOK'
  BY <1>8 DEF CountTypeOK, CommitForm, life, running, history, past
<1>9. CASE TimerPoll
  BY <1>9 DEF CountTypeOK, TimerPoll, life, running, history, past
<1>10. CASE Request
  BY <1>10, EditType DEF CountTypeOK, Request, life, running, history, past
<1>11. ASSUME NEW k \in Commands, Command(k) PROVE CountTypeOK'
  BY <1>11, EditType DEF CountTypeOK, Command, life, running, history, past
<1>12. ASSUME NEW k \in Commands, CommandEnds(k) PROVE CountTypeOK'
  BY <1>12 DEF CountTypeOK, CommandEnds, life, history
<1>13. CASE FollowUpFires
  BY <1>13 DEF CountTypeOK, FollowUpFires, life, running, history, past
<1>14. CASE EnsureClient
  BY <1>14 DEF CountTypeOK, EnsureClient, life
<1>15. CASE ResetClient
  BY <1>15 DEF CountTypeOK, ResetClient, life, history
<1>16. ASSUME NEW k \in Polls, PollEnds(k) PROVE CountTypeOK'
  BY <1>16 DEF CountTypeOK, PollEnds
<1>17. CASE StrayPollEnds
  BY <1>17 DEF CountTypeOK, StrayPollEnds
<1>18. ASSUME NEW k \in Commands, StrayCommandEnds(k) PROVE CountTypeOK'
  BY <1>18 DEF CountTypeOK, StrayCommandEnds, life, history
<1>19. CASE StrayFollowUpFires
  BY <1>19 DEF CountTypeOK, StrayFollowUpFires, life, history
<1>20. CASE UnloadBegins
  BY <1>20 DEF CountTypeOK, UnloadBegins, life, running, history, past
<1>21. CASE Logout
  BY <1>21 DEF CountTypeOK, Logout, life, running, history, past
<1>22. CASE UnloadPlatforms
  BY <1>22 DEF CountTypeOK, UnloadPlatforms, life, running, history, past
<1>23. CASE ProcessOnUnload
  BY <1>23 DEF CountTypeOK, ProcessOnUnload, life, running, history, past
<1>24. CASE RemoveEntry
  BY <1>24 DEF CountTypeOK, RemoveEntry, life, running, history, past
<1>25. CASE StayDisabled
  BY <1>25 DEF CountTypeOK, StayDisabled, life, running, history, past
<1>26. CASE ReloadDisabled
  BY <1>26 DEF CountTypeOK, ReloadDisabled, life, running, history, past
<1>27. CASE SetupEntry
  BY <1>27 DEF CountTypeOK, SetupEntry, life, running, history, past
<1>28. CASE ForwardPlatforms
  BY <1>28 DEF CountTypeOK, ForwardPlatforms, life, running, history, past
<1>29. QED
  BY <1>1, <1>2, <1>3, <1>4, <1>5, <1>6, <1>7, <1>8, <1>9, <1>10, <1>11, <1>12, <1>13,
     <1>14, <1>15, <1>16, <1>17, <1>18, <1>19, <1>20, <1>21, <1>22, <1>23, <1>24,
     <1>25, <1>26, <1>27, <1>28 DEF Next, User, Validated, Loop, Strayed, Reload

LEMMA NextSlider ==
  ASSUME IInv, Next
  PROVE  SliderInv'
<1> USE DEF IInv, SliderInv, IntervalKept
<1>1. CASE OptionsUpdated
  BY <1>1 DEF OptionsUpdated, HasEntities, life, running, sliding, history, past
<1>2. CASE SetDisabled
  BY <1>2 DEF SetDisabled, Edit, HasEntities, life, running, sliding, history, past
<1>3. CASE Remove
  BY <1>3 DEF Remove, Edit, HasEntities, life, running, sliding, history, past
<1>4. CASE MoveSlider
  BY <1>4, LifecycleAssumption DEF MoveSlider, Edit, FormTypeOK, StateTypeOK,
     NotPending, HasEntities, life, running, sliding, history, past
<1>5. CASE DebouncedApply
  BY <1>5, LifecycleAssumption DEF DebouncedApply, UpdateEntry, FormTypeOK,
     StateTypeOK, HasEntities, life, running, sliding, history, past
<1>6. ASSUME NEW f \in Flows, SubmitForm(f) PROVE SliderInv'
  BY <1>6 DEF SubmitForm, Edit, HasEntities, life, running, sliding, history, past
<1>7. ASSUME NEW f \in Flows, ValidationFails(f) PROVE SliderInv'
  BY <1>7 DEF ValidationFails, HasEntities, life, running, sliding, history, past
<1>8. ASSUME NEW f \in Flows, CommitForm(f) PROVE SliderInv'
  BY <1>8, LifecycleAssumption DEF CommitForm, UpdateEntry, FormTypeOK, StateTypeOK,
     HasEntities, life, running, sliding, history, past
<1>9. CASE TimerPoll
  BY <1>9 DEF TimerPoll, HasEntities, life, running, sliding, history, past
<1>10. CASE Request
  BY <1>10 DEF Request, Edit, HasEntities, life, running, sliding, history, past
<1>11. ASSUME NEW k \in Commands, Command(k) PROVE SliderInv'
  BY <1>11 DEF Command, Edit, HasEntities, life, running, sliding, history, past
<1>12. ASSUME NEW k \in Commands, CommandEnds(k) PROVE SliderInv'
  BY <1>12 DEF CommandEnds, HasEntities, life, sliding, history
<1>13. CASE FollowUpFires
  BY <1>13 DEF FollowUpFires, HasEntities, life, running, sliding, history, past
<1>14. CASE EnsureClient
  BY <1>14 DEF EnsureClient, HasEntities, life, sliding
<1>15. CASE ResetClient
  BY <1>15 DEF ResetClient, HasEntities, life, sliding, history
<1>16. ASSUME NEW k \in Polls, PollEnds(k) PROVE SliderInv'
  BY <1>16 DEF PollEnds, HasEntities, sliding
<1>17. CASE StrayPollEnds
  BY <1>17 DEF StrayPollEnds, HasEntities, sliding
<1>18. ASSUME NEW k \in Commands, StrayCommandEnds(k) PROVE SliderInv'
  BY <1>18 DEF StrayCommandEnds, HasEntities, life, sliding, history
<1>19. CASE StrayFollowUpFires
  BY <1>19 DEF StrayFollowUpFires, HasEntities, life, sliding, history
<1>20. CASE UnloadBegins
  BY <1>20 DEF UnloadBegins, HasEntities, life, running, sliding, history, past
<1>21. CASE Logout
  BY <1>21 DEF Logout, HasEntities, life, running, sliding, history, past
<1>22. CASE UnloadPlatforms
  BY <1>22, LifecycleAssumption DEF UnloadPlatforms, Flush, UpdateEntry, FormTypeOK,
     StateTypeOK, NotPending, HasEntities, life, running, sliding, history, past
<1>23. CASE ProcessOnUnload
  BY <1>23 DEF ProcessOnUnload, HasEntities, life, running, sliding, history, past
<1>24. CASE RemoveEntry
  BY <1>24 DEF RemoveEntry, HasEntities, life, running, sliding, history, past
<1>25. CASE StayDisabled
  BY <1>25 DEF StayDisabled, HasEntities, life, running, sliding, history, past
<1>26. CASE ReloadDisabled
  BY <1>26 DEF ReloadDisabled, HasEntities, life, running, sliding, history, past
<1>27. CASE SetupEntry
  BY <1>27 DEF SetupEntry, HasEntities, life, running, sliding, history, past
<1>28. CASE ForwardPlatforms
  BY <1>28 DEF ForwardPlatforms, HasEntities, life, running, sliding, history, past
<1>29. QED
  BY <1>1, <1>2, <1>3, <1>4, <1>5, <1>6, <1>7, <1>8, <1>9, <1>10, <1>11, <1>12, <1>13,
     <1>14, <1>15, <1>16, <1>17, <1>18, <1>19, <1>20, <1>21, <1>22, <1>23, <1>24,
     <1>25, <1>26, <1>27, <1>28 DEF Next, User, Validated, Loop, Strayed, Reload

LEMMA NextQuiet ==
  ASSUME IInv, Next
  PROVE  QuietInv'
<1> USE DEF IInv, QuietInv, Unloaded, LoggedOut, InFlight
<1>1. CASE OptionsUpdated
  BY <1>1 DEF OptionsUpdated, StateTypeOK, life, running, history, past
<1>2. CASE SetDisabled
  BY <1>2 DEF SetDisabled, StateTypeOK, Edit, life, running, history, past
<1>3. CASE Remove
  BY <1>3 DEF Remove, StateTypeOK, Edit, life, running, history, past
<1>4. CASE MoveSlider
  BY <1>4 DEF MoveSlider, StateTypeOK, Edit, HasEntities, life, running, history, past
<1>5. CASE DebouncedApply
  BY <1>5 DEF DebouncedApply, StateTypeOK, Begin, PastLogout, HasEntities, SliderInv
<1>6. ASSUME NEW f \in Flows, SubmitForm(f) PROVE QuietInv'
  BY <1>6 DEF SubmitForm, StateTypeOK, Edit, life, running, history, past
<1>7. ASSUME NEW f \in Flows, ValidationFails(f) PROVE QuietInv'
  BY <1>7 DEF ValidationFails, StateTypeOK, life, running, history, past
<1>8. ASSUME NEW f \in Flows, CommitForm(f) PROVE QuietInv'
  BY <1>8 DEF CommitForm, StateTypeOK, UpdateEntry, life, running, history, past
<1>9. CASE TimerPoll
  BY <1>9 DEF TimerPoll, StateTypeOK, Begin, PastLogout, HasEntities, life
<1>10. CASE Request
  BY <1>10 DEF Request, StateTypeOK, Begin, PastLogout, HasEntities, life
<1>11. ASSUME NEW k \in Commands, Command(k) PROVE QuietInv'
  BY <1>11 DEF Command, StateTypeOK, PastLogout, HasEntities, HasCoordinator, life
<1>12. ASSUME NEW k \in Commands, CommandEnds(k) PROVE QuietInv'
  BY <1>12 DEF CommandEnds, StateTypeOK, life, history, past
<1>13. CASE FollowUpFires
  BY <1>13 DEF FollowUpFires, StateTypeOK, Begin, PastLogout, life
<1>14. CASE EnsureClient
  BY <1>14 DEF EnsureClient, StateTypeOK, PutBack, life
<1>15. CASE ResetClient
  BY <1>15 DEF ResetClient, StateTypeOK, life, history, past
<1>16. ASSUME NEW k \in Polls, PollEnds(k) PROVE QuietInv'
  BY <1>16 DEF PollEnds, StateTypeOK, FailedPoll, ServedPoll, PutBack, past
<1>17. CASE StrayPollEnds
  BY <1>17 DEF StrayPollEnds, StateTypeOK, FailedPoll, ServedPoll, PutBack, running,
     past
<1>18. ASSUME NEW k \in Commands, StrayCommandEnds(k) PROVE QuietInv'
  BY <1>18 DEF StrayCommandEnds, StateTypeOK, life, running, history, past
<1>19. CASE StrayFollowUpFires
  BY <1>19 DEF StrayFollowUpFires, StateTypeOK, life, running, history, past
<1>20. CASE UnloadBegins
  BY <1>20 DEF UnloadBegins, StateTypeOK, life, running, history, past
<1>21. CASE Logout
  BY <1>21 DEF Logout, StateTypeOK, ClearRepairs, REPAIR_NAMES, life, running, history, past
<1>22. CASE UnloadPlatforms
  BY <1>22 DEF UnloadPlatforms, StateTypeOK, Flush, UpdateEntry, life, running, history, past
<1>23. CASE ProcessOnUnload
  BY <1>23 DEF ProcessOnUnload, StateTypeOK, life, running, history, past
<1>24. CASE RemoveEntry
  BY <1>24 DEF RemoveEntry, StateTypeOK, ClearRepairs, REPAIR_NAMES, life, running,
     history, past
<1>25. CASE StayDisabled
  BY <1>25 DEF StayDisabled, StateTypeOK, life, running, history, past
<1>26. CASE ReloadDisabled
  BY <1>26 DEF ReloadDisabled, StateTypeOK, life, running, history, past
<1>27. CASE SetupEntry
  BY <1>27 DEF SetupEntry, StateTypeOK, life, running, history, past
<1>28. CASE ForwardPlatforms
  BY <1>28 DEF ForwardPlatforms, StateTypeOK, life, running, history, past
<1>29. QED
  BY <1>1, <1>2, <1>3, <1>4, <1>5, <1>6, <1>7, <1>8, <1>9, <1>10, <1>11, <1>12, <1>13,
     <1>14, <1>15, <1>16, <1>17, <1>18, <1>19, <1>20, <1>21, <1>22, <1>23, <1>24,
     <1>25, <1>26, <1>27, <1>28 DEF Next, User, Validated, Loop, Strayed, Reload

LEMMA NextInv == IInv /\ [Next]_vars => IInv'
<1> SUFFICES ASSUME IInv, [Next]_vars PROVE IInv'
  OBVIOUS
<1>1. CASE Next
  BY <1>1, NextForms, NextState, NextCounts, NextSlider, NextQuiet DEF IInv
<1>2. CASE UNCHANGED vars
  <2>1. FormTypeOK' /\ StateTypeOK' /\ CountTypeOK'
    BY <1>2 DEF IInv, FormTypeOK, StateTypeOK, CountTypeOK, vars, life, running, sliding, history, past
  <2>2. SliderInv' /\ QuietInv'
    BY <1>2 DEF IInv, SliderInv, IntervalKept, QuietInv, Unloaded, LoggedOut, InFlight, HasEntities,
       vars, life, running, sliding, history, past
  <2>3. QED
    BY <2>1, <2>2 DEF IInv
<1>3. QED
  BY <1>1, <1>2

LEMMA InvHolds == IInv => TypeOK /\ IntervalKept /\ NothingOutlives
<1>1. IInv => TypeOK /\ IntervalKept
  BY TypeSplit DEF IInv, SliderInv
<1>2. IInv => NothingOutlives
  BY DEF IInv, QuietInv, Unloaded, NothingOutlives
<1>3. QED
  BY <1>1, <1>2

LEMMA SpecInv == Spec => []IInv
BY InitInv, NextInv, PTL DEF Spec

-----------------------------------------------------------------------------
(* Every variable keeps its type, for any forms and any number of edits.   *)
THEOREM TypeCorrect == Spec => []TypeOK
BY SpecInv, InvHolds, PTL

(* No reload, flow or removal loses the position last chosen.              *)
THEOREM IntervalSafe == Spec => []IntervalKept
BY SpecInv, InvHolds, PTL

(* What outlives an unload was put back after the logout, by something     *)
(* that ran on past it.                                                    *)
THEOREM QuietUnload == Spec => []NothingOutlives
BY SpecInv, InvHolds, PTL

-----------------------------------------------------------------------------
(* Once an entry is set up its rows carry its scope, and every client its  *)
(* platform ever tracked is being added, has a row or was swept as gone.   *)
Scoped == \A r \in rows : Legacy(r) /\ (r.entry \in loaded => r.uid.scope = r.entry)

OneRow == \A r \in rows, s \in rows :
  (r.entry = s.entry /\ r.uid.mac = s.uid.mac) => r = s

Accounted == \A e \in Entries :
  /\ payload[e] \subseteq tracked[e] /\ adding[e] \subseteq tracked[e]
  /\ \A m \in tracked[e] : m \in adding[e] \cup swept[e] \/ RowsOf(e, m) # {}
  /\ e \notin loaded => tracked[e] = {}

TrackersInv == TrackersTypeOK /\ Scoped /\ OneRow /\ Accounted

-----------------------------------------------------------------------------
(* A row of an entry that is set up is the one the entity asks for.        *)
LEMMA RowIsScoped ==
  ASSUME TrackersTypeOK, Scoped, NEW r \in rows, r.entry \in loaded
  PROVE  r = Row(r.entry, r.uid.mac)
<1>1. /\ r \in [entry : Entries, uid : [scope : Entries \cup {Bare}, mac : Macs]]
      /\ r.uid.scope = r.entry
  BY DEF TrackersTypeOK, Scoped, Rows, Uids
<1>2. r.uid = [scope |-> r.entry, mac |-> r.uid.mac]
  BY <1>1
<1>3. r = [entry |-> r.entry, uid |-> r.uid]
  BY <1>1
<1>4. QED
  BY <1>2, <1>3 DEF Row, Uid

(* A row that has an entry's id is that entry's.                           *)
LEMMA UidIsOwned ==
  ASSUME Scoped, NEW e \in Entries, NEW m \in Macs, NEW r \in rows, r.uid = Uid(e, m)
  PROVE  r \in RowsOf(e, m)
BY TrackersAssumption DEF Scoped, Legacy, Uid, RowsOf

LEMMA RowType ==
  ASSUME NEW e \in Entries, NEW m \in Macs
  PROVE  /\ Row(e, m) \in Rows /\ Row(e, m).entry = e
         /\ Row(e, m).uid = Uid(e, m) /\ Row(e, m).uid.mac = m /\ Row(e, m).uid.scope = e
BY DEF Row, Uid, Rows, Uids

-----------------------------------------------------------------------------
LEMMA TrackersInitInv == TrackersInit => TrackersInv
BY DEF TrackersInit, TrackersInv, TrackersTypeOK, Scoped, OneRow, Accounted, Distinct

LEMMA SetupTrackers ==
  ASSUME TrackersInv, NEW e \in Entries, Setup(e)
  PROVE  TrackersInv'
<1> USE DEF TrackersInv
<1>1. \A r \in rows : r.entry \in Entries /\ r.uid.mac \in Macs /\ r \in Rows
  BY DEF TrackersTypeOK, Rows, Uids
<1>2. \A q \in rows' : \E r \in rows :
        /\ q.entry = r.entry /\ q.uid.mac = r.uid.mac
        /\ q = IF r.entry = e THEN Row(e, r.uid.mac) ELSE r
  <2>1. SUFFICES ASSUME NEW r \in rows,
                        NEW q, q = IF r.entry = e THEN Row(e, r.uid.mac) ELSE r
                 PROVE  q.entry = r.entry /\ q.uid.mac = r.uid.mac
    BY DEF Setup, Migrated
  <2>2. QED
    BY <1>1, <2>1, RowType
<1>3. TrackersTypeOK'
  <2>1. rows' \subseteq Rows
    BY <1>1, <1>2, RowType
  <2>2. loaded' \subseteq Entries /\ swept' \in [Entries -> SUBSET Macs]
    BY DEF TrackersTypeOK, Setup
  <2>3. QED
    BY <2>1, <2>2 DEF TrackersTypeOK, Setup
<1>4. Scoped'
  <2>1. SUFFICES ASSUME NEW q \in rows'
                 PROVE  q.uid.scope \in {Bare, q.entry}
                        /\ (q.entry \in loaded' => q.uid.scope = q.entry)
    BY DEF Scoped, Legacy
  <2>2. PICK r \in rows : /\ q.entry = r.entry /\ q.uid.mac = r.uid.mac
                          /\ q = IF r.entry = e THEN Row(e, r.uid.mac) ELSE r
    BY <1>2
  <2>3. CASE r.entry = e
    BY <1>1, <2>2, <2>3, RowType
  <2>4. CASE r.entry # e
    BY <2>2, <2>4 DEF Scoped, Legacy, Setup
  <2>5. QED
    BY <2>3, <2>4
<1>5. OneRow'
  BY <1>2 DEF OneRow
<1>6. Accounted'
  <2>1. tracked[e] = {} /\ payload[e] = {} /\ adding[e] = {}
    BY DEF Setup, Accounted
  <2>2. ASSUME NEW d \in Entries, d # e, NEW m \in Macs
        PROVE  swept'[d] = swept[d] /\ (RowsOf(d, m) # {} => RowsOf(d, m)' # {})
    BY <2>2 DEF TrackersTypeOK, Setup, Migrated, RowsOf
  <2>3. QED
    BY <2>1, <2>2 DEF TrackersTypeOK, Setup, Accounted
<1>7. QED
  BY <1>3, <1>4, <1>5, <1>6

LEMMA UnloadTrackers ==
  ASSUME TrackersInv, NEW e \in Entries, Unload(e)
  PROVE  TrackersInv'
<1>1. TrackersTypeOK' /\ Scoped' /\ OneRow'
  BY DEF TrackersInv, TrackersTypeOK, Scoped, OneRow, Unload, Legacy
<1>2. Accounted'
  BY DEF TrackersInv, TrackersTypeOK, Accounted, Unload, RowsOf
<1>3. QED
  BY <1>1, <1>2 DEF TrackersInv

LEMMA PollTrackers ==
  ASSUME TrackersInv, NEW e \in Entries, Poll(e)
  PROVE  TrackersInv'
<1>1. TrackersTypeOK' /\ Scoped' /\ OneRow'
  BY DEF TrackersInv, TrackersTypeOK, Scoped, OneRow, Poll, Legacy
<1>2. Accounted'
  BY DEF TrackersInv, TrackersTypeOK, Accounted, Poll, RowsOf
<1>3. QED
  BY <1>1, <1>2 DEF TrackersInv

LEMMA AddedTrackers ==
  ASSUME TrackersInv, NEW e \in Entries, NEW m \in Macs, Added(e, m)
  PROVE  TrackersInv'
<1> USE DEF TrackersInv
<1>1. e \in loaded /\ m \in tracked[e]
  BY DEF Added, Accounted
<1>2. /\ rows \subseteq rows' /\ rows' \subseteq rows \cup {Row(e, m)}
      /\ RowsOf(e, m)' # {}
  <2>1. CASE \E r \in rows : r.uid = Uid(e, m)
    BY <2>1, UidIsOwned DEF Added, RowsOf
  <2>2. CASE ~\E r \in rows : r.uid = Uid(e, m)
    BY <2>2, RowType DEF Added, RowsOf
  <2>3. QED
    BY <2>1, <2>2
<1>3. TrackersTypeOK' /\ Scoped'
  BY <1>1, <1>2, RowType DEF TrackersTypeOK, Scoped, Added, Legacy
<1>4. OneRow'
  <2>1. ASSUME Row(e, m) \in rows' \ rows, NEW r \in rows, r.entry = e, r.uid.mac = m
        PROVE  FALSE
    <3>1. r = Row(e, m)
      BY <1>1, <2>1, RowIsScoped
    <3>2. QED
      BY <2>1, <3>1
  <2>2. QED
    BY <1>2, <2>1, RowType DEF OneRow
<1>5. Accounted'
  <2>1. \A d \in Entries, n \in Macs : RowsOf(d, n) # {} => RowsOf(d, n)' # {}
    BY <1>2 DEF RowsOf
  <2>2. QED
    BY <1>2, <2>1 DEF TrackersTypeOK, Accounted, Added
<1>6. QED
  BY <1>3, <1>4, <1>5

LEMMA RemoveTrackers ==
  ASSUME TrackersInv, NEW targets \in SUBSET Entries, RemoveStale(targets)
  PROVE  TrackersInv'
<1> USE DEF TrackersInv
<1>1. rows' \subseteq rows
  BY DEF RemoveStale
<1>2. TrackersTypeOK' /\ Scoped' /\ OneRow'
  BY <1>1 DEF TrackersTypeOK, Scoped, OneRow, RemoveStale, Legacy
<1>3. Accounted'
  <2>1. ASSUME NEW e \in Entries, NEW m \in Macs, RowsOf(e, m) # {}, RowsOf(e, m)' = {}
        PROVE  m \in swept'[e]
    <3>1. PICK r \in rows : r.entry = e /\ r.uid.mac = m
      BY <2>1 DEF RowsOf
    <3>2. r \in UNION {Stale(d) : d \in targets}
      BY <2>1, <3>1 DEF RemoveStale, RowsOf
    <3>3. e \in targets /\ payload[e] # {} /\ m \notin payload[e]
      BY <3>1, <3>2 DEF Stale
    <3>4. QED
      BY <2>1, <3>3 DEF RemoveStale
  <2>2. \A e \in Entries : swept[e] \subseteq swept'[e]
    BY DEF RemoveStale
  <2>3. QED
    BY <2>1, <2>2 DEF TrackersTypeOK, Accounted, RemoveStale
<1>4. QED
  BY <1>2, <1>3

LEMMA TrackersNextInv == TrackersInv /\ [TrackersNext]_trackerVars => TrackersInv'
<1> SUFFICES ASSUME TrackersInv, [TrackersNext]_trackerVars PROVE TrackersInv'
  OBVIOUS
<1>1. CASE CleanUp
  BY <1>1, RemoveTrackers DEF CleanUp, TrackersInv, TrackersTypeOK
<1>2. ASSUME NEW e \in Entries, Setup(e) PROVE TrackersInv'
  BY <1>2, SetupTrackers
<1>3. ASSUME NEW e \in Entries, Unload(e) PROVE TrackersInv'
  BY <1>3, UnloadTrackers
<1>4. ASSUME NEW e \in Entries, Poll(e) PROVE TrackersInv'
  BY <1>4, PollTrackers
<1>5. ASSUME NEW e \in Entries, Press(e) PROVE TrackersInv'
  <2>1. RemoveStale({e}) /\ {e} \in SUBSET Entries
    BY <1>5 DEF Press
  <2>2. QED
    BY <2>1, RemoveTrackers
<1>6. ASSUME NEW e \in Entries, NEW m \in Macs, Added(e, m) PROVE TrackersInv'
  BY <1>6, AddedTrackers
<1>7. CASE UNCHANGED trackerVars
  BY <1>7 DEF TrackersInv, TrackersTypeOK, Scoped, OneRow, Accounted, RowsOf, Legacy, trackerVars
<1>8. QED
  BY <1>1, <1>2, <1>3, <1>4, <1>5, <1>6, <1>7 DEF TrackersNext

LEMMA TrackersInvHolds == TrackersInv => TrackersTypeOK /\ OneTracker
BY DEF TrackersInv, TrackersTypeOK, OneRow, Accounted, OneTracker, Listed

-----------------------------------------------------------------------------
(* Every variable keeps its type, for any entries and clients.             *)
THEOREM TrackersTypeCorrect == TrackersSpec => []TrackersTypeOK
<1>1. TrackersSpec => []TrackersInv
  BY TrackersInitInv, TrackersNextInv, PTL DEF TrackersSpec
<1>2. QED
  BY <1>1, TrackersInvHolds, PTL

(* A listed client has exactly one tracker under each entry that lists it, *)
(* across migrations, other entries, reloads, outages and clean-ups.       *)
THEOREM OneTrackerEach == TrackersSpec => []OneTracker
<1>1. TrackersSpec => []TrackersInv
  BY TrackersInitInv, TrackersNextInv, PTL DEF TrackersSpec
<1>2. QED
  BY <1>1, TrackersInvHolds, PTL
=============================================================================
