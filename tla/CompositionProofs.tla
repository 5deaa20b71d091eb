------------------------ MODULE CompositionProofs -------------------------
(***************************************************************************)
(* What runs over a device's connection, and the services beside it: a     *)
(* behaviour of the composed specification is one of each module, since a  *)
(* step of one module leaves the variables of the others alone.  So what   *)
(* is proved of each module holds of the composition.                      *)
(***************************************************************************)
EXTENDS RelayBrokerProofs, UploadProofs, RequestProofs, MCStreams,
        AccountProofs, RecordProofs, MCServices

----------------------------------------------------------------------------
(* Everything that runs over the connection *)

\* Frames, requests, writers, tickets and commands keep their types, channels and
\* offsets their bounds, however the steps of the five parts interleave.
THEOREM StreamsTypes == Spec /\ UploadSpec /\ DownloadSpec /\ TicketSpec /\ CommandSpec => []StreamsTypeOK
  <1>1. RelayInv /\ UploadInv /\ DownloadInv /\ TicketInv /\ CommandInv => StreamsTypeOK
    BY Zenon DEF RelayInv, Table, UploadInv, DownloadInv, TicketInv, CommandInv, StreamsTypeOK
  <1> QED
    BY <1>1, RelayInvariance, UploadInvariant, DownloadInvariant, TicketInvariant, CommandInvariant, PTL

\* StreamsSpec, in which one part moves, implements the specification of each: no step
\* of one part changes what another part reads or writes.
THEOREM SideBySide == StreamsSpec => Spec /\ UploadSpec /\ DownloadSpec /\ TicketSpec /\ CommandSpec
  <1>1. StreamsInit => Init /\ UploadInit /\ DownloadInit /\ TicketInit /\ CommandInit BY Zenon DEF StreamsInit
  <1>2. [StreamsNext]_streamsVars => [Next]_vars BY ZenonT(30) DEF StreamsNext, streamsVars
  <1>3. [StreamsNext]_streamsVars => [UploadNext]_uploadVars BY ZenonT(30) DEF StreamsNext, streamsVars
  <1>4. [StreamsNext]_streamsVars => [DownloadNext]_downloadVars BY ZenonT(30) DEF StreamsNext, streamsVars
  <1>5. [StreamsNext]_streamsVars => [TicketNext]_ticketVars BY ZenonT(30) DEF StreamsNext, streamsVars
  <1>6. [StreamsNext]_streamsVars => [CommandNext]_commandVars BY ZenonT(30) DEF StreamsNext, streamsVars
  <1> QED
    BY <1>1, <1>2, <1>3, <1>4, <1>5, <1>6, PTL DEF StreamsSpec, Spec, UploadSpec, DownloadSpec, TicketSpec, CommandSpec

\* So every invariant of the five parts is one of StreamsSpec, for any constants, and
\* StreamsSpec uses tickets as SingleUse says.
THEOREM StreamsSafe ==
    StreamsSpec => /\ []StreamsTypeOK /\ []ClosedOnce /\ []DeliveredInOrder /\ []OneDevicePerStream
                   /\ []ConfirmedIsWhole /\ []DownloadFaithful /\ []ReportedWasDone /\ TicketUsedOnce
  BY SideBySide, StreamsTypes, ChannelClosedOnce, InOrder, OneDevice, ConfirmedUploadIsWhole, BrowserGetsTheFile,
     ReportedCommandWasDone, TicketsAreSingleUse, PTL

----------------------------------------------------------------------------
(* The services side by side *)

\* Every service keeps its types, its counters and queues their bounds, however the
\* steps of the services interleave.
THEOREM ServicesTypes ==
    /\ UpdateSpec /\ TrafficSpec /\ SupportSpec /\ EnrollmentSpec /\ AuditSpec
    /\ AlertSpec /\ PrivilegeSpec /\ ReleaseSpec /\ SignInSpec
    => []ServicesTypeOK
  <1>2. UpdateInv => UpdateTypeOK BY Zenon DEF UpdateInv
  <1>3. TrafficInv => TrafficTypeOK BY Zenon DEF TrafficInv
  <1>4. EnrollmentInv => EnrollmentTypeOK BY Zenon DEF EnrollmentInv
  <1>5. AuditInv => AuditTypeOK BY Zenon DEF AuditInv
  <1>6. SignInInv => SignInTypeOK BY Zenon DEF SignInInv
  <1>7. UpdateSpec /\ TrafficSpec /\ SupportSpec /\ EnrollmentSpec
        => [](UpdateTypeOK /\ TrafficTypeOK /\ SupportTypeOK /\ EnrollmentTypeOK)
    BY <1>2, <1>3, <1>4, UpdateInvariant, TrafficInvariant, SupportTypes, EnrollmentInvariant, PTL
  <1>8. AuditSpec /\ AlertSpec /\ PrivilegeSpec /\ ReleaseSpec /\ SignInSpec
        => [](AuditTypeOK /\ AlertTypeOK /\ PrivilegeTypeOK /\ ReleaseTypeOK /\ SignInTypeOK)
    BY <1>5, <1>6, AuditInvariance, AlertTypes, PrivilegeTypes, PrivilegeInvariant, ReleaseTypes, SignInInvariant, PTL
  <1> QED BY <1>7, <1>8, PTL DEF ServicesTypeOK

\* ServicesSpec, in which one service moves, implements the specification of each: no
\* step of one service changes what another reads or writes.
THEOREM ServicesSideBySide ==
    ServicesSpec => /\ UpdateSpec /\ TrafficSpec /\ SupportSpec /\ EnrollmentSpec /\ AuditSpec
                    /\ AlertSpec /\ PrivilegeSpec /\ ReleaseSpec /\ SignInSpec
  <1>1. ServicesInit => /\ UpdateInit /\ TrafficInit /\ SupportInit /\ EnrollmentInit /\ AuditInit
                        /\ AlertInit /\ PrivilegeInit /\ ReleaseInit /\ SignInInit
    BY ZenonT(30) DEF ServicesInit
  <1>2. [ServicesNext]_servicesVars => [UpdateNext]_updateVars BY ZenonT(30) DEF ServicesNext, servicesVars
  <1>3. [ServicesNext]_servicesVars => [TrafficNext]_trafficVars BY ZenonT(30) DEF ServicesNext, servicesVars
  <1>4. [ServicesNext]_servicesVars => [SupportNext]_supportVars BY ZenonT(30) DEF ServicesNext, servicesVars
  <1>5. [ServicesNext]_servicesVars => [EnrollmentNext]_enrollVars BY ZenonT(30) DEF ServicesNext, servicesVars
  <1>6. [ServicesNext]_servicesVars => [AuditNext]_auditVars BY ZenonT(30) DEF ServicesNext, servicesVars
  <1>7. [ServicesNext]_servicesVars => [AlertNext]_alertVars BY ZenonT(30) DEF ServicesNext, servicesVars
  <1>8. [ServicesNext]_servicesVars => [PrivilegeNext]_privilegeVars BY ZenonT(30) DEF ServicesNext, servicesVars
  <1>9. [ServicesNext]_servicesVars => [ReleaseNext]_releaseVars BY ZenonT(30) DEF ServicesNext, servicesVars
  <1>10. [ServicesNext]_servicesVars => [SignInNext]_signInVars BY Zenon DEF ServicesNext, servicesVars
  <1>11. ServicesSpec => /\ UpdateSpec /\ TrafficSpec /\ SupportSpec /\ EnrollmentSpec
    BY <1>1, <1>2, <1>3, <1>4, <1>5, PTL DEF ServicesSpec, UpdateSpec, TrafficSpec, SupportSpec, EnrollmentSpec
  <1>12. ServicesSpec => /\ AuditSpec /\ AlertSpec /\ PrivilegeSpec /\ ReleaseSpec /\ SignInSpec
    BY <1>1, <1>6, <1>7, <1>8, <1>9, <1>10, PTL
       DEF ServicesSpec, AuditSpec, AlertSpec, PrivilegeSpec, ReleaseSpec, SignInSpec
  <1> QED BY <1>11, <1>12, PTL

\* So every invariant of the services is one of ServicesSpec, for any constants.
THEOREM ServicesSafe ==
    ServicesSpec => /\ []ServicesTypeOK /\ InstallHasBinary /\ []SampleAccounted /\ []SingleUseOneDevice
                    /\ []ChainUnbroken /\ []OneLiveAlert /\ []DisabledIsOut /\ ConfirmedStays
  BY ServicesSideBySide, ServicesTypes, BinaryIsInstalled, EverySampleAccounted, OneDevicePerToken, ChainHolds,
     AtMostOneLive, DisabledAccountIsOut, ConfirmedFactorStays, PTL

\* The services, one of which moves, use enrollment tokens and reauthentications as
\* SingleUse says and keep the audit log as AppendLog says, for any constants.
THEOREM ServicesAbstract == ServicesSpec => ServicesImplement
  BY ServicesSideBySide, TokensAreSingleUse, ReauthsAreSingleUse, AuditIsAppendOnly, PTL DEF ServicesImplement
=============================================================================
