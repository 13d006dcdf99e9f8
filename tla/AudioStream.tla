------------------------------ MODULE AudioStream ------------------------------
(***************************************************************************)
(* The audio stream (streamclient.c): libcurl hands what it has received to*)
(* stream_write_callback(), which has it decoded and queues it with the    *)
(* DSP; when more than max_wavbuf_size samples wait there the callback     *)
(* pauses the transfer, and run_stream(), called once per turn of main()'s *)
(* loop, lets it go on when fewer do.  The DSP plays and marks buffers     *)
(* done on its own; nobody waits for anybody.                              *)
(***************************************************************************)
EXTENDS Sums, Sequences

CONSTANTS Samples,    (* samples that one piece received may decode to     *)
          rate,       (* samples per second of the stream                  *)
          MaxHeld     (* bound: pieces received and not yet handed over    *)

ASSUME AudioAssumption ==
    /\ Samples \subseteq Nat \ {0}
    /\ \E n \in Samples : \A m \in Samples : m <= n
    /\ rate \in Nat \ {0}
    /\ MaxHeld \in Nat \ {0}

VARIABLES
    pc,               (* main(): between calls, or inside run_stream()     *)
    mcurl,            (* is there a transfer?                              *)
    still_running,    (* what curl_multi_perform() said of it last         *)
    held,             (* pieces libcurl has and has not handed over        *)
    xpaused,          (* has libcurl paused the transfer?                  *)
    curl_paused,      (* the flag that run_stream() looks at               *)
    waveBufs,         (* the list from waveBuf_tail to waveBuf_head        *)
    queuedSamples, max_wavbuf_size,
    ndsp_rate,        (* 0 until the format is known                       *)
    dsp               (* the buffers the DSP has still to play, in order   *)

transfer == <<mcurl, still_running, held, xpaused>>
sound == <<waveBufs, queuedSamples, max_wavbuf_size, ndsp_rate, dsp>>
audiovars == <<pc, transfer, curl_paused, sound>>

SumOf(bufs) == Sum([i \in DOMAIN bufs |-> bufs[i].nsamples], Len(bufs))

AudioInit ==
    /\ pc = "main"
    /\ mcurl = FALSE /\ still_running = FALSE /\ held = 0 /\ xpaused = FALSE
    /\ curl_paused = FALSE
    /\ waveBufs = <<>> /\ queuedSamples = 0
    /\ max_wavbuf_size = 0 /\ ndsp_rate = 0
    /\ dsp = <<>>
------------------------------------------------------------------------------
(* sound_clean_buffers(): what is done is freed, from the tail on.         *)
CountAnyDone == Len(waveBufs)               \* plausible bug: the status not tested
CountDone ==
    LET playing == {i \in DOMAIN waveBufs : ~waveBufs[i].done}
    IN  IF playing = {} THEN Len(waveBufs)
        ELSE (CHOOSE i \in playing : \A j \in playing : i <= j) - 1

Cleaned == SubSeq(waveBufs, CountDone + 1, Len(waveBufs))
CleanedSamples == queuedSamples - SumOf(SubSeq(waveBufs, 1, CountDone))

(* sound_play(): the piece becomes a buffer of n samples, for the DSP too. *)
Buffer(n) == [nsamples |-> n, done |-> FALSE]

(* sound_close()                                                           *)
SoundClose ==
    /\ waveBufs' = <<>> /\ dsp' = <<>>
    /\ queuedSamples' = 0 /\ ndsp_rate' = 0
    /\ UNCHANGED max_wavbuf_size
------------------------------------------------------------------------------
(* start_stream() and stop_stream(), called by main().                     *)
StartStream ==
    /\ pc = "main" /\ ~mcurl
    /\ mcurl' = TRUE /\ still_running' \in BOOLEAN
    /\ held' = 0 /\ xpaused' = FALSE
    /\ SoundClose
    /\ pc' = "check"
    /\ UNCHANGED curl_paused

StopStream ==
    /\ mcurl' = FALSE
    /\ held' = 0 /\ xpaused' = FALSE
    /\ SoundClose
    /\ pc' = "main"
    /\ UNCHANGED <<still_running, curl_paused>>

UserStops == pc = "main" /\ mcurl /\ StopStream
------------------------------------------------------------------------------
(* run_stream(), once per turn.                                            *)

(* The flag is reset before curl_easy_pause() is called, because that call *)
(* hands over at once what is held.                                        *)
ContinueUncleaned ==                        \* plausible bug: nothing is freed
    /\ pc = "main" /\ mcurl /\ curl_paused
    /\ IF queuedSamples < max_wavbuf_size
       THEN curl_paused' = FALSE /\ xpaused' = FALSE /\ pc' = "continue"
       ELSE pc' = "check" /\ UNCHANGED <<curl_paused, xpaused>>
    /\ UNCHANGED <<mcurl, still_running, held, sound>>

Continue ==
    /\ pc = "main" /\ mcurl /\ curl_paused
    /\ waveBufs' = Cleaned /\ queuedSamples' = CleanedSamples
    /\ IF queuedSamples' < max_wavbuf_size
       THEN curl_paused' = FALSE /\ xpaused' = FALSE /\ pc' = "continue"
       ELSE pc' = "check" /\ UNCHANGED <<curl_paused, xpaused>>
    /\ UNCHANGED <<mcurl, still_running, held, max_wavbuf_size, ndsp_rate, dsp>>

(* curl_multi_perform() receives, unless the transfer is paused.           *)
Perform ==
    /\ pc = "main" /\ mcurl /\ ~curl_paused
    /\ IF still_running
       THEN /\ held' \in IF xpaused THEN {held} ELSE held .. MaxHeld
            /\ pc' = "perform"
       ELSE held' = held /\ pc' = "check"
    /\ UNCHANGED <<mcurl, still_running, xpaused, curl_paused, sound>>

(* stream_write_callback() for the next piece: too much is queued ...      *)
HandsOver == pc \in {"continue", "perform"} /\ held > 0 /\ ~xpaused
NeverFull == FALSE                          \* plausible bug
Full == CleanedSamples > max_wavbuf_size

ChokeUnseen ==                              \* plausible bug: curl_paused not set
    /\ HandsOver
    /\ Full
    /\ waveBufs' = Cleaned /\ queuedSamples' = CleanedSamples
    /\ xpaused' = TRUE
    /\ pc' = "check"
    /\ UNCHANGED <<mcurl, still_running, held, curl_paused,
                   max_wavbuf_size, ndsp_rate, dsp>>

Choke ==
    /\ HandsOver
    /\ Full
    /\ waveBufs' = Cleaned /\ queuedSamples' = CleanedSamples
    /\ curl_paused' = TRUE /\ xpaused' = TRUE
    /\ pc' = "check"
    /\ UNCHANGED <<mcurl, still_running, held, max_wavbuf_size, ndsp_rate, dsp>>

(* ... or it is decoded and played, the first piece telling the format; a  *)
(* piece may be too short to be decoded yet, and sound_play() may find no  *)
(* memory.                                                                 *)
Play(n) ==
    /\ HandsOver
    /\ ~Full
    /\ held' = held - 1
    /\ ndsp_rate' = rate
    /\ max_wavbuf_size' = IF ndsp_rate = 0 THEN rate ELSE max_wavbuf_size
    /\ waveBufs' = Append(Cleaned, Buffer(n))
    /\ dsp' = Append(dsp, Buffer(n))
    /\ queuedSamples' = CleanedSamples + n
    /\ UNCHANGED <<pc, mcurl, still_running, xpaused, curl_paused>>

NothingToPlay ==
    /\ HandsOver
    /\ ~Full
    /\ held' = held - 1
    /\ waveBufs' = Cleaned /\ queuedSamples' = CleanedSamples
    /\ UNCHANGED <<pc, mcurl, still_running, xpaused, curl_paused,
                   max_wavbuf_size, ndsp_rate, dsp>>

(* ... or the decoder refuses it, which ends the transfer; but only        *)
(* curl_multi_perform() says so.                                           *)
Refuse ==
    /\ HandsOver
    /\ ~Full
    /\ held' = held - 1
    /\ waveBufs' = Cleaned /\ queuedSamples' = CleanedSamples
    /\ still_running' = (pc = "continue")
    /\ pc' = "check"
    /\ UNCHANGED <<mcurl, xpaused, curl_paused, max_wavbuf_size, ndsp_rate, dsp>>

(* Everything is handed over; the server may have closed the connection.   *)
Done ==
    /\ pc \in {"continue", "perform"} /\ (held = 0 \/ xpaused)
    /\ still_running' \in IF pc = "perform" /\ ~xpaused THEN BOOLEAN
                                                        ELSE {still_running}
    /\ pc' = "check"
    /\ UNCHANGED <<mcurl, held, xpaused, curl_paused, sound>>

(* stream_check_health()                                                   *)
CheckHealth ==
    /\ pc = "check"
    /\ IF still_running
       THEN pc' = "main" /\ UNCHANGED <<transfer, curl_paused, sound>>
       ELSE StopStream
------------------------------------------------------------------------------
(* The DSP plays its next buffer to the end.                               *)
DspPlays ==
    /\ dsp # <<>>
    /\ dsp' = Tail(dsp)
    /\ LET i == Len(waveBufs) - Len(dsp) + 1
       IN  waveBufs' = IF i \in DOMAIN waveBufs
                       THEN [waveBufs EXCEPT ![i].done = TRUE] ELSE waveBufs
    /\ UNCHANGED <<pc, transfer, curl_paused, queuedSamples, max_wavbuf_size,
                   ndsp_rate>>

Callback == Choke \/ (\E n \in Samples : Play(n)) \/ NothingToPlay \/ Refuse
RunStream == Continue \/ Perform \/ Callback \/ Done \/ CheckHealth

AudioNext == StartStream \/ UserStops \/ RunStream \/ DspPlays

(* main() keeps calling run_stream() and the DSP keeps playing; nobody has *)
(* to start or to stop a stream.                                           *)
AudioSpec ==
    AudioInit /\ [][AudioNext]_audiovars /\ WF_audiovars(RunStream) /\ WF_audiovars(DspPlays)
------------------------------------------------------------------------------
Largest == CHOOSE n \in Samples : \A m \in Samples : m <= n

(* No buffer is freed while the DSP has still to play it: the DSP's own    *)
(* list is the end of the program's list.                                  *)
DspOwnsItsBuffers ==
    /\ Len(dsp) <= Len(waveBufs)
    /\ \A i \in DOMAIN waveBufs :
           waveBufs[i].done <=> i <= Len(waveBufs) - Len(dsp)

(* However fast the server sends, what waits to be played is bounded: one *)
(* piece more than the limit at the most, although the program decides by  *)
(* a count it keeps beside the list, through freeing, closing and opening. *)
QueueBounded == SumOf(waveBufs) <= max_wavbuf_size + Largest

(* A stream that libcurl has paused goes on or is stopped, although nobody *)
(* tells the program that the DSP has played: it is not silent for ever.   *)
PausedGoesOn == xpaused ~> ~xpaused
==============================================================================
