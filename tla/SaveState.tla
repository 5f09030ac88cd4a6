------------------------------ MODULE SaveState ------------------------------
(***************************************************************************)
(* Save states (core.h, archive.h and the serialize and deserialize of     *)
(* every component).  An archive is a row of bytes without names, so a     *)
(* member is found again only because both sides go through the members in *)
(* the same order.  A register is saved as the byte the program would read *)
(* and loaded by the handler of the program's write.                       *)
(*                                                                         *)
(* A member's value is the time it last changed; running changes the       *)
(* members of one component.  An archive is the machine it was made of;    *)
(* what a load takes from it, and for which member, is given by the rows.  *)
(***************************************************************************)
EXTENDS Naturals, Sequences

CONSTANTS
    Slots,          \* the slots of states
    HasRtc,         \* the game pak has a clock
    Backup,         \* its backup: "none", "sram", "eeprom" or "flash"
    MaxRuns         \* how often the machine runs

ASSUME SaveStateAssumption ==
    /\ HasRtc \in BOOLEAN
    /\ Backup \in {"none", "sram", "eeprom", "flash"}
    /\ MaxRuns \in Nat

VARIABLES
    live,               \* the value of each member of the machine
    default_state_,     \* the archive made when the game pak was loaded, or None
    read_pos_,          \* how far it has been read
    files,              \* the archive in each slot, or None
    runs,               \* how often the machine has run
    source              \* a ghost: the archive loaded since it last ran, or None

savevars == <<live, default_state_, read_pos_, files, runs, source>>

Members(owner, names) == [i \in DOMAIN names |-> <<owner, names[i], "">>]

Units == {"0", "1", "2", "3"}
FourOf(unit) == unit["0"] \o unit["1"] \o unit["2"] \o unit["3"]
----------------------------------------------------------------------------
(* Structures whose two sides are next to each other in a header. *)
sweep(ch) == Members(ch, <<"swp.timer", "swp.shadow", "swp.period", "swp.direction",
                           "swp.shift_count", "swp.enabled">>)
wave_data(ch) == Members(ch, <<"wav_data.duty", "wav_data.sound_length">>)
envelope(ch) == Members(ch, <<"env.timer", "env.period", "env.direction", "env.initial_volume">>)
frequency_data(ch) == Members(ch, <<"freq_data.sample_rate", "freq_data.freq_control">>)
polynomial_counter(ch) == Members(ch,
    <<"polynomial_cnt.shift_clock_frequency", "polynomial_cnt.has_7_bit_counter_width",
      "polynomial_cnt.dividing_ratio">>)
fifo(f) == Members(f, <<"latch_", "data_", "read_idx_", "write_idx_", "size_">>)
sound_buffer == Members("apu", <<"buffer_.write_idx_", "buffer_.buffer_">>)
resampler == Members("apu", <<"resampler_.previous_samples_", "resampler_.resample_phase_">>)
obj_buffer_entry == Members("ppu",
    <<"obj_buffer_.priority", "obj_buffer_.dot", "obj_buffer_.is_alpha_blending">>)
----------------------------------------------------------------------------
(* What each component writes, in order. *)
timer_serialize(i) == Members("timer" \o i,
    <<"handle_", "last_scheduled_timestamp_", "counter_", "reload_",
      "control_.prescalar", "control_.enabled", "control_.cascaded", "control_.irq_enabled">>)

channel_serialize(i) == Members("dma" \o i,
    <<"last_event_handle", "src", "dst", "count", "internal.src", "internal.dst",
      "internal.count", "cnt.dst_control", "cnt.src_control", "cnt.when", "cnt.repeat",
      "cnt.size", "cnt.drq", "cnt.irq", "cnt.enabled", "latch">>)

\* The scheduled channels go as their numbers, and are found again by them.
dma_serialize == Members("dma", <<"scheduled_channels_">>)
          \o FourOf([i \in Units |-> channel_serialize(i)])
          \o Members("dma", <<"latch_">>)

cpu_serialize ==
    Members("cpu",
        <<"r_", "reg_banks_", "cpsr_", "spsr_banks_", "ie_", "if_", "ime_", "irq_signal_",
          "scheduled_irq_signal_", "irq_signal_delay_handle_", "pipeline_.decoding",
          "pipeline_.executing", "pipeline_.fetch_type", "wram_", "iwram_">>)
    \o FourOf([i \in Units |-> timer_serialize(i)]) \o dma_serialize
    \o Members("cpu",
        <<"bios_last_read_", "post_boot_", "prefetch_buffer_.begin", "prefetch_buffer_.end",
          "prefetch_buffer_.size", "prefetch_buffer_.capacity", "prefetch_buffer_.cycles_left",
          "prefetch_buffer_.cycles_needed", "prefetch_buffer_.addr_increment",
          "prefetch_buffer_.active", "waitcnt_.sram", "waitcnt_.ws0_nonseq", "waitcnt_.ws0_seq",
          "waitcnt_.ws1_nonseq", "waitcnt_.ws1_seq", "waitcnt_.ws2_nonseq", "waitcnt_.ws2_seq",
          "waitcnt_.phi", "waitcnt_.prefetch_buffer_enable", "haltcnt_">>)

regular_bg_serialize(screen) == Members(screen, <<"cnt.lower", "cnt.upper", "hoffset", "voffset">>)

affine_bg_serialize(screen) == regular_bg_serialize(screen) \o Members(screen,
    <<"x_ref.ref", "y_ref.ref", "x_ref.internal", "y_ref.internal", "pa", "pb", "pc", "pd">>)

ppu_serialize ==
    Members("ppu", <<"palette_ram_", "vram_", "oam_", "dispcnt_.lower", "dispcnt_.upper",
                     "dispstat_.lower", "dispstat_.upper", "vcount_">>)
    \o regular_bg_serialize("bg0_") \o regular_bg_serialize("bg1_")
    \o affine_bg_serialize("bg2_") \o affine_bg_serialize("bg3_")
    \o Members("ppu",
        <<"win0_.top_left.x", "win0_.top_left.y", "win0_.bottom_right.x", "win0_.bottom_right.y",
          "win1_.top_left.x", "win1_.top_left.y", "win1_.bottom_right.x", "win1_.bottom_right.y",
          "win_in_.win0", "win_in_.win1", "win_out_.obj", "win_out_.outside",
          "win_can_draw_flags_", "green_swap_", "mosaic_bg_.v", "mosaic_bg_.h",
          "mosaic_bg_.internal.v", "mosaic_bg_.internal.h", "mosaic_obj_.v", "mosaic_obj_.h",
          "mosaic_obj_.internal.v", "mosaic_obj_.internal.h", "bldcnt_.first",
          "bldcnt_.second", "bldcnt_.type", "blend_settings_.eva", "blend_settings_.evb",
          "blend_settings_.evy">>)
    \o obj_buffer_entry \o Members("ppu", <<"final_buffer_", "bg_buffers_">>)

pulse_channel_serialize(ch) ==
    sweep(ch) \o wave_data(ch) \o envelope(ch) \o frequency_data(ch)
    \o Members(ch, <<"length_counter", "waveform_duty_index", "waveform_phase", "volume",
                     "output", "enabled", "dac_enabled">>)

wave_channel_serialize ==
    Members("channel_3_", <<"sound_length", "output_level", "force_output_level">>)
    \o frequency_data("channel_3_")
    \o Members("channel_3_", <<"length_counter", "sample_index", "output", "enabled",
                               "dac_enabled", "wave_bank_2d", "wave_bank", "wave_ram">>)

noise_channel_serialize ==
    Members("channel_4_", <<"sound_length">>) \o envelope("channel_4_")
    \o polynomial_counter("channel_4_")
    \o Members("channel_4_", <<"freq_control", "length_counter", "lfsr", "volume", "output",
                               "enabled", "dac_enabled">>)

apu_serialize ==
    Members("apu", <<"power_on_", "control_.0", "control_.1", "control_.2", "control_.3",
                     "soundbias_.bias", "soundbias_.resolution">>)
    \o pulse_channel_serialize("channel_1_") \o pulse_channel_serialize("channel_2_")
    \o wave_channel_serialize \o noise_channel_serialize
    \o fifo("fifo_a_") \o fifo("fifo_b_")
    \o Members("apu", <<"frame_sequencer_">>) \o sound_buffer \o resampler

rtc_serialize == Members("rtc",
    <<"pin_states_", "directions_", "read_allowed_", "internal_regs_", "control_", "state_",
      "current_cmd_.cmd_type", "current_cmd_.is_access_read", "current_byte_", "current_bit_",
      "bit_buffer_", "ports_.cs", "ports_.sio", "ports_.sck">>)

\* The contents of the backing file go with the state.
backup_serialize ==
    LET base == Members("backup", <<"file", "size_">>) IN
    CASE Backup = "none" -> <<>>
      [] Backup = "sram" -> base
      [] Backup = "eeprom" -> base \o Members("backup",
            <<"buffer_", "address_", "bus_width_", "settled_response_", "transmission_count_",
              "state_", "cmd_">>)
      [] Backup = "flash" -> base \o Members("backup",
            <<"current_bank_", "state_", "current_cmds_">>)

gamepak_serialize == (IF HasRtc THEN rtc_serialize ELSE <<>>) \o backup_serialize

scheduler_serialize == Members("scheduler", <<"heap_", "now_", "next_event_handle_">>)

keypad_serialize == Members("keypad",
    <<"keyinput_", "keycnt_.select", "keycnt_.enabled", "keycnt_.cond_strategy">>)

core_serialize == scheduler_serialize \o gamepak_serialize \o cpu_serialize \o ppu_serialize
    \o apu_serialize \o keypad_serialize
----------------------------------------------------------------------------
(* What each component reads, in order. *)
timer_deserialize(i) == Members("timer" \o i,
    <<"handle_", "last_scheduled_timestamp_", "counter_", "reload_",
      "control_.prescalar", "control_.enabled", "control_.cascaded", "control_.irq_enabled">>)

channel_deserialize(i) == Members("dma" \o i,
    <<"last_event_handle", "src", "dst", "count", "internal.src", "internal.dst",
      "internal.count", "cnt.dst_control", "cnt.src_control", "cnt.when", "cnt.repeat",
      "cnt.size", "cnt.drq", "cnt.irq", "cnt.enabled", "latch">>)

dma_deserialize == Members("dma", <<"scheduled_channels_">>)
          \o FourOf([i \in Units |-> channel_deserialize(i)])
          \o Members("dma", <<"latch_">>)

cpu_deserialize ==
    Members("cpu",
        <<"r_", "reg_banks_", "cpsr_", "spsr_banks_", "ie_", "if_", "ime_", "irq_signal_",
          "scheduled_irq_signal_", "irq_signal_delay_handle_", "pipeline_.decoding",
          "pipeline_.executing", "pipeline_.fetch_type", "wram_", "iwram_">>)
    \o FourOf([i \in Units |-> timer_deserialize(i)]) \o dma_deserialize
    \o Members("cpu",
        <<"bios_last_read_", "post_boot_", "prefetch_buffer_.begin", "prefetch_buffer_.end",
          "prefetch_buffer_.size", "prefetch_buffer_.capacity", "prefetch_buffer_.cycles_left",
          "prefetch_buffer_.cycles_needed", "prefetch_buffer_.addr_increment",
          "prefetch_buffer_.active", "waitcnt_.sram", "waitcnt_.ws0_nonseq", "waitcnt_.ws0_seq",
          "waitcnt_.ws1_nonseq", "waitcnt_.ws1_seq", "waitcnt_.ws2_nonseq", "waitcnt_.ws2_seq",
          "waitcnt_.phi", "waitcnt_.prefetch_buffer_enable", "haltcnt_">>)

regular_bg_deserialize(screen) == Members(screen, <<"cnt.lower", "cnt.upper", "hoffset", "voffset">>)

affine_bg_deserialize(screen) == regular_bg_deserialize(screen) \o Members(screen,
    <<"x_ref.ref", "y_ref.ref", "x_ref.internal", "y_ref.internal", "pa", "pb", "pc", "pd">>)

ppu_deserialize ==
    Members("ppu", <<"palette_ram_", "vram_", "oam_", "dispcnt_.lower", "dispcnt_.upper",
                     "dispstat_.lower", "dispstat_.upper", "vcount_">>)
    \o regular_bg_deserialize("bg0_") \o regular_bg_deserialize("bg1_")
    \o affine_bg_deserialize("bg2_") \o affine_bg_deserialize("bg3_")
    \o Members("ppu",
        <<"win0_.top_left.x", "win0_.top_left.y", "win0_.bottom_right.x", "win0_.bottom_right.y",
          "win1_.top_left.x", "win1_.top_left.y", "win1_.bottom_right.x", "win1_.bottom_right.y",
          "win_in_.win0", "win_in_.win1", "win_out_.obj", "win_out_.outside",
          "win_can_draw_flags_", "green_swap_", "mosaic_bg_.v", "mosaic_bg_.h",
          "mosaic_bg_.internal.v", "mosaic_bg_.internal.h", "mosaic_obj_.v", "mosaic_obj_.h",
          "mosaic_obj_.internal.v", "mosaic_obj_.internal.h", "bldcnt_.first",
          "bldcnt_.second", "bldcnt_.type", "blend_settings_.eva", "blend_settings_.evb",
          "blend_settings_.evy">>)
    \o obj_buffer_entry \o Members("ppu", <<"final_buffer_", "bg_buffers_">>)

pulse_channel_deserialize(ch) ==
    sweep(ch) \o wave_data(ch) \o envelope(ch) \o frequency_data(ch)
    \o Members(ch, <<"length_counter", "waveform_duty_index", "waveform_phase", "volume",
                     "output", "enabled", "dac_enabled">>)

wave_channel_deserialize ==
    Members("channel_3_", <<"sound_length", "output_level", "force_output_level">>)
    \o frequency_data("channel_3_")
    \o Members("channel_3_", <<"length_counter", "sample_index", "output", "enabled",
                               "dac_enabled", "wave_bank_2d", "wave_bank", "wave_ram">>)

noise_channel_deserialize ==
    Members("channel_4_", <<"sound_length">>) \o envelope("channel_4_")
    \o polynomial_counter("channel_4_")
    \o Members("channel_4_", <<"freq_control", "length_counter", "lfsr", "volume", "output",
                               "enabled", "dac_enabled">>)

apu_deserialize ==
    Members("apu", <<"power_on_", "control_.0", "control_.1", "control_.2", "control_.3",
                     "soundbias_.bias", "soundbias_.resolution">>)
    \o pulse_channel_deserialize("channel_1_") \o pulse_channel_deserialize("channel_2_")
    \o wave_channel_deserialize \o noise_channel_deserialize
    \o fifo("fifo_a_") \o fifo("fifo_b_")
    \o Members("apu", <<"frame_sequencer_">>) \o sound_buffer \o resampler

rtc_deserialize == Members("rtc",
    <<"pin_states_", "directions_", "read_allowed_", "internal_regs_", "control_", "state_",
      "current_cmd_.cmd_type", "current_cmd_.is_access_read", "current_byte_", "current_bit_",
      "bit_buffer_", "ports_.cs", "ports_.sio", "ports_.sck">>)

\* The backing file is written over with the contents it had.
backup_deserialize ==
    LET base == Members("backup", <<"file", "size_">>) IN
    CASE Backup = "none" -> <<>>
      [] Backup = "sram" -> base
      [] Backup = "eeprom" -> base \o Members("backup",
            <<"buffer_", "address_", "bus_width_", "settled_response_", "transmission_count_",
              "state_", "cmd_">>)
      [] Backup = "flash" -> base \o Members("backup",
            <<"current_bank_", "state_", "current_cmds_">>)

gamepak_deserialize == (IF HasRtc THEN rtc_deserialize ELSE <<>>) \o backup_deserialize

scheduler_deserialize == Members("scheduler", <<"heap_", "now_", "next_event_handle_">>)

keypad_deserialize == Members("keypad",
    <<"keyinput_", "keycnt_.select", "keycnt_.enabled", "keycnt_.cond_strategy">>)

core_deserialize == scheduler_deserialize \o gamepak_deserialize \o cpu_deserialize \o ppu_deserialize
    \o apu_deserialize \o keypad_deserialize
----------------------------------------------------------------------------
(* The byte of a register: its fields, each with its first bit and its     *)
(* number of bits, as the program reads it and as a write sets it.         *)
dispcnt_read_lower == {<<"bg_mode", 0, 3>>, <<"frame_select", 4, 1>>,
    <<"hblank_interval_free", 5, 1>>, <<"obj_mapping_1d", 6, 1>>, <<"forced_blank", 7, 1>>}
dispcnt_write_lower == {<<"bg_mode", 0, 3>>, <<"frame_select", 4, 1>>,
    <<"hblank_interval_free", 5, 1>>, <<"obj_mapping_1d", 6, 1>>, <<"forced_blank", 7, 1>>}
dispcnt_read_upper == {<<"bg_enabled", 0, 4>>, <<"obj_enabled", 4, 1>>, <<"win0_enabled", 5, 1>>,
    <<"win1_enabled", 6, 1>>, <<"win_obj_enabled", 7, 1>>}
dispcnt_write_upper == {<<"bg_enabled", 0, 4>>, <<"obj_enabled", 4, 1>>, <<"win0_enabled", 5, 1>>,
    <<"win1_enabled", 6, 1>>, <<"win_obj_enabled", 7, 1>>}

\* Where the beam is can be read and not written.
dispstat_read_lower == {<<"vblank", 0, 1>>, <<"hblank", 1, 1>>, <<"vcounter", 2, 1>>,
    <<"vblank_irq_enabled", 3, 1>>, <<"hblank_irq_enabled", 4, 1>>, <<"vcounter_irq_enabled", 5, 1>>}
dispstat_write_lower == {<<"vblank_irq_enabled", 3, 1>>, <<"hblank_irq_enabled", 4, 1>>,
    <<"vcounter_irq_enabled", 5, 1>>}
dispstat_upper == {<<"vcount_setting", 0, 8>>}

bgcnt_read_lower == {<<"priority", 0, 2>>, <<"char_base_block", 2, 2>>, <<"_unused_2", 4, 2>>,
    <<"mosaic_enabled", 6, 1>>, <<"color_depth_8bit", 7, 1>>}
bgcnt_write_lower == {<<"priority", 0, 2>>, <<"char_base_block", 2, 2>>, <<"_unused_2", 4, 2>>,
    <<"mosaic_enabled", 6, 1>>, <<"color_depth_8bit", 7, 1>>}
bgcnt_read_upper == {<<"screen_entry_base_block", 0, 5>>, <<"screen_size", 6, 2>>, <<"wraparound", 5, 1>>}
bgcnt_write_upper == {<<"screen_entry_base_block", 0, 5>>, <<"screen_size", 6, 2>>, <<"wraparound", 5, 1>>}

win_enable_bits_read == {<<"bg_enabled", 0, 4>>, <<"obj_enabled", 4, 1>>, <<"blend_enabled", 5, 1>>}
win_enable_bits_write == {<<"bg_enabled", 0, 4>>, <<"obj_enabled", 4, 1>>, <<"blend_enabled", 5, 1>>}

bldcnt_target_read == {<<"bg", 0, 4>>, <<"obj", 4, 1>>, <<"backdrop", 5, 1>>}
bldcnt_target_write == {<<"bg", 0, 4>>, <<"obj", 4, 1>>, <<"backdrop", 5, 1>>}

cnt_read(n) ==
    CASE n = 0 -> {<<"volumes.right", 0, 3>>, <<"volumes.left", 4, 3>>}
      [] n = 1 -> {<<"psg_enables.right", 0, 4>>, <<"psg_enables.left", 4, 4>>}
      [] n = 2 -> {<<"psg_volume", 0, 2>>, <<"fifo_a.full_volume", 2, 1>>, <<"fifo_b.full_volume", 3, 1>>}
      [] n = 3 -> {<<"fifo_a.enables", 0, 2>>, <<"fifo_a.selected_timer_id", 2, 1>>,
                   <<"fifo_b.enables", 4, 2>>, <<"fifo_b.selected_timer_id", 6, 1>>}

cnt_write(n) ==
    CASE n = 0 -> {<<"volumes.right", 0, 3>>, <<"volumes.left", 4, 3>>}
      [] n = 1 -> {<<"psg_enables.right", 0, 4>>, <<"psg_enables.left", 4, 4>>}
      [] n = 2 -> {<<"psg_volume", 0, 2>>, <<"fifo_a.full_volume", 2, 1>>, <<"fifo_b.full_volume", 3, 1>>}
      [] n = 3 -> {<<"fifo_a.enables", 0, 2>>, <<"fifo_a.selected_timer_id", 2, 1>>,
                   <<"fifo_b.enables", 4, 2>>, <<"fifo_b.selected_timer_id", 6, 1>>}

\* The layouts of a register's byte: as it is saved, and as it is loaded.
Layouts ==
    [r \in {"dispcnt_.lower", "dispcnt_.upper", "dispstat_.lower", "dispstat_.upper", "cnt.lower",
            "cnt.upper", "win_in_.win0", "win_in_.win1", "win_out_.obj", "win_out_.outside",
            "bldcnt_.first", "bldcnt_.second", "control_.0", "control_.1", "control_.2", "control_.3"} |->
        CASE r = "dispcnt_.lower" -> <<dispcnt_read_lower, dispcnt_write_lower>>
          [] r = "dispcnt_.upper" -> <<dispcnt_read_upper, dispcnt_write_upper>>
          [] r = "dispstat_.lower" -> <<dispstat_read_lower, dispstat_write_lower>>
          [] r = "dispstat_.upper" -> <<dispstat_upper, dispstat_upper>>
          [] r = "cnt.lower" -> <<bgcnt_read_lower, bgcnt_write_lower>>
          [] r = "cnt.upper" -> <<bgcnt_read_upper, bgcnt_write_upper>>
          [] r \in {"win_in_.win0", "win_in_.win1", "win_out_.obj", "win_out_.outside"} ->
                <<win_enable_bits_read, win_enable_bits_write>>
          [] r \in {"bldcnt_.first", "bldcnt_.second"} -> <<bldcnt_target_read, bldcnt_target_write>>
          [] r = "control_.0" -> <<cnt_read(0), cnt_write(0)>>
          [] r = "control_.1" -> <<cnt_read(1), cnt_write(1)>>
          [] r = "control_.2" -> <<cnt_read(2), cnt_write(2)>>
          [] r = "control_.3" -> <<cnt_read(3), cnt_write(3)>>]

\* The members in an item, as it is saved and as it is loaded.
Shown(item) ==
    IF item[2] \in DOMAIN Layouts
    THEN {<<item[1], item[2], f[1]>> : f \in Layouts[item[2]][1]} ELSE {item}

SetBy(item) ==
    IF item[2] \in DOMAIN Layouts
    THEN {<<item[1], item[2], f[1]>> : f \in Layouts[item[2]][2]} ELSE {item}

FieldBits(field) == field[2] .. field[2] + field[3] - 1

\* The bits that a load takes for a member are the member's own and no other's.
Whole(m) ==
    m[2] \in DOMAIN Layouts =>
        LET saved == Layouts[m[2]][1]
            f == CHOOSE g \in Layouts[m[2]][2] : g[1] = m[3] IN
        f \in saved /\ \A g \in saved \ {f} : FieldBits(f) \intersect FieldBits(g) = {}

----------------------------------------------------------------------------
Items == {core_serialize[i] : i \in DOMAIN core_serialize}

\* What a component keeps between two ticks and no archive has.
Unsaved ==
    {<<t, "on_overflow", "">> : t \in {"timer0", "timer1", "timer2", "timer3"}}
    \union {<<d, "next_access_type", "">> : d \in {"dma0", "dma1", "dma2", "dma3"}}
    \union {<<c, "timer_event_id", "">> : c \in {"channel_1_", "channel_2_", "channel_3_", "channel_4_"}}
    \union {<<"dma", "running_channels_", "">>, <<"gamepak", "backup_type_", "">>}

\* What a load computes from the members it has read.
Derived ==
    [m \in {<<"cpu", "stall_cycles_", "">>, <<"ppu", "win_buffer_", "">>,
            <<"apu", "resampler_.resample_phase_shift_", "">>} |->
        CASE m[1] = "cpu" -> <<"cpu", "waitcnt_.ws0_seq", "">>
          [] m[1] = "ppu" -> <<"ppu", "win0_.top_left.x", "">>
          [] m[1] = "apu" -> <<"apu", "soundbias_.resolution", "">>]

\* The flags that say where the beam is.
BeamFlags == {<<"ppu", "dispstat_.lower", p>> : p \in {"vblank", "hblank", "vcounter"}}

All == (UNION {Shown(i) : i \in Items}) \union Unsaved \union DOMAIN Derived

Components ==
    <<{"scheduler"}, {"gamepak", "rtc", "backup"},
      {"cpu", "dma"} \union {t \o i : t \in {"timer", "dma"}, i \in {"0", "1", "2", "3"}},
      {"ppu", "bg0_", "bg1_", "bg2_", "bg3_"},
      {"apu", "channel_1_", "channel_2_", "channel_3_", "channel_4_", "fifo_a_", "fifo_b_"},
      {"keypad"}>>

\* No archive: a row of no bytes.
None == <<>>
Garbled == MaxRuns + 2

SaveInit ==
    /\ live = [m \in All |-> 1]
    /\ default_state_ = None
    /\ read_pos_ = 0
    /\ files = [s \in Slots |-> None]
    /\ runs = 0
    /\ source = None

\* Where deserialize reads a member, 0 when it does not.
Place == [m \in All |->
    IF \E i \in DOMAIN core_deserialize : m \in SetBy(core_deserialize[i])
    THEN CHOOSE i \in DOMAIN core_deserialize : m \in SetBy(core_deserialize[i])
    ELSE 0]

\* A member read from position i gets what was written there.
Read(archive, m, i) ==
    IF i \in DOMAIN core_serialize /\ core_serialize[i] = core_deserialize[Place[m]] /\ Whole(m)
    THEN archive[m] ELSE Garbled

Deserialized(archive, from) ==
    LET read == [m \in All |-> IF Place[m] = 0 THEN live[m]
                               ELSE Read(archive, m, from + Place[m])] IN
    [m \in All |-> IF m \in DOMAIN Derived THEN read[Derived[m]] ELSE read[m]]

----------------------------------------------------------------------------
load_pak ==
    /\ default_state_ = None
    /\ default_state_' = live
    /\ read_pos_' = 0
    /\ UNCHANGED <<live, files, runs, source>>

tick_one_frame(c) ==
    /\ default_state_ # None
    /\ runs < MaxRuns
    /\ runs' = runs + 1
    /\ live' = [m \in All |-> IF m[1] \in c THEN runs' + 1 ELSE live[m]]
    /\ source' = None
    /\ UNCHANGED <<default_state_, read_pos_, files>>

save_state(slot) ==
    /\ default_state_ # None
    /\ files' = [files EXCEPT ![slot] = live]
    /\ UNCHANGED <<live, default_state_, read_pos_, runs, source>>

load_state(slot) ==
    /\ default_state_ # None
    /\ files[slot] # None
    /\ live' = Deserialized(files[slot], 0)
    /\ source' = files[slot]
    /\ UNCHANGED <<default_state_, read_pos_, files, runs>>

(* Mutant: the archive is read on from where the last reset ended. *)
reset_without_seek ==
    /\ default_state_ # None
    /\ live' = Deserialized(default_state_, read_pos_)
    /\ read_pos_' = read_pos_ + Len(core_deserialize)
    /\ source' = default_state_
    /\ UNCHANGED <<default_state_, files, runs>>

reset ==
    /\ default_state_ # None
    /\ live' = Deserialized(default_state_, 0)
    /\ read_pos_' = Len(core_deserialize)
    /\ source' = default_state_
    /\ UNCHANGED <<default_state_, files, runs>>

SaveNext ==
    \/ load_pak \/ reset
    \/ \E i \in DOMAIN Components : tick_one_frame(Components[i])
    \/ \E slot \in Slots : save_state(slot) \/ load_state(slot)

----------------------------------------------------------------------------
\* After a state is loaded, and after a reset, every member of every component
\* is as it was when the state was saved, but for the members no archive has
\* and the beam's flags of DISPSTAT (serialize and deserialize of each class).
LoadRestores ==
    source # None =>
        \A m \in All : live[m] = source[m] \/ m \in Unsaved \union BeamFlags
=============================================================================
