------------------------------- MODULE Theme -------------------------------
(***************************************************************************)
(* The style engine (src/core/theme.c): what a theme file becomes when it  *)
(* is loaded, how override files are merged into the theme in use, and     *)
(* which style a node of a given class and state gets.                     *)
(*                                                                         *)
(* A file is its variables, its selectors in file order, its animations    *)
(* and the files it extends.  The style keeps one property per way         *)
(* merge_style treats one; the properties it leaves out (radius, padding,  *)
(* shadows, ...) are merged like border_width or min_width.                *)
(***************************************************************************)
EXTENDS Integers, Sequences, SequencesExt, TLC

Absent == [present |-> FALSE]     \* no such file, or not JSON
NoName == ""

-----------------------------------------------------------------------------
(* Colours are <<alpha, red, green, blue>>.  The text of a colour is the   *)
(* sequence of the byte pairs behind "#"; the text of a variable or of a   *)
(* call of a colour function is a record of its own.                       *)
Text(bytes) == [fn |-> "text", bytes |-> bytes]
Var(name) == [fn |-> "var", name |-> name]
Call(fn, arg) == [fn |-> fn, arg |-> arg]
Mix(first, second, percent) ==
  [fn |-> "mix", first |-> first, second |-> second, percent |-> percent]

\* Any other text, an unresolved variable too, is opaque black.
parse_color(text) ==
  LET bytes == IF text.fn = "text" THEN text.bytes ELSE <<>>
  IN IF Len(bytes) = 3 THEN <<255>> \o bytes
     ELSE IF Len(bytes) = 4 THEN <<bytes[4], bytes[1], bytes[2], bytes[3]>>
     ELSE <<255, 0, 0, 0>>

\* Writes the alpha byte first, where parse_color reads it last.
color_to_hex(color) == Text(color)

clamp_int(v, lo, hi) == IF v < lo THEN lo ELSE IF v > hi THEN hi ELSE v

Shifted(color, amount) ==
  [i \in 1..4 |-> IF i = 1 THEN color[1]
                  ELSE clamp_int(color[i] + amount, 0, 255)]
color_lighten(color) == Shifted(color, 51)      \* (int)(255 * 0.2)
color_darken(color) == Shifted(color, -51)
color_alpha(color) == [color EXCEPT ![1] = @ \div 2]
color_mix(first, second, percent) ==
  LET t == clamp_int(percent, 0, 100)
  IN [i \in 1..4 |-> (first[i] * (100 - t) + second[i] * t) \div 100]

\* A variable's value is looked up once and not resolved again.
Lookup(vars, text) ==
  IF text.fn = "var" /\ text.name \in DOMAIN vars THEN vars[text.name] ELSE text

apply_color_function(fn, arg, vars) ==
  LET base == parse_color(Lookup(vars, arg))
  IN color_to_hex(CASE fn = "lighten" -> color_lighten(base)
                    [] fn = "darken" -> color_darken(base)
                    [] fn = "alpha" -> color_alpha(base))

resolve_var(vars, text) ==
  CASE text.fn \in {"lighten", "darken", "alpha"} ->
         apply_color_function(text.fn, text.arg, vars)
    [] text.fn = "mix" ->
         color_to_hex(color_mix(parse_color(Lookup(vars, text.first)),
                                parse_color(Lookup(vars, text.second)),
                                text.percent))
    [] OTHER -> Lookup(vars, text)

-----------------------------------------------------------------------------
(* Styles.                                                                 *)
Colours == {"fg_color", "bg_color", "border_color", "border_top_color"}
Sizes == {"border_width", "min_width", "min_height", "max_width",
          "max_height", "font_size"}

widgetstyle_default ==
  [fg_color |-> <<255, 208, 208, 208>>, bg_color |-> <<255, 26, 26, 46>>,
   border_color |-> <<255, 42, 42, 74>>, border_top_color |-> <<0, 0, 0, 0>>,
   border_width |-> 1, min_width |-> 0, min_height |-> 0, max_width |-> 0,
   max_height |-> 0, font_size |-> 14]

\* A side without a colour of its own takes the border's.
parse_widget_style(props, vars) ==
  LET Given(p) == IF p \in Colours THEN parse_color(resolve_var(vars, props[p]))
                                   ELSE props[p]
      Border == IF "border_color" \in DOMAIN props THEN Given("border_color")
                ELSE widgetstyle_default.border_color
  IN [p \in Colours \cup Sizes |->
        IF p \in DOMAIN props THEN Given(p)
        ELSE IF p = "border_top_color" THEN Border
        ELSE widgetstyle_default[p]]

\* The value that merge_style takes to mean "not set"; border_color has none.
Unset ==
  [fg_color |-> <<255, 0, 0, 0>>, bg_color |-> <<0, 0, 0, 0>>,
   border_top_color |-> <<0, 0, 0, 0>>, border_width |-> 1, min_width |-> 0,
   min_height |-> 0, max_width |-> 99999, max_height |-> 99999,
   font_size |-> 14]

\* The properties that merge_style copies from `src`.
merge_style(src) ==
  {p \in Colours \cup Sizes : p \in DOMAIN Unset => src[p] # Unset[p]}

-----------------------------------------------------------------------------
(* Themes.  A selector is "class child:state"; the rules of a file are     *)
(* pushed on the front of the list, so they are applied last to first.     *)
Selector(class, child, state, props) ==
  [class |-> class, child |-> child, state |-> state, props |-> props]

parse_style_rules(widgets, vars) ==
  [i \in 1..Len(widgets) |->
     LET w == widgets[Len(widgets) + 1 - i]
     IN [class |-> w.class, child |-> w.child, state |-> w.state,
         style |-> parse_widget_style(w.props, vars)]]

\* The files that theme_load takes rules from, the one that counts most last.
\* A base goes in front of what is there, so of an array of bases the first
\* counts most; it is loaded like the file itself (extends is followed twice
\* here).  `extends` is read after cJSON_Delete freed it: only the files in
\* `survives` still have theirs (the process may also end, which is left out).
Alone(file) == IF file.present THEN <<file>> ELSE <<>>

Bases(file, survives) ==
  IF file.present /\ file \in survives THEN Reverse(file.extends) ELSE <<>>

WithBases(file, survives) ==
  LET bases == Bases(file, survives)
  IN FlattenSeq([i \in DOMAIN bases |-> Alone(bases[i])]) \o Alone(file)

Lineage(file, survives) ==
  LET bases == Bases(file, survives)
  IN IF ~file.present THEN <<>>
     ELSE FlattenSeq([i \in DOMAIN bases |-> WithBases(bases[i], survives)]) \o Alone(file)

\* The variables of the files, those of the last winning.
Variables(read) == FoldLeft(LAMBDA vars, f : f.vars @@ vars, <<>>, read)

\* The list of rules is kept as the pieces it is joined of, one for a file.
\* Rules are resolved with the variables of their own file.
theme_load(file, survives) ==
  LET read == Lineage(file, survives)
  IN [rules |-> [i \in DOMAIN read |-> parse_style_rules(read[i].widgets, read[i].vars)],
      vars |-> Variables(read), next |-> <<>>]

theme_default == [rules |-> <<>>, vars |-> <<>>, next |-> <<>>]

\* The themes that could be loaded of a directory: the first one, with the
\* rest chained behind it.
theme_load_directory(found) == [Head(found) EXCEPT !.next = Tail(found)]

theme_add_plugin_overrides(base, found) == [base EXCEPT !.next = @ \o found]

\* Slip: an override's rules put in front of the base's.
MergedInFront(base, file, survives) ==
  LET over == theme_load(file, survives)
  IN IF ~file.present THEN base
     ELSE [base EXCEPT !.rules = over.rules \o @, !.vars = over.vars @@ @]

\* Rules go to the end of the list, where they win; variables are replaced,
\* but the base's rules were resolved when it was loaded.
Merged(base, file, survives) ==
  LET over == theme_load(file, survives)
  IN IF ~file.present THEN base
     ELSE [base EXCEPT !.rules = @ \o over.rules, !.vars = over.vars @@ @]

theme_merge_app_override(base, file, survives) == Merged(base, file, survives)
theme_merge_user_override(base, file, survives) == Merged(base, file, survives)
theme_merge_accessibility_profile(base, file, survives) == Merged(base, file, survives)

Matches(rule, class, child, state) ==
  /\ rule.class = class
  /\ rule.child # NoName => rule.child = child
  /\ rule.state # NoName => rule.state = state

Latest(S) == CHOOSE i \in S : \A j \in S : j <= i

\* The matching rules are merged over the defaults in the order of the list:
\* each property is that of the latest rule that copies it.
theme_resolve(theme, class, child, state) ==
  LET Setting(piece, p) == {j \in DOMAIN piece : /\ Matches(piece[j], class, child, state)
                                                 /\ p \in merge_style(piece[j].style)}
      Pieces(p) == {i \in DOMAIN theme.rules : Setting(theme.rules[i], p) # {}}
      Deciding(p) == theme.rules[Latest(Pieces(p))]
  IN [p \in Colours \cup Sizes |->
        IF Pieces(p) = {} THEN widgetstyle_default[p]
        ELSE Deciding(p)[Latest(Setting(Deciding(p), p))].style[p]]

-----------------------------------------------------------------------------
(* The registry of named animations that loading a theme fills.            *)
\* An entry without keyframes is skipped.
animation_registry_load_from_theme(registry, file) ==
  registry \o SelectSeq(file.animations, LAMBDA a : a.keyframes)

animation_registry_clear == <<>>

\* Of the files theme_load reads, in the order in which it reads them.
Animations(registry, file, survives) ==
  FoldLeft(animation_registry_load_from_theme, registry, Reverse(Lineage(file, survives)))

=============================================================================
