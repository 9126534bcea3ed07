-------------------------- MODULE MCWidgetSession --------------------------
EXTENDS WidgetSession

(* Every widget register_builtin_widgets knows.                            *)
BuiltinKinds ==
  {"menu", "radio_group", "context_menu", "checklist", "filter", "multiselect", "table", "tree",
   "file_picker", "yesno", "toggle", "calendar", "color_picker", "range_slider", "input",
   "password", "form", "disk", "spinner", "notification", "tabs", "split_panes", "hub",
   "text_editor", "text", "terminal_emulator", "progress", "macro_recorder", "widget_builder", "msg",
   "badge", "gauge", "markdown", "plot", "rich_text", "tooltip", "video", "canvas", "image",
   "separator", "summary"}
AllKinds == BuiltinKinds \cup PluginKinds
=============================================================================
